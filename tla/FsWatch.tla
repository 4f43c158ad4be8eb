------------------------------- MODULE FsWatch --------------------------------
(***************************************************************************)
(* fs.watch as a whole (src/src/api/fs_watch.cpp,                          *)
(* src/src/api/js/fs_watch.js): the watchers' threads, the tick that       *)
(* drains them all before it dispatches, the JavaScript that listens and   *)
(* may close, open or lose watchers while it does, and the host's sleep.   *)
(*                                                                         *)
(* Each watcher's ring is the queue of LossyQueue, which FsEventRing is    *)
(* shown to implement, with room for Room events; the wake is the flag     *)
(* NetWait keeps.  An event is its serial number.                          *)
(***************************************************************************)
EXTENDS Naturals, Sequences, FiniteSets

CONSTANTS Watchers,     \* the ids fs.watch hands out, each once
          None,         \* no id
          Room,         \* events a ring holds: kCap - 1
          MaxEvents,    \* bound: events a watcher's thread sees
          MaxThrown     \* bound: errors a watcher's listeners throw and it tells

ASSUME NoneAssumption == None \notin Watchers
ASSUME RoomAssumption == Room \in Nat \ {0}
ASSUME BoundsAssumption == MaxEvents \in Nat /\ MaxThrown \in Nat

VARIABLES native,       \* g_state.watchers: the id has a running FsWatcher
          queue,        \* each watcher's ring
          missed,       \* each watcher's overflow_
          seen,         \* events each watcher's thread has seen
          dropped,      \* history: those of them its ring had no room for
          signaled,     \* a wakeNetWait the host's wait has not answered
          revoked,      \* g_state.revoked
          registry,     \* JS: the FSWatcher is registered and not closed
          opened,       \* history: the id has been handed out
          pc,           \* where the JS thread is in js_fs_watch_tick
          frames,       \* the emissions under way, the innermost first
          refusals,     \* the revocations the tick moved out and has yet to tell
          todo,         \* the watchers it has yet to drain
          cur,          \* the watcher it is at
          pending,      \* the events drained and not yet dispatched
          emitted       \* history: what each watcher's listeners were told

nativeVars == <<native, queue, missed, seen, dropped, signaled, revoked>>
jsVars == <<registry, opened, emitted>>
tickVars == <<pc, frames, refusals, todo, cur, pending>>
vars == <<nativeVars, jsVars, tickVars>>

Note(kind, k) == [kind |-> kind, k |-> k]
Change(k) == Note("change", k)
Overflow == Note("overflow", 0)
Refused == Note("refused", 0)
Closed == Note("close", 0)
Thrown == Note("thrown", 0)

Init == /\ native = [w \in Watchers |-> FALSE]
        /\ queue = [w \in Watchers |-> <<>>]
        /\ missed = [w \in Watchers |-> FALSE]
        /\ seen = [w \in Watchers |-> 0]
        /\ dropped = [w \in Watchers |-> {}]
        /\ signaled = FALSE
        /\ revoked = <<>>
        /\ registry = [w \in Watchers |-> FALSE]
        /\ opened = [w \in Watchers |-> FALSE]
        /\ pc = "idle"
        /\ frames = <<>>
        /\ refusals = <<>>
        /\ todo = {}
        /\ cur = None
        /\ pending = <<>>
        /\ emitted = [w \in Watchers |-> <<>>]

-------------------------------------------------------------------------------
(* A watcher's thread.                                                      *)

\* pushEvent with room: queued, and the host's wait is woken.
Push(w) == /\ native[w]
           /\ seen[w] < MaxEvents
           /\ Len(queue[w]) < Room
           /\ seen' = [seen EXCEPT ![w] = @ + 1]
           /\ queue' = [queue EXCEPT ![w] = Append(@, seen'[w])]
           /\ signaled' = TRUE
           /\ UNCHANGED <<native, missed, dropped, revoked, jsVars, tickVars>>

\* pushEvent without: only the overflow flag is raised.
Drop(w) == /\ native[w]
           /\ seen[w] < MaxEvents
           /\ Len(queue[w]) = Room
           /\ seen' = [seen EXCEPT ![w] = @ + 1]
           /\ missed' = [missed EXCEPT ![w] = TRUE]
           /\ dropped' = [dropped EXCEPT ![w] = @ \union {seen'[w]}]
           /\ UNCHANGED <<native, queue, signaled, revoked, jsVars, tickVars>>

\* The FsWatcher is destroyed: its thread joined, its ring gone.
Destroy(w) == /\ native' = [native EXCEPT ![w] = FALSE]
              /\ queue' = [queue EXCEPT ![w] = <<>>]
              /\ missed' = [missed EXCEPT ![w] = FALSE]

-------------------------------------------------------------------------------
(* The program, between ticks and inside the listeners of an emission.      *)

Listening == frames # <<>>

JsRuns == Listening \/ pc = "idle"

\* _emit(event): w's listeners for it are called one by one, on top of whatever
\* emission called into the program.
Emit(w, note) == /\ emitted' = [emitted EXCEPT ![w] = Append(@, note)]
                 /\ frames' = <<[w |-> w, told |-> note.kind]>> \o frames

TellsNothing == UNCHANGED <<emitted, frames>>

\* fs.watch(path): a native watcher and its registration.
Open(w) == /\ JsRuns
           /\ ~opened[w]
           /\ opened' = [opened EXCEPT ![w] = TRUE]
           /\ native' = [native EXCEPT ![w] = TRUE]
           /\ registry' = [registry EXCEPT ![w] = TRUE]
           /\ UNCHANGED <<queue, missed, seen, dropped, signaled, revoked, emitted, tickVars>>

\* close(): unregistered, destroyed, and 'close' emitted; once.
CloseEffect(w) == IF registry[w]
                  THEN /\ registry' = [registry EXCEPT ![w] = FALSE]
                       /\ Destroy(w)
                       /\ Emit(w, Closed)
                  ELSE UNCHANGED <<registry, native, queue, missed>> /\ TellsNothing

Close(w) == /\ JsRuns
            /\ opened[w]
            /\ CloseEffect(w)
            /\ UNCHANGED <<seen, dropped, signaled, revoked, opened,
                           pc, refusals, todo, cur, pending>>

\* The host takes the grant back: stopped at once, the refusal queued.
Revoke(w) == /\ JsRuns
             /\ native[w]
             /\ Destroy(w)
             /\ revoked' = Append(revoked, w)
             /\ UNCHANGED <<seen, dropped, signaled, jsVars, tickVars>>

\* The last listener of the innermost emission is done.
EmissionEnds == /\ Listening
                /\ frames' = Tail(frames)
                /\ UNCHANGED <<nativeVars, jsVars, pc, refusals, todo, cur, pending>>

\* A listener throws: _emit tells the watcher's 'error' listeners, even of a watcher
\* that has closed, and goes on with the listeners that are left.  What a listener
\* of 'error' throws, or any if there is none, goes to the console only.
IsError(told) == told \in {"overflow", "refused", "thrown"}

Throws(w) == Cardinality({i \in 1 .. Len(emitted[w]) : emitted[w][i] = Thrown})

ListenerThrows == /\ Listening
                  /\ ~IsError(Head(frames).told)
                  /\ Throws(Head(frames).w) < MaxThrown
                  /\ Emit(Head(frames).w, Thrown)
                  /\ UNCHANGED <<nativeVars, registry, opened, pc, refusals, todo, cur, pending>>

-------------------------------------------------------------------------------
(* The host's wait and the tick.                                            *)

Sleep == /\ pc = "idle" /\ ~Listening
         /\ pc' = "asleep"
         /\ UNCHANGED <<nativeVars, jsVars, frames, refusals, todo, cur, pending>>

\* The tick begins by moving the revocations out of g_state.
BeginTick == /\ pc' = "refuse"
             /\ refusals' = revoked
             /\ revoked' = <<>>
             /\ UNCHANGED <<native, queue, missed, seen, dropped, jsVars,
                            frames, todo, cur, pending>>

Woken == pc = "asleep" /\ signaled /\ signaled' = FALSE /\ BeginTick

\* A socket, a timeout, or a host that does not sleep at all.
TimedOut == pc \in {"idle", "asleep"} /\ ~Listening /\ UNCHANGED signaled /\ BeginTick

\* __brokit_fs_watch_revoked: the refusal is the watcher's 'error' ...
Refuse == /\ pc = "refuse" /\ ~Listening
          /\ refusals # <<>>
          /\ cur' = Head(refusals)
          /\ refusals' = Tail(refusals)
          /\ IF registry[cur'] THEN pc' = "close" /\ Emit(cur', Refused)
                               ELSE UNCHANGED pc /\ TellsNothing
          /\ UNCHANGED <<nativeVars, registry, opened, todo, pending>>

\* Mutant: the refusal is told and the watcher left open.
RefusedStaysOpen == /\ pc = "close" /\ ~Listening
                    /\ pc' = "refuse"
                    /\ UNCHANGED <<nativeVars, jsVars, frames, refusals, todo, cur, pending>>

\* ... and then it closes, if its listener has not closed it.
CloseRefused == /\ pc = "close" /\ ~Listening
                /\ CloseEffect(cur)
                /\ pc' = "refuse"
                /\ UNCHANGED <<seen, dropped, signaled, revoked, opened, refusals, todo, cur, pending>>

\* Now every watcher is drained, in no particular order.
BeginDrain == /\ pc = "refuse" /\ ~Listening
              /\ refusals = <<>>
              /\ pc' = "next"
              /\ todo' = {w \in Watchers : native[w]}
              /\ UNCHANGED <<nativeVars, jsVars, frames, refusals, cur, pending>>

NextWatcher == /\ pc = "next"
               /\ \E w \in todo : /\ cur' = w
                                  /\ todo' = todo \ {w}
               /\ pc' = "drain"
               /\ UNCHANGED <<nativeVars, jsVars, frames, refusals, pending>>

DrainOne == /\ pc = "drain"
            /\ queue[cur] # <<>>
            /\ pending' = Append(pending, <<cur, Change(Head(queue[cur]))>>)
            /\ queue' = [queue EXCEPT ![cur] = Tail(@)]
            /\ UNCHANGED <<native, missed, seen, dropped, signaled, revoked, jsVars,
                           pc, frames, refusals, todo, cur>>

\* The ring is empty: the overflow flag becomes the last event.
DrainOverflow == /\ pc = "drain"
                 /\ queue[cur] = <<>>
                 /\ pending' = IF missed[cur] THEN Append(pending, <<cur, Overflow>>)
                                              ELSE pending
                 /\ missed' = [missed EXCEPT ![cur] = FALSE]
                 /\ pc' = "next"
                 /\ UNCHANGED <<native, queue, seen, dropped, signaled, revoked, jsVars,
                                frames, refusals, todo, cur>>

BeginDispatch == /\ pc = "next"
                 /\ todo = {}
                 /\ pc' = "dispatch"
                 /\ UNCHANGED <<nativeVars, jsVars, frames, refusals, todo, cur, pending>>

\* Mutant: the dispatcher does not look whether the watcher is closed.
DispatchToAll == /\ pc = "dispatch" /\ ~Listening
                 /\ pending # <<>>
                 /\ Emit(Head(pending)[1], Head(pending)[2])
                 /\ pending' = Tail(pending)
                 /\ UNCHANGED <<nativeVars, registry, opened, pc, refusals, todo, cur>>

\* Mutant: an event of a closed watcher ends the dispatch of the others'.
DispatchUntilClosed == /\ pc = "dispatch" /\ ~Listening
                       /\ pending # <<>>
                       /\ LET w == Head(pending)[1]
                          IN  /\ IF registry[w] THEN Emit(w, Head(pending)[2])
                                                ELSE TellsNothing
                              /\ pending' = IF registry[w] THEN Tail(pending) ELSE <<>>
                       /\ UNCHANGED <<nativeVars, registry, opened, pc, refusals, todo, cur>>

\* __brokit_fs_watch_dispatch: nothing for a watcher closed meanwhile.
Dispatch == /\ pc = "dispatch" /\ ~Listening
            /\ pending # <<>>
            /\ LET w == Head(pending)[1]
               IN  IF registry[w] THEN Emit(w, Head(pending)[2]) ELSE TellsNothing
            /\ pending' = Tail(pending)
            /\ UNCHANGED <<nativeVars, registry, opened, pc, refusals, todo, cur>>

EndTick == /\ pc = "dispatch" /\ ~Listening
           /\ pending = <<>>
           /\ pc' = "idle"
           /\ cur' = None
           /\ UNCHANGED <<nativeVars, jsVars, frames, refusals, todo, pending>>

Tick == \/ EmissionEnds \/ Refuse \/ CloseRefused \/ BeginDrain \/ NextWatcher
        \/ DrainOne \/ DrainOverflow \/ BeginDispatch \/ Dispatch \/ EndTick

Next == \/ \E w \in Watchers : Push(w) \/ Drop(w) \/ Open(w) \/ Close(w) \/ Revoke(w)
        \/ ListenerThrows \/ Sleep \/ Woken \/ TimedOut \/ Tick

\* A tick runs to its end, listeners return, and the host waits again; nothing
\* makes the wait end but a wake.
Fairness == WF_vars(Tick) /\ WF_vars(Sleep) /\ WF_vars(Woken)

Spec == Init /\ [][Next]_vars /\ Fairness

-------------------------------------------------------------------------------
(* Properties.                                                              *)

IsChange(note) == note.kind = "change"

\* The places where w's listeners were told of a change, and where the tick holds
\* one for w.
ToldAt(w) == {i \in 1 .. Len(emitted[w]) : IsChange(emitted[w][i])}
HeldAt(w) == {i \in 1 .. Len(pending) : pending[i][1] = w /\ IsChange(pending[i][2])}

\* The serial numbers of the events w was told of, of those that the tick holds and
\* has not dispatched, and of those in the ring.
Told(w) == {emitted[w][i].k : i \in ToldAt(w)}
Held(w) == {pending[i][2].k : i \in HeldAt(w)}
Queued(w) == {queue[w][i] : i \in 1 .. Len(queue[w])}

Before(earlier, later) == \A k \in earlier, m \in later : k < m

Accounted(w) ==
  /\ \A i, j \in ToldAt(w) : i < j => emitted[w][i].k < emitted[w][j].k
  /\ \A i, j \in HeldAt(w) : i < j => pending[i][2].k < pending[j][2].k
  /\ \A i, j \in 1 .. Len(queue[w]) : i < j => queue[w][i] < queue[w][j]
  /\ Before(Told(w), Held(w) \union Queued(w)) /\ Before(Held(w), Queued(w))
  /\ dropped[w] \intersect (Told(w) \union Held(w) \union Queued(w)) = {}
  /\ native[w] => 1 .. seen[w] = dropped[w] \union Told(w) \union Held(w) \union Queued(w)

\* No event of a running watcher is lost or told twice, and they are told in the
\* order its thread saw them, whatever the other watchers' listeners open, close
\* or lose between the drain and the dispatch.
EventsAccounted == \A w \in Watchers : Accounted(w)

\* 'close' comes once and ends the events, though a tick drained some before the
\* close: nothing comes after it but what the watcher's own listeners threw in
\* emissions already under way, and a refusal is followed by the close.
CloseEndsTheEvents ==
   \A w \in Watchers : \A i, j \in 1 .. Len(emitted[w]) :
      i < j => /\ emitted[w][i] = Closed => emitted[w][j] = Thrown
               /\ emitted[w][i] = Refused => emitted[w][j] \in {Closed, Thrown}
               /\ emitted[w][i] = Refused /\ j = i + 1 => emitted[w][j] = Closed

\* A watcher whose grant is taken back is closed; the revocation wakes nobody, so
\* this needs the wait to end by itself.
RevocationCloses == WF_vars(TimedOut) =>
                       \A w \in Watchers :
                          (\E i \in 1 .. Len(revoked) : revoked[i] = w) ~> ~registry[w]
===============================================================================
