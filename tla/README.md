# A verification development for brokit

brokit gives an embedded JavaScript engine the APIs of a browser and of Node:
sockets, files, child processes, `fetch`, streams, storage, timers. The engine
runs on one thread, the *JS thread*; the operating system works elsewhere, in
watcher threads, pool threads, pipe readers and the kernel. What is hard in
this code is the seam between the two: queues filled by one side and drained by
the other, wakes that must not get lost, listeners that close the object whose
events are being delivered, teardown that must end.

The other half of the hard part is JavaScript's own: state machines (a body, an
XMLHttpRequest, a WebSocket, an HTTP connection, a transaction) whose steps are
microtasks and listeners, between which the program may call anything.

This directory holds TLA+ modules for both, TLC configurations that check them on
small instances, and TLAPS proofs of the core of them for all instances. Line numbers are of the sources under `src/src/`; paths below leave
out the leading `src/src/`.

- [How the system works](#how-the-system-works)
- [Inventory](#inventory)
- [The modules](#the-modules)
- [The runs](#the-runs)
- [The proofs](#the-proofs)
- [Disagreements found](#disagreements-found)
- [What is not modelled](#what-is-not-modelled)
- [Plan](#plan)
- [Running it](#running-it)

## How the system works

There is no event loop inside brokit. The embedding host owns it: after each
round of JavaScript it calls one *tick* function per API (`__brokit_net_tick`,
`__brokit_fs_watch_tick`, `__brokit_tick_timers`, ...), and between rounds it may
sleep in `waitForNetEvents` (`api/api.h:158-163`). Every component follows the
same scheme:

1. *native state*, a table of handles keyed by id, sometimes shared with a
   thread of its own (a watcher, two pipe readers, the pool of asynchronous file
   operations);
2. *a queue* of events per handle;
3. *the tick*, which moves native events to JavaScript by calling a function the
   API's `.js` part registered, and that function runs the program's listeners;
4. *the JavaScript facade*, an emitter with its own registry and flags, whose
   methods call back into the native table, from inside those listeners too.

A thread that queues something while the host sleeps calls `wakeNetWait`, which
raises a flag and writes a byte to a pipe that `waitForNetEvents` selects on. An
embedder may install an access gate; a granted access is held until the object
is closed, and a revocation calls back into the component, which must error and
close the object (`api/access_policy.h`).

So the behaviours worth checking are: interleavings of a producer thread with the
tick; what a listener does to state the tick has already read; which of two ends
(exit and end of file, data and FIN, drain and sweep) is seen first; whether
everything queued is delivered before the close that follows it; and whether
the host can sleep on work that is pending.

## Inventory

| Component | Source | State | Operations | What is hard |
|---|---|---|---|---|
| event-driven wait | `net_wait.cpp` | flag, self-pipe | `wakeNetWait`, `waitForNetEvents` | a wake at any point of the wait; several waiters |
| fs.watch | `fs_watch*.cpp`, `fs_watch.js` | SPSC ring and overflow flag per watcher, table, list of revocations, JS registry | `pushEvent`, `drain`, create, close, revoke, tick | lock-free ring; events drained before listeners run |
| child processes, piped | `child_process_spawn.cpp`, `child_process_internal.h`, `child_process.js` | buffer, mutex, condition variable and thread per stream; `_exited`, `_outEof`, grace clock | spawn, reader loop, read, poll, close, teardown | backpressure; exit before the last bytes; teardown |
| child processes, to completion | `child_process.cpp` | none across calls | exec, execFileSync | input larger than the pipes |
| TCP and UDP sockets | `net.cpp`, `net.js`, `dgram.js` | table of handles, out-buffer, event queue, JS drain registry | listen, connect, write, end, close, bind, send, tick | half-close; listeners that destroy others; sweep against undelivered close |
| HTTP server and client | `http*.cpp`, `http.js` | parser state per socket, open request and response | parse, respond, request, upgrade | pipelining; end of body without length; socket closed early |
| fetch | `fetch*.cpp`, `fetch_*.js` | table of transfers, per-stream chunk lists, waiting callbacks | start, tick in three phases, read, abort, revoke | a failure after the headers; abort while a read waits |
| XMLHttpRequest | `xhr.js` | `readyState`, sequence number, timer | open, send, abort, timeout | late answers; `open` inside a handler |
| EventSource | `eventsource.js` | `readyState`, reconnect timer | open, chunk, reconnect, close | reconnect against close |
| WebSocket client | `websocket.cpp`, `websocket.js` | table of sockets, state, queue | connect, send, receive, close | promise reactions against the tick's drain |
| WebSocket server | `websocket_server.js` | receive buffer, fragments, close state | handshake, frames, close | frames after an error or a close |
| asynchronous files | `fs_async.cpp`, `fs_fd.cpp` | pool queue, done lists per owner, promises; descriptor table | submit, run, settle, tick | thread exit; order of operations on one descriptor |
| streams | `readable_stream.js`, `writable_stream.js` | controller queue, pending reads and writes, reader/writer locks | enqueue, close, error, read, cancel, write, abort, tee, pipeTo | order of microtasks; close against error |
| timers | `timers.js` | table of timers | set, clear, tick with a limit | callbacks that set and clear; starvation |
| events, abort, message ports | `events.js`, `event_target.js`, `abort.js`, `message_channel.js` | listener lists, signal state, port queues | emit, dispatch, abort, post, start, close | dispatch over a snapshot; ports started late |
| storage | `storage.cpp` | map and its file | get, set, remove, save | a crash in the truncating rewrite |
| IndexedDB, SQLite | `indexeddb*.cpp`, `indexeddb.js`, `sqlite*` | open databases, transaction queue | requests, commit, abort | transactions over microtasks |
| access policy | `access_policy.cpp` | gate, held accesses | check, hold, release | revocation while in use |
| synchronous files, runtime, pure data APIs, crypto, process | see `PROJECT.json` | none that outlives a call, or external | | |

What makes each correct, in a sentence: the wait never sleeps on a wake; a queue
between threads loses nothing silently and keeps order; an object tells its
listeners a legal history that ends with exactly one `close`; all data precedes
the close; a close, an exit or a revocation is always told; teardown ends; the
program's listeners may do anything at any of those points.

`PROJECT.json` lists the components with their status, and the hazards with the
line where each bites and the properties that would catch it.

## The modules

| Module | Models | Role |
|---|---|---|
| `LossyQueue` | the promise of a watcher's ring (`fs_watch.h:6-16`) | abstract specification |
| `FsEventRing` | the ring, access by access | implements `LossyQueue` |
| `NetWait` | `wakeNetWait` and `waitForNetEvents`, access by access | |
| `FsWatch` | all watchers, the tick, the facade, revocation | takes the ring as `LossyQueue`'s queue and the wake as `NetWait`'s flag |
| `ChildPipe` | a piped child: reader threads, poll loop, teardown | |
| `NetSocket` | TCP and UDP handles, the tick, the drain, the sweep | |
| `FsAsync` | the pool of `fs.promises`, ticks of several JS threads, one descriptor | |
| `ReadableStream`, `WritableStream` | one stream each, as operators on its record | the parts of the next three |
| `PipeTo` | `pipeTo` from one to the other, over the microtask queue | |
| `Body` | Response and Request bodies: `text()`, `clone()` with `tee()`, `pipeThrough()` | |
| `Fetch` | the request table and tick of `fetch`, its streaming bodies | extends `ReadableStream` |
| `Xhr`, `EventSource` | the two objects built on `fetch` | extend `Fetch` |
| `Web` | one JS thread with either of them, or a program that fetches | composes the three |
| `TcpLink` | what `NetSocket`'s sockets show to the protocols above | the channel of the next five |
| `WsServer`, `WsClient` | the two ends of a WebSocket | operators on the record of a conversation |
| `WebSocketLink` | both ends, or a foreign peer, on their two threads | composes `TcpLink`, `WsServer`, `WsClient` |
| `HttpMessage` | what the HTTP parser makes of a connection | a fold over tokens |
| `Http` | server and client of one connection | composes `TcpLink` and `HttpMessage` |
| `IdbCursor`, `IndexedDb` | a cursor; a database, its transactions and requests | |
| `*MC` | extend the above for TLC | |
| `*_proof` | theorems about `NetSocket`, `IndexedDb`, `PipeTo`, `WebSocketLink` and `Web`, for which `Fetch_proof` holds the lemmas about `Fetch`; `FileWatching_proof` is about `FsEventRing` and `FsWatch`, `Threads_proof` about `NetWait`, `FsAsync` and `ChildPipe` | |

Operators marked `Mutant:` in a comment are plausible bugs of the definition they
precede. They take no part in any specification; each is there so that the
property it breaks can be seen to break: `PROJECT.json` pairs every property with
one.

### FsEventRing

`FsWatcher::pushEvent` runs on the platform's watcher thread and
`FsWatcher::drain` on the JS thread; they share `ring_`, `head_`, `tail_` and
`overflow_`, all without locks. Each load or store of a shared variable is an
action: `BeginPush` (the full test), `MarkOverflow`, `WriteType`,
`WriteFilename`, `Publish`, `Wake` on one side; `CheckEmpty`, `Take`, `Advance`,
`ExchangeOverflow` on the other, between the host's `ConsumerSleeps` and
`ConsumerWoken` or `ConsumerTimedOut`.

Interleaving single accesses is exact here, for this reason. The indices are
stored with release and loaded with acquire order, a slot is written before the
`tail_` that publishes it and read after the load that sees that `tail_`, and
given back by the store of `head_` after it was read. So no execution of the C++
program reads a slot value that an interleaving of the model does not, and
`head_`/`tail_` have one writer each. Two fields of a slot (`type`, `filename`)
stand for the several words a slot is made of.

History variables: `received` (what `drain` handed out) and `lost` (which push was
dropped, and how much had been handed out by then).

### NetWait

`wakeNetWait` is `Exchange` and `WriteByte`; `waitForNetEvents` is the chain from
`EnsurePipe` to `Return`, with the early exits (`CheckFlag`, `DontSleep`) and the
ways `select` ends (`PipeReadable`, `SocketReady`, `TimesOut`, `Interrupted`).
`drainWakePipe` is `ClearFlag`, `ReadBytes`, `ReadNothing`. The pipe may fail to be
made, or be made beyond `FD_SETSIZE`, where `select` cannot watch it
(`PipeOutcomes`). The waiting thread's sockets are an outcome of `select`.

`g_wakeWriteFd` is a plain variable, written under a mutex on the waiter's side
and read on the waker's after the atomic exchange. Formally that is a data race;
on the platforms the build supports it is a word-sized variable written once, so
the read sees -1 or the descriptor. A waker that wins the exchange before the
pipe exists writes nothing, and the model has that: `EnsurePipe` comes before
`CheckFlag`.

### FsWatch

One layer up: each watcher's ring is a sequence with `Room` places and a
`missed` flag, as `LossyQueue` has it, and the tick is split where other code may
run: `Refuse`/`CloseRefused` (the revocations), `NextWatcher`/`DrainOne`/
`DrainOverflow` (everything is drained into `pending` first), `Dispatch` (one
listener call each). `frames` are the calls of `_emit` under way, the innermost
first; while there is one the program may `Open`, `Close` and be `Revoke`d, and a
listener may throw (`ListenerThrows`), which makes `_emit` tell the watcher's 'error'
listeners on top, whatever was told before. So 'error' may come after 'close'. The
watchers' threads `Push` and `Drop` at any time. `emitted` records each event as its emission begins: if a
listener closes the watcher in the middle of an emission, the remaining listeners
of that same event run, as `_emit` iterates over a copy. The platform loops
(inotify, FSEvents, ReadDirectoryChangesW) are the environment that pushes.

### ChildPipe

`pipeReader` is one action per step of its loop, and `reader[s] = "full"` is the
moment that matters: the wait's predicate was false and the thread, still
holding the mutex, has not yet blocked. The JS thread is `_pollOnce`: two reads
(`TakeOut`, `TakeErr`), `AskExit`, the listeners, `Decide`; then `stopReaders`,
one step per line. `stopReaders` notifies without the mutex, so a reader in
"full" may miss it; which of the two happens is a choice (`MissedNotify`). The child, a grandchild that inherited the pipes, and the
kernel's pipes are the environment. Bytes are counted. Time is one bit, `quiet`:
`EOF_GRACE_MS` has passed since the grace clock was restarted. It may be set
while a poll waits only when the readers have moved what they can, since the
grace (2 s) is many polls long; and while the `exit` listeners run, which take what
time they like. `outlasted` remembers that they did, in a poll that took no bytes:
then the end is judged after them, and what came meanwhile is lost. Not modelled: stdin, kill, revocation, and spawn failures.

### NetSocket

A handle is a record with the fields of `NetHandle`; the operations on it
(`Queue`, `Closed`, `Failed`, `Shut`, `Flushed`, `Finished`) are named for what
`queueClose`, `hardClose`, `failHandle` and `flushOutBuf` do. The tick is
`BeginTick`, then for every id of its snapshot, and then for the connections
accepted meanwhile, `Visit` and the outcome of each system call; then the two
passes of `__brokit_net_drain_all`, one event per `DrainOne`, with the program
free to act in the listener it calls; then `Sweep`. The kernel and the peers are
the choices those calls make. The program's operations (`Listen`, `TcpConnect`,
`Write`, `EndWrites`, `Destroy`, `UdpOpen`, `UdpBind`, `UdpSendFails`) and the
host's `Revoke` happen between ticks and inside listeners, in any order. A
successful UDP `send` changes no state. `told` is what each wrapper was given.

Not modelled: connecting a `Socket` object a second time before it was told of
its close (a hazard on its own, see `PROJECT.json`), `uninstallNet`, and address
queries.

### FsAsync

A call on a JS thread is `SubmitPath` or `SubmitSync` (the argument checks, the
access policy and the flush of `flushFdForSync` are before the job is queued),
then `NotifyWorker`; a pool thread is `Look`, `Work`, `Report`; the JS thread's tick is
`Tick`, one step because a pool thread can only be before or after `take`. JS
threads `Start` and `Finish`. The bytes of one open file are counted three times:
written, with the operating system, on the disk. A flush may fail, which
`flushFdForSync` does not notice (`lost`), and a file may be renamed or removed
under its descriptor (`named`), which makes an fsync by path act on nothing:
`Durable` is stated with both exceptions, the second as `fs_async.h:57-60` has it.
A thread that starts may have the id of one that ended (`Start`), whose list
of completions is still there. A
call the policy refuses changes nothing and is left out. Not modelled: the
position of a descriptor (a positioned read moves it and `ftruncate` resets it to
0) and what operations on paths do.

### ReadableStream, WritableStream, PipeTo

A stream is a record of the fields its object has, and each method an operator
from the record to the next one and to the promise reactions it queues; `PipeTo`
has the two streams as variables, and `jobs`, the microtasks in their order. A
microtask is `SourceReaction` or `SinkReaction` (a callback's promise has
settled), `ReadSettled` and `EntrySettled` (`pump()`), or `ActionEnded`
(`shutdownWithAction`). `Answer` settles the promise of a callback, at any time.
Between two microtasks the program acts: it calls either controller, cancels the
readable stream (which does not look at its lock), fires the abort signal, or,
when there is no pipe or the pipe has released the writer, writes, closes and
aborts with a writer of its own. The `prevent*` options are chosen at the call.

A source is asked by `pull` and marked so (`asked`). What it does inside the
callback and what it does later are the same action, `SourceActs`: nothing of
`_pullIfNeeded`'s callers follows the call that could tell the difference. The error a stream fails
with may be `undefined`, by which `pipeTo` takes it that there is none: such a pipe is
`"blank"` on its way, and fulfils though it failed (`readable_stream.js:368-373`).
`FulfilledIsComplete` leaves it out. A
pipe that is settled reads no more, and the model lets the source and whoever
cancels act only while somebody may read. `tee`, `pipeThrough` and
`TransformStream` are in `Body`. Not modelled: `from`, and the promises `closed`
and `ready`, which no step here reads. The records have the code's known oddity that `close()` does not
look for an error (`readable_stream.js:28`, `writable_stream.js:93`): a stream
that erred is closed by it, and a pipe whose sink erred while the last read was
pending fulfils. The properties are about chunks and do not deny it.

### Body

`text()` and its like, `tee()`, `pipeThrough()` and a program's reader are all the
same thing in the code, a *pump*: a reader whose reaction to one read makes the next
one. `b.s` are the streams, `b.pump` the pumps, `b.jobs` the microtasks; `Consume`,
`Clone`, `PipeThrough`, `TakeReader` are the methods of an object, split where the
code branches (a body of bytes, or of a stream), and `ReadReaction` is the body of a
pump's loop. A source (`Arrive`) answers a pull with a chunk, the end or an error;
a body of bytes is replayed by its stream (`ServeReplay`). Promises that are
resolved as soon as they are made have their reactions one microtask deep.

### Fetch, Xhr, EventSource, Web

`Fetch` has the thread's state as a record: the table of requests, the two pending
lists, one stream per streaming body, and the microtasks that settled promises have
queued. `FetchTick` is `__brokit_fetch_tick`: what curl delivers (`Receive`), then
the three phases in order (`ResolveStreaming`, `NotifyReader`, `Complete`), each over
all requests, then the local responses. `TryRead`, `ReadEnd` and `CallWaiter` are the
natives below a body's `pull`; `AbortRequest` is what a signal and a revoked grant
share. Of a chunk only its size is kept.

`Xhr` and `EventSource` are operators on `[f, x]` and `[f, es]`. A method of
XMLHttpRequest dispatches events in the middle of its work; what remains of the
methods on the stack is `x.script`, and a handler that calls another method puts
that one's steps in front. A handler may throw at any event (`Throw`), which leaves
all of the stack; in a reaction it rejects the promise that the send's last `catch`
waits for, which takes any AbortError for one of its own controller
(`xhr.js:388`): such a send stays in flight for good, and is in `ignored`. The timer of a send, its `fetch` and the reactions to it carry the
sequence number they were made with. `EventSource` sees each event as two units, so
chunks cut events; its handlers may close it at any event of a chunk.

`Web` runs one of the three on the host's round: ticks of fetch, then of timers,
then microtasks until there are none. So a timer comes between the tick that
settles a promise and the reaction to it (`Task`). The server and curl are the
environment (`Arrivals`, `Results`). A body that stalls never ends: fetch sets curl
only a limit for connecting (`fetch.cpp:579`), so nothing is assumed to arrive.

### TcpLink, WsServer, WsClient, WebSocketLink

`TcpLink` is what `NetSocket` leaves for a protocol to see: a tick reads some of
what has come up to the end of the stream and queues the events; the end of the
peer's stream ends this side too, before the listeners have run; writes to a closed
peer bring a reset. `WsServer` and `WsClient` are operators on the record of a
conversation. A frame is two units, so that a chunk may end in it; of its header the
model keeps what makes a difference (opcode, last fragment, a bad mask or length), of
a message its pieces. `_feed` runs one frame at a time (`FeedStep`), with the
program free to send and close in the listener. A failure is two steps, `Fail` and
`AfterError`: in between (`failing`) the listeners of 'error' run, find the connection
open, and may close it, with a status of their own and a timer, or send. The client keeps its state twice:
`native` moves in the tick, `readyState` when the tick drains (`WsRecv`) or in the
reaction to the promise of its opening (`Reaction`), a microtask later. A tick connects
(`ClientPerforms`), drains, receives until there is nothing more or a failure, one
unit per step since the peer's thread writes meanwhile (`ClientPolls`), drains again
and sweeps (`ClientReaps`). `WebSocketLink` puts a server and a peer on threads of their own:
this library's client, or a program that writes any frames (`RawFrames`).

### HttpMessage, Http

`HttpMessage` is llhttp with the callbacks of `http.cpp`: tokens in, events out.
`Http` is the server's listeners (`HandleEvent` takes one event of a batch, and the
program may answer, or destroy, between two of them; its listeners do not throw, which
in `net.js:49-52` would lose the rest of the batch), `ServerResponse` (`ResWrite`,
`ResEnd`, with the framing decided by `SerializeHeaders`), and the client's.
`requests` is what the client will ask: one of a ClientRequest's, which says
`Connection: close`, or up to `MaxRequests` of a program that pipelines, breaks off or
writes garbage. `muddled` marks that answers were given out of turn: the code
writes responses as they are made, and the two properties about responses hold only
if the program answers in turn.

### IdbCursor, IndexedDb

A request reads or writes the table at once, in SQLite's own transaction per
statement; what comes later is the microtask that tells its result. A transaction
is an undo log and two nested microtasks (`Begin`, `Complete`). `Effects` are the
kinds of write and read; a put or an add may also throw, by JSON of the value or by
SQLite, and has logged its undo by then (`Thrown`). SQLite's errors at reads, deletes, clears
and in undoing are told to nobody (`indexeddb.cpp:258-329`), and are assumed away.
`Reject` is the second half of a failed request, after its
'error' listeners, and takes the transaction with it. The program (`Program`) may
do any of it between two microtasks, `rejecting` included. A cursor (`IdbCursor`) is
found, sorted and thinned at its opening, and is a place in that list afterwards;
`found` and `told` keep what there was and what was shown. `advance` takes any positive
number: by 1.5 the cursor comes to stand between two items, where its microtask throws
and the request stays pending (`astray`); past the end it shows null as it should.

## The runs

All of the runs pass, and all use the module's specification with its fairness.

| Run | Instance | Properties |
|---|---|---|
| `ring` | ring of 3 slots, 5 pushes | `InOrder`: events whole, once, in order. `DropsReported`: no silent loss. `NoSleepOnEvents`: no lost wake. `LossyQueueSpec`: refinement |
| `wake` | 1 waiter, 3 wakers, all pipe outcomes | `NoLostWake`. `WakeAnswered`: no timeout is needed |
| `fswatch` | 2 watchers, room for 1, 2 events and 1 error thrown each | `EventsAccounted`: across watchers, closes and revocations, each event is told, pending, queued or dropped, in order. `CloseEndsTheEvents`, though listeners throw. `RevocationCloses` |
| `childpipe` | buffer 2, pipe 1, 4 bytes, one stream writing | `EveryByteBeforeClose`, or but a buffer and a pipe of them. `FullReaderResumes`: backpressure is released. `TeardownEnds`, unless a reader missed the notify |
| `netsocket` | 2 sockets of any kinds, 2 reads a tick, 1 byte out, 1 chunk in | `LegalHistory`. `GracefulClose`: nothing lost before a clean close. `CloseIsTold` |
| `fsasync` | 2 JS threads, 2 pool threads, 2 calls, 1 write | `OwnResult`. `Durable`: fsync. `AllSettled` |
| `pipeto` | 2 chunks, no `prevent*` option or all | `InOrder`: through two queues, pending reads and reactions. `FulfilledIsComplete`: no chunk is left anywhere, unless the error was undefined. `PipeSettles`: no pull lost to one in flight |
| `body` | 2 chunks, 3 objects, 3 pumps | `WholeBody`: who reads to the end has it all, whatever the other branches do. `BodiesSettle` |
| `web` | 2 requests, 4 units, 2 sends, 4 calls | `WaitersAreServed`: no reader waits for nothing. `WholeOrError`. `OneOutcome` of a send. `OneLifeline` of an EventSource. `EventsOnce`, across reconnections. `AllSettle`: of every transfer that ends |
| `websocket` | 1 message up, 2 down, 3 foreign frames | `ClosedForGood`: nothing after 'close', 'open' included. `NothingLost`. `CloseFrameLast`. `ClosesSettle` |
| `http` | 2 requests, 2 pieces of a body | `RequestsTold`: end or aborted, never both. `ResponsesMatch`. `CutIsTold`. `AnswersArrive` |
| `idb` | 2 rows, 2 values, 2 transactions, 1 cursor, 4 calls | `Atomic`: undo, of puts that throw too. `CompleteIsLast`. `CursorWalks`, unless astray |

**Bounds, and why they are enough.** A ring of three slots holds two events, so
it is empty, half full, full and wrapped in every alignment of head and tail;
five pushes wrap it and overflow it twice. With three wakers, several
can be past the flag and late with their byte at once, which is how the pipe
comes to hold more than one. Two watchers are needed for a listener of one to close
the other; one place each makes every second event a drop. Four bytes through a buffer
of two, a reader's hand and a pipe of one fill all of them and leave the writer blocked.
One error thrown by each watcher's listeners is enough to come before, inside or after
its 'close'. Two sockets allow a listener
with its connection, and a socket destroyed by the listener of the other; two reads a
tick allow data and FIN in one tick. Two jobs, of one JS thread or of two, on two pool
threads end in either order and meet a thread that sleeps, works or reports; three
jobs (without `AllSettled`) were checked and agree. Two chunks let one wait
in either stream's queue while the other is read or written; each `prevent*` option
guards an exit of its own, so none and all of them show both sides of each. Larger
instances of `fswatch` (room 2, 3 events) were checked and agree.

Three objects and three pumps are a body, a clone and a clone of the clone, the
smallest tree where a branch of one `tee` is the source of another. Two requests let a
request end while another's reader waits, a send be aborted by `open` and followed by
another, and an EventSource reconnect once; four units are two events, which chunks of
up to three units cut in every place. The sizes of chunks make a difference to the
EventSource only, so the others get chunks of one unit. Four calls reach `open`,
`send`, and two more inside the handlers of those. Two messages down and one up cross
each other and the close in both directions; three foreign frames are the upgrade, and
then any two, a fragment and its continuation or a bad frame and what follows it. Two
pipelined requests are what it takes to answer out of turn; two pieces make a chunked
body differ from one with a length. Two transactions write
the same two rows; two equal values give the index two rows under one key.

**Fairness, and why the code justifies it.** A thread inside a function goes on:
weak fairness of the steps inside `pushEvent`, `drain`, `wakeNetWait`,
`pipeReader`, `Pool::loop` and the ticks. The host goes back to its wait, or ticks again, after
a tick: that is what an embedder must do (`api.h:156-163`), and the test host
does (`tests/main.cpp`). Listeners return. Microtasks run until none is left;
the promises that a source's and a sink's callbacks return settle, and a source
that is pulled enqueues, closes or errs: the streams cannot do without either.
The protocols say it as recurrence instead of `WF`, where `ENABLED` of a
tick would cost TLC too much: `Web` that the microtasks run out (`[]<>Quiet`) and that
ticks leave no local response parked (of a transfer nothing is assumed: `AllSettle`
speaks of those that end); `WebSocketLink` and `Http` that each
thread is found again and again with nothing left to read or tell, in `WebSocketLink`
with its connect and its close timer run out. `Body` has `[]<>Task`, which is the end of
the microtasks, and `WF` of the source's answer. `IndexedDb` has no fairness, since
nothing is claimed to happen. Nothing else is assumed: no fairness of timeouts, of
sockets, children, peers or pushes, so a wake that needed a timeout to be noticed would
be a violation. `RevocationCloses` names its exception: a revocation wakes nobody,
and is noticed when the wait ends by itself, which `waitForNetEvents` guarantees by
its timeout.

**Deadlock** is checked in `ring`, `wake`, `fswatch` and `web`. It is off where the
system may stop: a closed child (`childpipe`), all ids handed out and closed
(`netsocket`), pool threads with nothing left (`fsasync`), a settled pipe or body
(`pipeto`, `body`), a connection that is over (`websocket`, `http`), a program
that has made its calls (`idb`).

## The proofs

TLC checks one instance; the theorems hold for every ring length, number of
events, set of wakers, threads and calls.

| Module | Theorem | Says |
|---|---|---|
| `FileWatching_proof` | `TypeCorrect` | `TypeOK` |
| | `DeliveredInOrder` | `InOrder` |
| | `LossesReported` | `DropsReported` |
| | `NoLostWakeup` | `NoSleepOnEvents` |
| | `ImplementsLossyQueue` | `RingSpec =>` `LossyQueue`'s specification |
| | `NoEventAfterClose` | `CloseEndsTheEvents` |
| | `NoEventGoesAstray` | `EventsAccounted` |
| `Threads_proof` | `WaitTypeCorrect` | `WaitTypeOK` |
| | `SingleWaiterNeverSleepsOnAWake` | `NoLostWake`, if there is at most one waiter |
| | `ResultsReachTheirCalls` | `OwnResult`, ids of ended threads being reused or not |
| | `FsyncIsDurable` | `Durable` |
| | `PipeTypeCorrect` | `TypeOK` of `ChildPipe` |
| | `BufferNeverOverflows` | no buffer passes its high-water mark |
| | `EveryByteDelivered` | `EveryByteBeforeClose`, however long exit listeners take |
| `NetSocket_proof` | `HistoriesAreLegal` | `LegalHistory` |
| | `ClosesAreGraceful` | `GracefulClose` |
| `PipeTo_proof` | `ChunksInOrder` | `InOrder` |
| | `FulfilledPipesAreComplete` | `FulfilledIsComplete` |
| `IndexedDb_proof` | `CompleteIsTheLastEvent` | `CompleteIsLast` |
| | `AbortRestores` | `Atomic` |
| | `CursorsWalk` | `CursorWalks` |
| `WebSocketLink_proof` | `CloseIsLast` | `ClosedForGood` |
| | `OneCloseFrameEach` | `CloseFrameLast` |
| | `MessagesArriveWhole` | `NothingLost` |
| `Web_proof` | `InvAlways` | `IInv`, the invariant described below |
| | `WaitersAlwaysServed` | `WaitersAreServed` |
| | `AlwaysOneOutcome` | `OneOutcome` |
| | `AlwaysOneLifeline` | `OneLifeline` |
| | `EventsAlwaysOnce` | `EventsOnce` |

Assumptions: those of the modules, that is sizes are naturals and the ones that must
hold something are not zero (`Capacity >= 2`: the code's `kCap` is 1024, and a ring of one slot could hold nothing), keys a finite set of them, and `Web`'s table
no smaller than its number of sends (the code's ids do not run out); for `NoLostWake`, that two waiters are the same, without
which it fails, see [Disagreements](#disagreements-found).

*The ring.* `InOrder` is not inductive: it says nothing of what is still in the
ring. `OrderInv` adds it. Distances from `head` modulo the capacity (`Dist`)
order the slots; a slot is *live* if its distance is less than that of `tail`.
The invariant says: live slots that were not yet taken are whole
(`SlotsWhole`), carry serial numbers that increase with the distance
(`SlotsOrdered`), all older than the event being pushed (`SlotsOld`); what was
received is older than all of those (`ReceivedOld`, `ReceivedFirst`); the slot
under the producer's hand is not live and not the one before `head`
(`WriterInv`); and the consumer, if it is about to take, has something to take
(`ReaderInv`). The work is in `Advance` and `Publish`, where all distances move
at once; the lemmas about `Dist` and `Succ` carry the modular arithmetic.
`DropsReported` needs only that no drop lies in the future of `received`
(`LossesPast`); `NoSleepOnEvents` is inductive with the types. The
refinement maps `queue` to the live slots in order: `Publish` is `Put`, `Take` is
`Get`, `MarkOverflow` is `Drop`, `ExchangeOverflow` with the flag up is `Report`,
and every other step leaves the mapped variables alone.

*The wait.* `WakeInv` strengthens `NoLostWake` by the path of a wake: one that is
owed has the flag up until the waiter lowers it (`Raised`); past the waiter's look
at the flag, a flag that is up has a byte in the pipe or a waker about to write
one (`Backed`); and a waiter selects on the pipe only if it was made (`Watching`).
With two waiters `Raised` fails, since the other may have lowered the flag.

*The results.* `OwnResult` needs to know where results wait: `OwnInv` says that
threads that were started have ids (`Named`), those that run different ones
(`Distinct`), that every queued or running job is of a thread that
has one, and that every completed job is on the list of its thread's id (`Owned`). Then
all that a tick takes is the thread's own or of an ended thread that had its id, and the
number picks the call or its namesake.

*fsync.* `DurableInv` has the jobs' types, that only submitted jobs are anywhere
(`AllKnown`), that the disk has no more than the operating system and that no more
than what was written (`Sound`), and for each fsync that has been done, or has been
reported and not yet taken, that its bytes are where they are due (`Due`). Bytes only
move on, and a loss or a missing name stays (`Grows`), so what a job found when it ran
still holds when its promise is settled, however many writes come in between.

*The child.* Bytes are conserved: what was written is in the pipe, in a reader's
hand, in the buffer, or told (`Conserved`), and what is in hand fits (`Room`). The rest
says what each party knows of the others: a reader that waits is one whose buffer was
full (`Parked`), one that has ended saw the end of the pipe (`Ended`), the poll that
decides to close has either seen both ends drained or has waited out the grace in quiet,
and then no byte is left that will be told (`Drained`). The grace may also have passed in
`exit` listeners: if that poll took bytes, the clock starts again, and if not, what is
lost is what the buffer, the hand and the pipe held, which the second half of
`EveryByteBeforeClose` bounds.

*The watcher.* `CloseEndsTheEvents` is about histories, `History(w)` about who may still add
to one: a watcher that has told 'close' has no handle, is not registered, and no event
of it is in the list that the tick is working through. `EventsAccounted` is about sets,
of events told, held by the tick, queued and dropped. It is nearly inductive:
`AccountInv` adds that these are numbers given out, that a watcher which runs is
registered, and that one which was not opened has seen nothing.

*The socket.* What a wrapper was told and what its handle's queue still holds are one
sequence, which the drain only cuts elsewhere. `SocketInv` says of that sequence, and
not of its first half, that it is legal, and of the handle's flags what may still be
appended (`Linked`): nothing once closed, no data after `peerEof`, only a connection's
outcome while `connecting`. Each operation on a handle then needs a lemma of its own,
whatever the tick, the drain and the listeners do around it. `GracefulClose` asks the
same sequence for more (`Clean`): its chunks were received and each is there once, a FIN
was sent with nothing left to write, the peer's end is in it if it has come, and a
'close' without an error is in it only after both, unless the program destroyed the
socket.

*The transaction.* The code keeps no list of a transaction's requests; it is the order
of the microtasks that makes 'complete' the last. `CompletionInv` says so of the queue:
the microtask that completes a transaction is behind those of all its early requests
(`Ordered`), every request without an outcome has one (`Awaited`), and a request that
failed has taken its transaction with it, or is about to (`Outcomes`). What else happens
to a transaction only moves it on (`Later`), and the invariant allows for that at once.
Rows and cursors' items have no types in it.

*The undo log.* `AtomicInv` says that undoing the log of a transaction that is alone and
not over would give the rows it found. So a write must be shown to log what undoes it
(`Undoable`), and a roll-back to compute what the log says. `Undone` is a fold, which
the library defines as a function chosen by its equation; that there is one
(`FoldExists`), and what it gives (`UndoneRows`: each row is as in the first entry of the
log that has it), goes by induction. The library's induction theorems cannot be
instantiated, see below, but the induction can be made by hand: of the numbers for which
a claim fails there would be a least one (`LeastNat`, `UpTo`).

*The cursor.* `IsNext` speaks of sets, the code of a place in a sorted list. `Walking`
joins the two: a cursor's items are those there are to show, each once, in its direction
(`InOrder`), it has shown what it should have, and what it showed last is where it
stands. That sorting gives such a list follows by counting: in a finite total order, how
many come before an item is injective into `0 .. n - 1`, so it is onto (`Ranked`). Thinning
out is sorting the places where a key begins (`UniqueItems`). Then `by` places further
on in the list, or the first of those that `continue(key)` stops at, is what follows in
the order (`FollowsBy`, `FollowsFirst`). `Showing` is about the queue: a cursor is shown
first once, before anything moves it, and is moved by what the program may ask for.
`RowsInv` gives the rows, those in undo logs too, a type, without which keys have no order.

*The pipe.* Chunks are numbered as the source makes them, so `InOrder` is that both
histories count, `delivered` not further than `accepted`. `PipeInv` says where the rest
are. A running pipe waits for one thing at a time (`Running`): a read, its reaction, a
write, or that one's reaction; each fixes what is in hand and what the source still
queues. The write under way and the sink's queue continue what was delivered (`Sink`).
`FulfilledIsComplete` is about the exits: the pipe closes its destination only from
the end of the stream, with everything delivered (`Fits`).

*The WebSocket.* An event's place in a history says nothing of the bytes still under
way, so the invariant (`Holds`) follows the two streams. Between two ends of this library
all that an end ever writes is known from its opening and what it sent: `UnitOf` gives
the k-th unit. `Up` says that what the server has not parsed, in its header or frame buffer,
in a queued 'data' event or in the socket (`Upstream`), goes on where it is (`UpRead`),
and `Down` the same of the wire, the client's half frame and its inbox; so who has parsed
a close frame has parsed every message before it. Against a program that writes any
frames there is no such stream, and `ServerOrder` (with `EventsOrdered` of the socket's
queue: 'data' only first, 'close' only last), `ClientOrder` and `OneCloseFrame`
hold alone. The proof takes each operator on a conversation by itself, whatever action
it is part of: what it does to a side's order, to the socket, to either stream.

*fetch and the objects on it.* `WaitersAreServed` speaks of a callback left in a table
entry, while who waits is told by a stream's pending read or a microtask. `FetchInv`
says how these fit, request by request (`Core`): an entry is in the pending list as long
as it has its transfer (`ReqAt`), one that is gone has its promise settled (`GoneAt`), a
readable body has an entry, and its pull is under way exactly while a callback is left
or the reaction to it is queued (`PullAt`), and each microtask agrees with the request's
end (`JobAt`). Between ticks, besides, no callback is left where there is something to
read (`Calm`); inside one that does not hold, so each operation of fetch is proved from
what holds there (`Ready`, `Asks`, `Due`). The tick works through lists in five folds;
`Chain` gives a fold its intermediate states, and each phase is an induction on them:
a callback may erase an entry that a later phase, or the same one, has yet to visit.
`EsInv` says that at most one request is waited for, or read, by the EventSource, and
that its timer runs if and only if neither is (`Lifeline`), and that a reconnection
resumes after what was dispatched (`Resumes`). `XhrInv` is what fetch needs of an
XMLHttpRequest: what is left on its stack calls `fetch` once for a send, and takes a body
once, of a response that nobody reads (`ScriptOk`). `Tale` adds what `OneOutcome` needs:
for every send the events it has had and those on the stack make one sequence without a
gap (`InTurn`, `Rising`); the object's `seq` is that of the send in flight, and of what
was aborted it is past (`Dated`), so an answer, a timer or a rejection that finds its own
`seq` there finds a send that has had nothing but its loadstart (`CurrentFlies`), or, until
the first step of the stack is taken, not even that (`Fresh`); and a load
stands for a request that came to an end of its own (`MayLoad`), which no later step of
fetch takes back. `IInv` is `FetchInv` with the one of these that fits the program.

Only model-checked: every liveness property (the prover does not do fairness); the
safety of `Body` and `Http`; of `Web`, `WholeOrError`, whose proof would count bytes
through every place where `FetchInv` only says that there are some; that `NetSocket`
implements `TcpLink` is neither checked nor proved, and what is proved of
`WebSocketLink` is over a link as `TcpLink` describes it. The library's induction
theorems take an operator as a parameter, which no installed prover can instantiate;
where induction was needed it was made by a least counterexample, as above. Three definitions are written for the prover's sake: `Listed`,
`Entry` and `Enter`, in place of `SetToSortSeq`, `:>` and `@@`, whose definitions it
cannot expand.

## Disagreements found

Met while modelling. The first list says how to see each in the model; in the second are
those that the models contain as the code has them, and that the properties above
do not deny.

- **Teardown of a child** (`child_process_internal.h:81`): `stopReaders` stores
  `closing` and notifies without holding the buffers' mutex. A reader that has
  just found its buffer full, and has not yet blocked, misses the notify; the
  join never returns and the JS thread hangs. The comment at 77-79 promises
  deterministic teardown. *Shown by* `TeardownEnds` without its exception `MissedNotify`.
- **The tail of a child's output** (`child_process.js:464`): end-of-file flags and
  grace clock are judged after the `exit` listeners ran. If those ran longer than the
  grace period, the tail that the readers buffered meanwhile is dropped before `close`.
  The comment at 255-257 promises every byte. *Shown by* `EveryByteBeforeClose`
  without its exception `outlasted`, and the bound on what is lost.
- **A reply after FIN** (`net.cpp:751`): a request and the FIN that follows it, read in
  one tick, close the socket before the `data` listener runs, and its answer is
  refused. `net.js:7-10` says that writes always succeed and that a FIN ends the
  write side once pending data is flushed. Peers that end only their side after
  a request (as `nc` does) lose the response, depending on timing. *Shown by* `ReplyTaken`
  of `NetSocket` with `MaxHandles = 1`.
- **Thread ids** (`fs_async.cpp:323`): completion lists are found by
  `std::thread::id`, outlive their thread, and every thread numbers its jobs from
  1. A worker's thread that gets the id of one that ended with a call in flight
  settles its own first promise with that call's result; the comment at 4-7 says
  that a result waits for the thread that called. *Shown by* `OwnResult`
  without its exception `Namesake`.
- **Two waiters** (`net_wait.cpp:156`): the pipe and the flag are the process's,
  the sockets are the thread's. Of two JS threads in the wait, one takes the wake
  of both (`api.h:158-160`). *Shown by* `WakesEveryWaiter` with two `Waiters`. A wake that
  races the end of `select` is cleared by a call that returns false
  (`net_wait.cpp:157`), which does no harm to a host that ticks in any case.
- **Orphaned WebSockets** (`websocket.cpp:531`, `websocket.js:163`): closed by its
  program between the opening and the reaction of its promise, with messages queued, a
  connection is never swept. *Shown by* `OrphansReaped` of `WebSocketLink`.

*fetch and the objects on it*

- A transfer that fails after the headers ends the body like a complete one
  (`fetch.cpp:449-472`); `abort()` after completion is no no-op, as
  `test_fetch_abort.js` has it, but drops the chunks not yet read (`fetch.cpp:301`).
- A reader that takes the end inside the callback of phase 3 leaves the stream's entry in
  the table (`fetch.cpp:229`, 474-486).
- `fetch(new Request(url, {signal}))` drops the signal (`fetch_classes.js:571-588`).
- A body that stalls is waited for without end: `fetch.cpp:579` sets a limit for the
  connect only.
- XMLHttpRequest: a handler that throws an AbortError in a reaction leaves the send in
  flight without an event (`xhr.js:388`); `xhr.js:347-356` against the comment at 135-138; a handler that throws
  at 'loadstart' leaves the send flag set, and the object unusable until `open()`.
- EventSource: a response that is not ok is never aborted; `_processChunk` (158) is not
  defined, and its failure is what reconnects at the end of a body; events after a
  `close()` in the same chunk are still dispatched; only `\n\n` ends an event.
- `tee()` handles no rejection (`readable_stream.js:269`): clones of a body whose source
  fails never settle. `text()` on a locked body throws, and leaves the body marked used.

*WebSocket*

- A connect that fails or is revoked tells 'error' and 'close' twice; `close()` while
  connecting tells no 'close'. Messages may be told before 'open', and a connection may
  close without one.
- The client reports a clean close with 1000 when it had called `close()` and the
  connection was then cut; a close that the server starts never looks clean to it.
- `websocket_server.js:246-258`, "drop the TCP immediately": `_fail` calls `end()`,
  which waits for the peer, and the bad frame stays in the buffer, so the next chunk
  fails on it again and is reported again, and frames after a message that is not UTF-8
  are still delivered. A peer that never closes its side leaves the server in CLOSING, and
  so does `close()` in the 'error' of a bad close frame: it ends the socket, as for a
  close that is answered, and arms no timer (240-244).
- After a 400 a later, valid handshake still makes a 'connection'; connections without
  a handshake survive `close()` of the server. The client answers a ping after its own
  close frame. A partial send (`websocket.cpp:206`) leaves half a frame on the wire.

*HTTP*

- Pipelined requests are answered in the order of the answers; the 400 of a parse error
  goes into whatever response is open; a parse error is followed by 'end' as well.
- A server that closes before any response leaves a ClientRequest without response and
  without error; a 1xx is taken for the response; a body for a 204 is written without
  framing. Sockets waiting to be accepted survive `server.close()`.

*IndexedDB*

- Transactions are not isolated: the undo log of one that aborts writes over what another
  has committed. `abort()` after 'complete' rolls back. "readonly" ones write, and log nothing.
- A request made in a listener settles after 'complete', and a failing one does not abort
  any more.
- The version is stored before 'upgradeneeded': if its listener throws, or the process
  dies, the database is never upgraded. A lower version opens. Key paths and index
  definitions are not stored.
- `advance(1.5)` passes its check (`indexeddb.js:113`); the request never settles if the
  cursor comes to stand between two items.
- "prevunique" shows the last row of each key instead of the first; natively keys are
  compared as strings.

## What is not modelled

See the `note` of each component in `PROJECT.json`. In short: the platform loops
of fs.watch, because they are straight translations of kernel interfaces whose
behaviour would have to be guessed; pure functions of their arguments (paths,
URLs, encodings, hashes, images, ciphers), which unit tests reach well; synchronous
calls to the operating system, which keep no state; libraries (SQLite, curl, llhttp, the
JavaScript engine) but for what their callbacks do; sequential components with a
handful of states (timers, storage, event emitters); and below each module, what its
section says.

Hazards of this code that no module reaches:

- a `Socket` connected again before it was told of its close (`net.js:121`): the old
  handle's close resets the new id;
- a watched root that is deleted (`fs_watch_linux.cpp:127`): the thread ends, or not;
- `kill` after the child was reaped (`child_process_spawn.cpp:675`);
- `exec` with an input larger than two pipes hold (`child_process.cpp:455`): all of it is
  written before any output is read;
- an interval of 0 ms (`timers.js:69`), due again in the tick that runs it;
- a crash in the truncating rewrite of storage (`storage.cpp:84`).

## Plan

What there is was written in this order, by importance: the seams between threads
(`LossyQueue`, `FsEventRing`, `NetWait`, `FsWatch`, `ChildPipe`, `NetSocket`, `FsAsync`),
the streams (`ReadableStream`, `WritableStream`, `PipeTo`), what is built on them and on
fetch (`Fetch`, `Xhr`, `EventSource`, `Web`, `Body`), the protocols over a connection
(`TcpLink`, `WebSocketLink`, `Http`), and IndexedDB. What could follow:

| | Module | Checks | To prove |
|---|---|---|---|
| 1 | `Web`, `Http` | | `WholeOrError`; `RequestsTold`, over a connection's tokens as one stream, as for `WebSocketLink` |
| 2 | `TcpLink` | that `NetSocket` implements it | each step maps to a step of `TcpLink` or a stutter |
| 3 | `Body` | abstract specification: a stream as a sequence with one end | `WholeBody`, over a tree of branches |
| 4 | `ExecPipes`, extension of `ChildPipe` by kill and stdin | no deadlock with a large input; no signal to a reaped child | |
| 5 | `Timers` | due order, limit, callbacks that set and clear; starvation | a cleared timer never fires |
| 6 | `Storage` | a crash between any two steps leaves the old or the new store | |
| 7 | `MessagePorts` | start, post, close | |

## Running it

In this directory:

    tlc -workers 2 -config ring.cfg FsEventRingMC
    tlapm FileWatching_proof.tla

(a few minutes at most for a proof, a quarter of an hour for `WebSocketLink_proof`,
twenty minutes each for `Fetch_proof` and `Web_proof`).

`PROJECT.json` lists every run with its module and configuration (`ring.cfg` goes with
`FsEventRingMC`, `wake.cfg` with `NetWaitMC`, `idb.cfg` with `IndexedDbMC`, the others
with the module of their name),
the mutant for each property, and the lines of source each definition stands for.
