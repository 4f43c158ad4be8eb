------------------------------ MODULE NetSocket -------------------------------
(***************************************************************************)
(* Raw sockets (src/src/api/net.cpp, src/src/api/js/net.js,                *)
(* src/src/api/js/dgram.js): a table of native handles, each with a queue  *)
(* of events; a tick that pumps every handle, lets JavaScript drain the    *)
(* queues through its registered wrappers, and sweeps closed handles; and  *)
(* the program, which opens, writes, ends and destroys between ticks and   *)
(* inside the listeners a drain calls.                                     *)
(*                                                                         *)
(* Everything here runs on one JS thread.  The kernel, the peers and the   *)
(* host's access gate are the environment: what a call of theirs answers   *)
(* is a choice, so a peer acts when recv() finds it has.  Bytes to send    *)
(* are counted; a chunk or datagram received is its serial number.         *)
(***************************************************************************)
EXTENDS Naturals, Sequences, FiniteSetsExt, SequencesExt

CONSTANTS MaxHandles,  \* bound: ids handed out
          None,        \* no id
          MaxReads,    \* accepts, reads or datagrams of one handle in a tick
          MaxChunks,   \* bound: chunks a peer sends
          MaxWrites    \* bound: bytes the program writes on a connection

Handles == 1 .. MaxHandles

ASSUME BoundsAssumption == /\ {MaxHandles, MaxReads} \subseteq Nat \ {0}
                           /\ {MaxChunks, MaxWrites} \subseteq Nat
                           /\ None \notin Handles

VARIABLES nextId,      \* g_nextId
          live,        \* the keys of g_handles
          handle,      \* the NetHandle of each
          drains,      \* _drains: the ids a JavaScript wrapper is registered for
          told,        \* history: the events each wrapper was given
          left,        \* history: the program went on with it, ended or destroyed it
          pc,          \* where the JS thread is in js_net_tick
          handling,    \* it is in a listener, called from the drain
          todo,        \* ids of the snapshot the pump has yet to visit
          accepted,    \* ids accepted since, that it visits last
          cur,         \* the handle it is at
          reads,       \* accepts or reads it made there
          keys,        \* ids the drain has yet to visit in this pass
          pass,        \* the drain's pass
          drainedAny   \* the pass delivered something

tickVars == <<pc, handling, todo, accepted, cur, reads, keys, pass, drainedAny>>
vars == <<nextId, live, handle, drains, told, left, tickVars>>

Event(type, n) == [type |-> type, n |-> n]
Accept(c) == Event("accept", c)
Data(k) == Event("data", k)
Connect == Event("connect", 0)
End == Event("end", 0)
Error == Event("error", 0)
Close == Event("close", 0)
CloseWithError == Event("close", 1)

\* A handle as `new NetHandle()` makes it; sent and got count for the properties.
New(kind, held) ==
  [kind |-> kind, held |-> held, connecting |-> FALSE, peerEof |-> FALSE,
   endRequested |-> FALSE, wroteShutdown |-> FALSE, closed |-> FALSE,
   outBuf |-> 0, sent |-> 0, got |-> 0, events |-> <<>>, closedSweeps |-> 0]

Opened == 1 .. nextId - 1
Kind(k) == {i \in Opened : handle[i].kind = k}

Init == /\ nextId = 1
        /\ live = {}
        /\ handle = [i \in Handles |-> New("none", FALSE)]
        /\ drains = {}
        /\ told = [i \in Handles |-> <<>>]
        /\ left = [i \in Handles |-> "no"]
        /\ pc = "idle"
        /\ handling = FALSE
        /\ todo = {}
        /\ accepted = <<>>
        /\ cur = None
        /\ reads = 0
        /\ keys = {}
        /\ pass = 1
        /\ drainedAny = FALSE

-------------------------------------------------------------------------------
(* What the helpers of net.cpp make of a handle.                            *)

Queue(h, event) == [h EXCEPT !.events = Append(@, event)]

HardClosed(h) == [h EXCEPT !.closed = TRUE, !.held = FALSE]

\* hardClose, then queueClose without an error.
Closed(h) == Queue(HardClosed(h), Close)

\* failHandle and revokeHandle; nothing for a handle already closed.
Failed(h) == IF h.closed THEN h
             ELSE Queue(HardClosed(Queue(h, Error)), CloseWithError)

\* The FIN goes out once nothing is left to send.
Shut(h) == [h EXCEPT !.wroteShutdown = @ \/ h.endRequested]

Sent(h, n) == [h EXCEPT !.outBuf = @ - n, !.sent = @ + n]

\* Mutant: the FIN goes out after a partial send too.
FlushedAndShut(h) == {Shut(Sent(h, n)) : n \in 0 .. h.outBuf}
                     \union {Failed(Sent(h, n)) : n \in 0 .. h.outBuf - 1}

\* flushOutBuf: all of it is sent, or some and then the socket blocks or fails.
Flushed(h) == {Shut(Sent(h, h.outBuf))}
              \union {Sent(h, n) : n \in 0 .. h.outBuf - 1}
              \union {Failed(Sent(h, n)) : n \in 0 .. h.outBuf - 1}

\* Both sides have ended: the connection is over.
Finished(h) == IF h.peerEof /\ h.wroteShutdown /\ ~h.closed THEN Closed(h) ELSE h

FlushedAndFinished(h) == {Finished(f) : f \in Flushed(h)}

Becomes(i, hs) == \E h \in hs : handle' = [handle EXCEPT ![i] = h]

-------------------------------------------------------------------------------
(* The program, between ticks and in listeners.                             *)

JsRuns == pc = "idle" \/ handling

\* The next id, its handle in one of the states hs, and its wrapper registered.
Open(hs) == /\ JsRuns
            /\ nextId \in Handles
            /\ nextId' = nextId + 1
            /\ live' = live \union {nextId}
            /\ drains' = drains \union {nextId}
            /\ Becomes(nextId, hs)
            /\ UNCHANGED <<told, left, tickVars>>

Listen == Open({New("listener", TRUE)})

\* The grant is held from bind() on.
UdpOpen == Open({New("udp", FALSE)})

\* connect() succeeds at once, is in progress, or fails at once.
TcpConnect == LET h == New("conn", TRUE)
              IN  Open({Queue(h, Connect), [h EXCEPT !.connecting = TRUE], Failed(h)})

\* An operation of a wrapper that has not seen its 'close', on a socket still open.
OnHandle(i) == /\ JsRuns
               /\ i \in drains
               /\ ~handle[i].closed
               /\ UNCHANGED <<nextId, live, drains, told, tickVars>>

UdpBind(i) == /\ i \in Kind("udp")
              /\ OnHandle(i)
              /\ handle' = [handle EXCEPT ![i].held = TRUE]
              /\ UNCHANGED left

\* A datagram that cannot be sent closes its socket.
UdpSendFails(i) == /\ i \in Kind("udp")
                   /\ OnHandle(i)
                   /\ handle' = [handle EXCEPT ![i] = Failed(@)]
                   /\ UNCHANGED left

\* write(): refused once the end was requested, by either side.
Write(i) == /\ i \in Kind("conn")
            /\ OnHandle(i)
            /\ ~handle[i].endRequested
            /\ handle[i].outBuf + handle[i].sent < MaxWrites
            /\ LET h == [handle[i] EXCEPT !.outBuf = @ + 1]
               IN  Becomes(i, IF h.connecting THEN {h} ELSE Flushed(h))
            /\ UNCHANGED left

\* end(): flushes, and closes if the peer has ended too.
EndWrites(i) == /\ i \in Kind("conn")
                /\ OnHandle(i)
                /\ LET h == [handle[i] EXCEPT !.endRequested = TRUE]
                   IN  Becomes(i, IF h.connecting THEN {h} ELSE FlushedAndFinished(h))
                /\ left' = [left EXCEPT ![i] = "ended"]

\* destroy() and close(): at once, whatever is left to send or to read.
Destroy(i) == /\ OnHandle(i)
              /\ handle' = [handle EXCEPT ![i] = Closed(@)]
              /\ left' = [left EXCEPT ![i] = "destroyed"]

\* The host takes a grant back.
Revoke(i) == /\ JsRuns
             /\ i \in live
             /\ handle[i].held
             /\ handle' = [handle EXCEPT ![i] = Failed(@)]
             /\ UNCHANGED <<nextId, live, drains, told, left, tickVars>>

Program == \/ Listen \/ UdpOpen \/ TcpConnect
           \/ \E i \in Opened : \/ UdpBind(i) \/ UdpSendFails(i) \/ Write(i)
                                \/ EndWrites(i) \/ Destroy(i) \/ Revoke(i)

-------------------------------------------------------------------------------
(* The tick: the pump.                                                      *)

native == <<drains, told, left, handling, keys, pass, drainedAny>>

\* Mutant: no tick once everything left is closed.
BeginTickWhenOpen == /\ pc = "idle"
                     /\ \E i \in live : ~handle[i].closed
                     /\ pc' = "pump"
                     /\ todo' = live
                     /\ UNCHANGED <<nextId, live, handle, accepted, cur, reads, native>>

BeginTick == /\ pc = "idle"
             /\ live # {}
             /\ pc' = "pump"
             /\ todo' = live
             /\ UNCHANGED <<nextId, live, handle, accepted, cur, reads, native>>

\* The next handle; nothing is done for a closed one.
Visit == /\ pc = "pump"
         /\ \E i \in IF todo # {} THEN todo ELSE Range(accepted) :
               /\ IF todo # {} THEN todo' = todo \ {i} /\ UNCHANGED accepted
                  ELSE i = Head(accepted) /\ accepted' = Tail(accepted) /\ UNCHANGED todo
               /\ IF handle[i].closed THEN UNCHANGED <<pc, cur>> ELSE pc' = "recv" /\ cur' = i
         /\ UNCHANGED <<nextId, live, handle, reads, native>>

VisitDone == pc' = "pump" /\ cur' = None /\ reads' = 0

\* A connection was waiting: it is pumped in this tick too.
AcceptOne == /\ pc = "recv"
             /\ handle[cur].kind = "listener"
             /\ reads < MaxReads
             /\ nextId \in Handles
             /\ nextId' = nextId + 1
             /\ live' = live \union {nextId}
             /\ accepted' = Append(accepted, nextId)
             /\ handle' = [handle EXCEPT ![nextId] = New("conn", handle[cur].held),
                                         ![cur] = Queue(@, Accept(nextId))]
             /\ reads' = reads + 1
             /\ UNCHANGED <<pc, todo, cur, native>>

\* No connection, no datagram, enough of them, or connect() still in progress.
NothingToDo == /\ pc = "recv"
               /\ handle[cur].kind # "conn" \/ handle[cur].connecting
               /\ VisitDone
               /\ UNCHANGED <<nextId, live, handle, todo, accepted, native>>

\* connect() has succeeded, and what was written meanwhile is sent; or has failed.
ConnectEnds == /\ pc = "recv"
               /\ handle[cur].connecting
               /\ Becomes(cur, {Failed(handle[cur])} \union
                               Flushed(Queue([handle[cur] EXCEPT !.connecting = FALSE], Connect)))
               /\ VisitDone
               /\ UNCHANGED <<nextId, live, todo, accepted, native>>

Reading == /\ pc = "recv"
           /\ handle[cur].kind \in {"conn", "udp"}
           /\ ~handle[cur].connecting
           /\ reads < MaxReads

\* A chunk, or a datagram.
RecvData == /\ Reading
            /\ handle[cur].got < MaxChunks
            /\ ~handle[cur].peerEof
            /\ reads' = reads + 1
            /\ LET got == handle[cur].got + 1
               IN  handle' = [handle EXCEPT ![cur] = Queue([@ EXCEPT !.got = got], Data(got))]
            /\ UNCHANGED <<nextId, live, pc, todo, accepted, cur, native>>

\* Mutant: every recv() that returns 0 queues an 'end'.
RecvEofAgain == /\ Reading
                /\ handle[cur].kind = "conn"
                /\ handle' = [handle EXCEPT ![cur] =
                                 Queue([@ EXCEPT !.peerEof = TRUE, !.endRequested = TRUE], End)]
                /\ pc' = "flush"
                /\ UNCHANGED <<nextId, live, todo, accepted, cur, reads, native>>

\* The peer's FIN, after its last chunk and ever after: this side is to end as well.
RecvEof == /\ Reading
           /\ handle[cur].kind = "conn"
           /\ handle' = [handle EXCEPT ![cur] =
                            IF @.peerEof THEN @
                            ELSE Queue([@ EXCEPT !.peerEof = TRUE, !.endRequested = TRUE], End)]
           /\ pc' = "flush"
           /\ UNCHANGED <<nextId, live, todo, accepted, cur, reads, native>>

\* A reset, or any other error of recv.
RecvFails == /\ Reading
             /\ handle' = [handle EXCEPT ![cur] = Failed(@)]
             /\ VisitDone
             /\ UNCHANGED <<nextId, live, todo, accepted, native>>

\* Nothing to read now, or enough for this tick.
RecvStops == /\ pc = "recv"
             /\ handle[cur].kind = "conn" /\ ~handle[cur].connecting
             /\ reads = MaxReads \/ ~handle[cur].peerEof
             /\ pc' = "flush"
             /\ UNCHANGED <<nextId, live, handle, todo, accepted, cur, reads, native>>

FlushOut == /\ pc = "flush"
            /\ Becomes(cur, FlushedAndFinished(handle[cur]))
            /\ VisitDone
            /\ UNCHANGED <<nextId, live, todo, accepted, native>>

Pump == \/ Visit \/ AcceptOne \/ NothingToDo \/ ConnectEnds
        \/ RecvData \/ RecvEof \/ RecvFails \/ RecvStops \/ FlushOut

-------------------------------------------------------------------------------
(* The tick: the drain, __brokit_net_drain_all, and the sweep.              *)

rest == <<nextId, left, todo, accepted, reads>>

BeginDrain == /\ pc = "pump"
              /\ todo = {} /\ accepted = <<>>
              /\ pc' = "drain"
              /\ keys' = drains
              /\ UNCHANGED <<live, handle, drains, told, handling, cur, pass, drainedAny, rest>>

NextKey == /\ pc = "drain" /\ ~handling
           /\ cur = None
           /\ keys # {}
           /\ cur' = Min(keys) \* Object.keys: in the order of the ids
           /\ keys' = keys \ {cur'}
           /\ UNCHANGED <<live, handle, drains, told, pc, handling, pass, drainedAny, rest>>

HasEvents(i) == i \in drains \intersect live /\ handle[i].events # <<>>

\* js_net_poll takes the oldest event, and the handle with its 'close'; the
\* wrapper attaches an accepted connection, or unregisters, and calls listeners.
DrainOne == /\ pc = "drain" /\ ~handling
            /\ cur # None /\ HasEvents(cur)
            /\ LET event == Head(handle[cur].events)
               IN  /\ told' = [told EXCEPT ![cur] = Append(@, event)]
                   /\ live' = IF event.type = "close" THEN live \ {cur} ELSE live
                   /\ drains' = IF event.type = "close" THEN drains \ {cur}
                                ELSE IF event.type = "accept" THEN drains \union {event.n}
                                ELSE drains
            /\ handle' = [handle EXCEPT ![cur].events = Tail(@)]
            /\ drainedAny' = TRUE
            /\ handling' = TRUE
            /\ UNCHANGED <<pc, keys, cur, pass, rest>>

ListenerReturns == /\ handling
                   /\ handling' = FALSE
                   /\ UNCHANGED <<live, handle, drains, told, pc, cur, keys, pass, drainedAny, rest>>

KeyDone == /\ pc = "drain" /\ ~handling
           /\ cur # None /\ ~HasEvents(cur)
           /\ cur' = None
           /\ UNCHANGED <<live, handle, drains, told, pc, handling, keys, pass, drainedAny, rest>>

\* A second pass, for the wrappers the first one registered, if it did anything.
PassDone == /\ pc = "drain" /\ ~handling
            /\ cur = None /\ keys = {}
            /\ IF pass = 1 /\ drainedAny
               THEN pass' = 2 /\ keys' = drains /\ UNCHANGED pc
               ELSE pass' = 1 /\ pc' = "sweep" /\ UNCHANGED keys
            /\ drainedAny' = FALSE
            /\ UNCHANGED <<live, handle, drains, told, handling, cur, rest>>

\* A handle found closed by two sweeps is deleted.
Sweep == /\ pc = "sweep"
         /\ LET closed == {i \in live : handle[i].closed}
                reaped == {i \in closed : handle[i].closedSweeps = 1}
            IN  /\ live' = live \ reaped
                /\ handle' = [i \in Handles |-> IF i \in closed \ reaped
                                                THEN [handle[i] EXCEPT !.closedSweeps = 1]
                                                ELSE handle[i]]
         /\ pc' = "idle"
         /\ UNCHANGED <<drains, told, handling, cur, keys, pass, drainedAny, rest>>

Drain == NextKey \/ DrainOne \/ ListenerReturns \/ KeyDone \/ PassDone

Tick == BeginTick \/ Pump \/ BeginDrain \/ Drain \/ Sweep

Next == Program \/ Tick

\* The host ticks again and again, and listeners return.  A blocked send may stay
\* blocked and a connect() in progress may never end.
Fairness == WF_vars(Tick)

Spec == Init /\ [][Next]_vars /\ Fairness

-------------------------------------------------------------------------------
(* Properties.                                                              *)

Closes == {Close, CloseWithError}

\* What a wrapper is told is a history of a socket: 'connect' first, the peer's
\* data whole and in order, 'end' after the last of it, an 'error' only before the
\* 'close' that reports it, and nothing after 'close'.
LegalHistory ==
  \A i \in Handles : LET s == told[i] IN
    \A j \in 1 .. Len(s) :
      /\ s[j] = Connect => j = 1
      /\ s[j].type = "data" => s[j].n = 1 \/ \E k \in 1 .. j - 1 : s[k] = Data(s[j].n - 1)
      /\ s[j] = End => \A k \in j + 1 .. Len(s) : s[k].type \in {"error", "close"}
      /\ s[j] = Error => \A k \in j + 1 .. Len(s) : s[k] = CloseWithError
      /\ s[j] = CloseWithError => j > 1 /\ s[j - 1] = Error
      /\ s[j] \in Closes => j = Len(s)

DataAt(i) == {j \in 1 .. Len(told[i]) : told[i][j].type = "data"}

\* Each chunk a socket received has been told, once.
AllTold(i) == /\ {told[i][j].n : j \in DataAt(i)} = 1 .. handle[i].got
              /\ \A j, k \in DataAt(i) : told[i][j].n = told[i][k].n => j = k

\* Until its wrapper is told of the close, no chunk a socket received is lost, and
\* none is told twice; and a connection that closes without an error, and that the
\* program did not destroy, has sent every byte write() took and told the peer's end.
GracefulClose ==
  \A i \in Opened : \A j \in 1 .. Len(told[i]) :
     /\ told[i][j] \in Closes => AllTold(i)
     /\ told[i][j] = Close /\ handle[i].kind = "conn" /\ left[i] # "destroyed"
          => handle[i].outBuf = 0 /\ \E k \in 1 .. j : told[i][k] = End

\* A handle that is closed, however and whenever, tells its wrapper.
CloseIsTold == \A i \in Handles : i \in drains /\ handle[i].closed ~> i \notin drains

\* net.js:7-8: write() "always 'succeeds' (returns true)", and a FIN from the peer ends
\* this side "once pending data flushes": the listener of a connection's 'data' can
\* answer, as long as the program has not ended its side and nothing has failed.
\* It cannot when one tick reads the data and the FIN: no run checks this, the README
\* says how to see it.
ReplyTaken == \A c \in Kind("conn") \intersect drains :
                 /\ handling /\ cur = c
                 /\ Last(told[c]).type = "data"
                 /\ left[c] = "no"
                 /\ ~Contains(handle[c].events, Error)
                 => ~handle[c].closed /\ ~handle[c].endRequested
===============================================================================
