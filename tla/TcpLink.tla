-------------------------------- MODULE TcpLink --------------------------------
(***************************************************************************)
(* One TCP connection, each end as a Socket of net.js over its handle in   *)
(* net.cpp shows it to its listeners.  NetSocket models the handle, its    *)
(* buffers and its tick; this is what the protocols above it have to deal  *)
(* with, as operators from a link to the next one.                         *)
(*                                                                         *)
(* A tick reads what has come, up to the end of the stream, before any     *)
(* listener runs: the end of the peer's stream ends this one too (sockets  *)
(* are never half open), and closes the handle, before the data that came  *)
(* with it has been seen.  What is written is sent at once.                *)
(***************************************************************************)
EXTENDS Naturals, SequencesExt

Sides == {"client", "server"}
Peer(s) == IF s = "client" THEN "server" ELSE "client"

\* One end: `in` was sent to it and not read; `fin`, the peer has shut its side;
\* `rst`, the connection was reset; `events`, queued for the Socket's listeners.
Endpoint == [in |-> <<>>, fin |-> FALSE, rst |-> FALSE, ended |-> FALSE,
             peerEof |-> FALSE, closed |-> FALSE, events |-> <<>>]

NewLink == [s \in Sides |-> Endpoint]

SocketEvent(type) == [type |-> type, data |-> <<>>]

QueueEvent(net, s, type) == [net EXCEPT ![s].events = Append(@, SocketEvent(type))]

\* The peer's kernel answers what comes for a closed socket with a reset.
Reaches(net, s, bytes) ==
  IF net[Peer(s)].closed THEN [net EXCEPT ![s].rst = TRUE]
  ELSE [net EXCEPT ![Peer(s)].in = @ \o bytes]

\* write(): refused once this side has ended.
Writable(net, s) == ~net[s].closed /\ ~net[s].ended

SocketWrite(net, s, bytes) ==
  IF Writable(net, s) THEN Reaches(net, s, bytes) ELSE net

\* The handle is closed, which shuts its side; a reset if it left bytes unread.
CloseHandle(net, s) ==
  LET shut == [net EXCEPT ![s].closed = TRUE, ![s].in = <<>>, ![Peer(s)].fin = TRUE]
  IN  IF net[s].in = <<>> THEN shut ELSE [shut EXCEPT ![Peer(s)].rst = TRUE]

\* destroy(): closed, whatever the state; the events queued before are still told.
SocketDestroy(net, s) ==
  IF net[s].closed THEN net ELSE QueueEvent(CloseHandle(net, s), s, "close")

\* Both sides have ended: the connection is over.
Over(net, s) == IF net[s].peerEof THEN SocketDestroy(net, s) ELSE net

\* end().
SocketEnd(net, s) ==
  IF net[s].closed THEN net
  ELSE Over([net EXCEPT ![s].ended = TRUE, ![Peer(s)].fin = TRUE], s)

\* Fails with an error: 'error', then 'close'.
SocketFails(net, s) ==
  IF net[s].closed THEN net
  ELSE QueueEvent(QueueEvent(CloseHandle(net, s), s, "error"), s, "close")

\* The peer has shut its side: 'end', and this side ends as well.
ReadEof(net, s) ==
  SocketEnd(QueueEvent([net EXCEPT ![s].peerEof = TRUE], s, "end"), s)

\* One tick of the handle reads n bytes, and what there is to find after them.
ReadBytes(net, s, n) ==
  [net EXCEPT ![s].in = SubSeq(@, n + 1, Len(@)),
              ![s].events = Append(@, [type |-> "data", data |-> SubSeq(net[s].in, 1, n)])]

CanRead(net, s) == ~net[s].closed /\ net[s].events = <<>>

\* Mutant: the end of the stream is found before what came ahead of it.
TickedEndFirst(net, s) ==
  {ReadBytes(net, s, n) : n \in 1 .. Len(net[s].in)}
    \union (IF net[s].fin /\ ~net[s].peerEof THEN {ReadEof(net, s)} ELSE {})
    \union (IF net[s].rst THEN {SocketFails(net, s)} ELSE {})

Ticked(net, s) ==
  LET all == IF net[s].in = <<>> THEN net ELSE ReadBytes(net, s, Len(net[s].in))
  IN  {ReadBytes(net, s, n) : n \in 1 .. Len(net[s].in)}
      \union (IF net[s].fin /\ ~net[s].peerEof THEN {ReadEof(all, s)} ELSE {})
      \union (IF net[s].rst THEN {SocketFails(net, s), SocketFails(all, s)} ELSE {})

\* The drain takes the oldest event.
TakeEvent(net, s) == [net EXCEPT ![s].events = Tail(@)]

===============================================================================
