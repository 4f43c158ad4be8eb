-------------------------------- MODULE WsClient -------------------------------
(***************************************************************************)
(* A WebSocket of the program (src/src/api/js/websocket.js) and the        *)
(* connection curl makes for it (websocket.cpp), as operators from the     *)
(* record w of the conversation to the next one.  They change w.cli and    *)
(* w.net.                                                                  *)
(*                                                                         *)
(* The state is kept twice: readyState in JavaScript, and the connection's *)
(* own.  A tick moves the second, and the first follows when the tick      *)
(* drains, or, for the opening, when the promise of connect() has its      *)
(* reaction: a microtask after the tick.                                   *)
(***************************************************************************)
EXTENDS WsServer

\* `native`: "connecting", "open", "closing", "closed", or "gone"; `id`: the
\* WebSocket still knows it; `pc`: where in a tick the thread is; `established`
\* and `sent` are history.
NewClientSocket ==
  [readyState |-> "connecting", id |-> TRUE, promise |-> "pending", told |-> <<>>,
   native |-> "connecting", inbox |-> <<>>, partial |-> <<>>, error |-> FALSE,
   code |-> "none", closedSweeps |-> 0, pc |-> "idle", established |-> FALSE, sent |-> <<>>]

TellClient(w, type, data) == [w EXCEPT !.cli.told = Append(@, ServerEvent(type, data))]

\* curl_easy_cleanup.
Cleanup(w) == IF w.net.client.closed THEN w ELSE [w EXCEPT !.net = CloseHandle(@, "client")]

Transmit(w, f) == IF w.net.client.closed THEN w
                  ELSE [w EXCEPT !.net = Reaches(@, "client", Units(f))]

-------------------------------------------------------------------------------
(* The WebSocket's operations. *)

\* new WebSocket(): curl connects and asks for the upgrade.
Connect(w) == Transmit([w EXCEPT !.cli = NewClientSocket], Frame("upgrade", 0, TRUE))

\* __brokit_ws_send: the connection may be closed already.
WsSend(w, piece) ==
  IF w.cli.native # "open" THEN w
  ELSE [Transmit(w, Frame("data", piece, TRUE)) EXCEPT !.cli.sent = Append(@, piece)]

ClientSend(w, piece) == IF w.cli.readyState # "open" THEN w ELSE WsSend(w, piece)

\* __brokit_ws_close: a connection still being made is dropped with its promise;
\* an open one sends its close frame, and waits for the peer's.
WsClose(w) ==
  CASE w.cli.native = "connecting" ->
         Cleanup([w EXCEPT !.cli.native = "gone", !.cli.promise = "dropped"])
    [] w.cli.native = "open" ->
         [Transmit(w, Frame("close", 0, TRUE)) EXCEPT !.cli.native = "closing", !.cli.code = "own"]
    [] OTHER -> w

\* close(): what it takes for still connecting is done with.
ClientClose(w) ==
  CASE w.cli.readyState = "connecting" ->
         [WsClose(w) EXCEPT !.cli.readyState = "closed", !.cli.id = FALSE]
    [] w.cli.readyState = "open" -> [WsClose(w) EXCEPT !.cli.readyState = "closing"]
    [] OTHER -> w

-------------------------------------------------------------------------------
(* The promise of connect(). *)

\* Mutant: the WebSocket opens in any state.
OpenedLate(w) == TellClient([w EXCEPT !.cli.readyState = "open"], "open", <<>>)

Opened(w) ==
  IF w.cli.readyState # "connecting" THEN w
  ELSE TellClient([w EXCEPT !.cli.readyState = "open"], "open", <<>>)

\* It is told whatever the drain has told already.
ConnectFailed(w) ==
  TellClient(TellClient([w EXCEPT !.cli.readyState = "closed"], "error", <<>>), "close", <<"none">>)

Reaction(w) ==
  LET done == [w EXCEPT !.cli.promise = "done"]
  IN  IF w.cli.promise = "resolved" THEN Opened(done) ELSE ConnectFailed(done)

-------------------------------------------------------------------------------
(* The tick. *)

\* curl_multi_perform: the transfer ends with the reply to the upgrade, or not.
Upgraded(w) ==
  [w EXCEPT !.cli.native = "open", !.cli.promise = "resolved", !.cli.established = TRUE,
            !.net.client.in = SubSeq(@, 3, Len(@))]

UpgradeFails(w) ==
  Cleanup([w EXCEPT !.cli.native = "closed", !.cli.promise = "rejected", !.cli.error = TRUE])

HasReply(w) == Len(w.net.client.in) >= 2

\* The outcomes of perform(): nothing yet, the reply, or a failure, which the
\* timeout of the transfer may be.
Performed(w) ==
  IF w.cli.native # "connecting" THEN {w}
  ELSE {w, UpgradeFails(w)}
       \union (IF HasReply(w) /\ w.net.client.in[1].frame.op = "101" THEN {Upgraded(w)} ELSE {})

\* A unit that curl_ws_recv returns.  Half a message goes to partialData; a close
\* frame ends it all.
RecvUnit(w, u) ==
  CASE u.frame.op = "close" /\ u.half = 2 ->
         [w EXCEPT !.cli.native = "closed", !.cli.code = "peer"]
    [] u.frame.op = "data" /\ u.half = 1 -> [w EXCEPT !.cli.partial = <<u.frame.piece>>]
    [] u.frame.op = "data" /\ u.half = 2 ->
         [w EXCEPT !.cli.inbox = Append(@, w.cli.partial), !.cli.partial = <<>>]
    [] OTHER -> w

\* It fails, at the end of the stream or at a reset.
RecvFails(w) ==
  [w EXCEPT !.cli.native = "closed", !.cli.error = TRUE,
            !.cli.code = IF @ = "none" THEN "cut" ELSE @]

\* Where the poll of a connection goes on: state 1 or 2.
Polls(w) == w.cli.native \in {"open", "closing"}

\* One round of the poll: the next unit, or a failure.
Polled(w) ==
  LET c == w.net.client
  IN  (IF c.in = <<>> THEN {}
       ELSE {RecvUnit([w EXCEPT !.net.client.in = Tail(@)], Head(c.in))})
      \union (IF c.rst \/ (c.fin /\ c.in = <<>>) THEN {RecvFails(w)} ELSE {})

\* Mutant: a closed connection is reported before what it has received.
WsRecvCloseFirst(w) ==
  CASE w.cli.native = "closed" ->
         TellClient(Cleanup([w EXCEPT !.cli.native = "gone", !.cli.readyState = "closed",
                                      !.cli.id = FALSE]), "close", <<w.cli.code>>)
    [] w.cli.native # "closed" /\ w.cli.inbox # <<>> ->
         TellClient([w EXCEPT !.cli.inbox = Tail(@)], "message", Head(w.cli.inbox))
    [] OTHER -> w

\* One __brokit_ws_recv of _drainEvents and what it dispatches.
WsRecv(w) ==
  CASE w.cli.inbox # <<>> ->
         TellClient([w EXCEPT !.cli.inbox = Tail(@)], "message", Head(w.cli.inbox))
    [] w.cli.inbox = <<>> /\ w.cli.error ->
         TellClient([w EXCEPT !.cli.error = FALSE], "error", <<>>)
    [] w.cli.inbox = <<>> /\ ~w.cli.error /\ w.cli.native = "closed" ->
         TellClient(Cleanup([w EXCEPT !.cli.native = "gone", !.cli.readyState = "closed",
                                      !.cli.id = FALSE]), "close", <<w.cli.code>>)
    [] OTHER -> w

\* There is something for it, and a WebSocket to take it.
HasEvent(w) == /\ w.cli.id
               /\ w.cli.native # "gone"
               /\ w.cli.inbox # <<>> \/ w.cli.error \/ w.cli.native = "closed"

\* The sweep: a closed connection nobody asks for any more.
Reap(w) ==
  IF w.cli.native # "closed" \/ w.cli.inbox # <<>> THEN w
  ELSE IF w.cli.closedSweeps = 1 THEN Cleanup([w EXCEPT !.cli.native = "gone"])
  ELSE [w EXCEPT !.cli.closedSweeps = @ + 1]

\* revokeConnection: told by the promise if it is still there, else by the drain.
Revoke(w) ==
  LET shut == Cleanup([w EXCEPT !.cli.native = "closed", !.cli.code = "revoked"])
  IN  IF w.cli.native \in {"closed", "gone"} THEN w
      ELSE IF w.cli.promise = "pending" THEN [shut EXCEPT !.cli.promise = "rejected"]
      ELSE [shut EXCEPT !.cli.error = TRUE]

\* __brokit_ws_has_pending: the host keeps ticking.
HasPending(w) == w.cli.native # "gone"

===============================================================================
