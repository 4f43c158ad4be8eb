-------------------------------- MODULE WsServer -------------------------------
(***************************************************************************)
(* One connection of a WebSocketServer (src/src/api/js/                    *)
(* websocket_server.js): the handshake, the frame parser and the closing   *)
(* handshake of its ServerWebSocket, as operators from the record w of the *)
(* whole conversation to the next one.  They change w.srv and w.net.       *)
(*                                                                         *)
(* The wire carries units, the two halves of a frame: the first has its    *)
(* header.  The bytes of a message are pieces, of which piece 0 is no      *)
(* UTF-8.  Lengths, masks and codes are left out, but for how a close code *)
(* came about; the cap on a message is the frame "huge".                   *)
(***************************************************************************)
EXTENDS TcpLink

Frame(op, piece, last) == [op |-> op, piece |-> piece, last |-> last]
Units(f) == <<[frame |-> f, half |-> 1], [frame |-> f, half |-> 2]>>

Control == {"ping", "pong", "close", "close1"}
\* What the header alone shows to be wrong: a mask or RSV bit, a length.
BadHeaders == {"unmasked", "huge"}

\* The TCP connection's listeners and the ServerWebSocket: `ws`, it was made by the
\* handshake, `recv` and `header` are the bytes not parsed yet, `feeding` says that
\* _feed is in its loop and `failing` that _fail is in the listeners of its 'error';
\* `initiated` and `sent` are history.
NewServerSocket ==
  [ws |-> FALSE, header |-> <<>>, recv |-> <<>>, feeding |-> FALSE, failing |-> FALSE,
   readyState |-> "none", frag |-> <<>>, closeSent |-> FALSE, closeRcvd |-> FALSE, initiated |-> FALSE,
   code |-> "none", timer |-> FALSE, told |-> <<>>, sent |-> <<>>]

ServerEvent(type, data) == [type |-> type, data |-> data]
TellServer(w, type, data) == [w EXCEPT !.srv.told = Append(@, ServerEvent(type, data))]

WriteFrame(w, f) == [w EXCEPT !.net = SocketWrite(@, "server", Units(f))]
EndSocket(w) == [w EXCEPT !.net = SocketEnd(@, "server")]

-------------------------------------------------------------------------------
(* send(), close() and what they use. *)

ServerSend(w, piece) ==
  IF w.srv.readyState # "open" THEN w
  ELSE [WriteFrame(w, Frame("data", piece, TRUE)) EXCEPT
          !.srv.sent = IF Writable(w.net, "server") THEN Append(@, piece) ELSE @]

\* Mutant: the close frame is sent whenever there is a reason to.
SendCloseAgain(w) == WriteFrame([w EXCEPT !.srv.closeSent = TRUE], Frame("close", 0, TRUE))

SendClose(w) ==
  IF w.srv.closeSent THEN w
  ELSE WriteFrame([w EXCEPT !.srv.closeSent = TRUE], Frame("close", 0, TRUE))

\* Mutant: no timer.
StartCloseUntimed(w, code) ==
  LET closing == SendClose([w EXCEPT !.srv.readyState = "closing", !.srv.code = code,
                                     !.srv.initiated = TRUE])
  IN  IF w.srv.closeRcvd THEN EndSocket(closing) ELSE closing

\* _startClose, which only close() calls: that the peer's close has come before it
\* is so in the 'error' of a close frame that is no good.
StartClose(w, code) ==
  LET closing == SendClose([w EXCEPT !.srv.readyState = "closing", !.srv.code = code,
                                     !.srv.initiated = TRUE])
  IN  IF w.srv.closeRcvd THEN EndSocket(closing) ELSE [closing EXCEPT !.srv.timer = TRUE]

ServerClose(w, code) == IF w.srv.readyState # "open" THEN w ELSE StartClose(w, code)

\* The timer of _startClose.
CloseTimeout(w) == [w EXCEPT !.srv.timer = FALSE, !.net = SocketDestroy(@, "server")]

\* _fail: the 'error' first, whose listeners find readyState as it was, ...
Fail(w) == TellServer([w EXCEPT !.srv.failing = TRUE], "error", <<>>)

\* ... and the rest after them, whatever they have called.
AfterError(w) ==
  EndSocket(SendClose([w EXCEPT !.srv.failing = FALSE, !.srv.readyState = "closing",
                                !.srv.code = "failed"]))

\* _finish(wasClean): 1006 if no code is known.
Finish(w) ==
  LET v == w.srv
  IN  IF v.readyState = "closed" THEN w
      ELSE TellServer([w EXCEPT !.srv.readyState = "closed", !.srv.timer = FALSE], "close",
                      <<v.code, v.closeSent /\ v.closeRcvd>>)

-------------------------------------------------------------------------------
(* Frames. *)

Deliver(w, pieces) ==
  IF 0 \in Range(pieces) THEN Fail(w) ELSE TellServer(w, "message", pieces)

\* The peer's close frame: its code stands; the echo is sent unless ours was.
CloseFrame(w) ==
  LET rcvd == [w EXCEPT !.srv.closeRcvd = TRUE, !.srv.code = "peer"]
  IN  EndSocket(IF w.srv.closeSent THEN rcvd
                ELSE SendClose([rcvd EXCEPT !.srv.readyState = "closing"]))

HandleControl(w, f) ==
  CASE f.op = "ping"   -> IF w.srv.readyState = "open" THEN WriteFrame(w, Frame("pong", 0, TRUE)) ELSE w
    [] f.op = "pong"   -> w
    [] f.op = "close1" -> Fail([w EXCEPT !.srv.closeRcvd = TRUE])
    [] f.op = "close"  -> CloseFrame(w)

\* The first data frame or the next of a fragmented message.  `on`: the loop of
\* _feed goes on; it returns at a frame out of place, and not when the message
\* turns out to be no UTF-8.  Where it returns after _fail there is nothing between.
HandleData(w, f) ==
  LET pieces == Append(w.srv.frag, f.piece)
      next == [w EXCEPT !.srv.frag = IF f.last THEN <<>> ELSE pieces]
  IN  IF (f.op = "cont") # (w.srv.frag # <<>>) THEN [Fail(w) EXCEPT !.srv.feeding = FALSE]
      ELSE IF f.last THEN Deliver(next, pieces) ELSE next

HandleFrame(w, f) ==
  IF f.op \in Control
    THEN IF f.last THEN HandleControl(w, f) ELSE [Fail(w) EXCEPT !.srv.feeding = FALSE]
  ELSE IF f.op \in {"data", "cont"} THEN HandleData(w, f)
  ELSE [Fail(w) EXCEPT !.srv.feeding = FALSE]

\* One round of the loop of _feed.  A bad header is found before the frame is
\* there, and stays in the buffer.
FeedStep(w) ==
  LET buf == w.srv.recv
  IN  IF buf = <<>> THEN [w EXCEPT !.srv.feeding = FALSE]
      ELSE IF buf[1].frame.op \in BadHeaders THEN [Fail(w) EXCEPT !.srv.feeding = FALSE]
      ELSE IF Len(buf) < 2 THEN [w EXCEPT !.srv.feeding = FALSE]
      ELSE HandleFrame([w EXCEPT !.srv.recv = SubSeq(@, 3, Len(@))], buf[1].frame)

Feed(w, units) == [w EXCEPT !.srv.recv = @ \o units, !.srv.feeding = TRUE]

-------------------------------------------------------------------------------
(* The TCP connection's listeners. *)

Refuse(w) ==
  EndSocket([w EXCEPT !.net = SocketWrite(@, "server", Units(Frame("400", 0, TRUE)))])

\* 101, the ServerWebSocket, 'connection', and the frames that came along.
Accept(w, rest) ==
  LET up == TellServer([WriteFrame(w, Frame("101", 0, TRUE)) EXCEPT
                          !.srv.ws = TRUE, !.srv.readyState = "open",
                          !.clients = TRUE],
                       "connection", <<>>)
  IN  IF rest = <<>> THEN up ELSE Feed(up, rest)

\* The bytes before the handshake is done; those after a refused one begin anew.
Handshake(w, units) ==
  LET buf == w.srv.header \o units
      f == buf[1].frame
      rest == SubSeq(buf, 3, Len(buf))
      done == [w EXCEPT !.srv.header = <<>>]
  IN  IF f.op = "huge" THEN [w EXCEPT !.srv.header = buf, !.net = SocketDestroy(@, "server")]
      ELSE IF Len(buf) < 2 THEN [w EXCEPT !.srv.header = buf]
      ELSE IF f.op = "upgrade" THEN Accept(done, rest) ELSE Refuse(done)

OnServerData(w, units) == IF w.srv.ws THEN Feed(w, units) ELSE Handshake(w, units)

OnServerClose(w) == IF w.srv.ws THEN Finish([w EXCEPT !.clients = FALSE]) ELSE w

\* An event of the socket, as net.js hands it out.
OnServerEvent(w, e) ==
  CASE e.type = "data"  -> OnServerData(w, e.data)
    [] e.type = "close" -> OnServerClose(w)
    [] OTHER            -> w

\* WebSocketServer.close(): "going away" to a client that is open.  The listener
\* closes, which connections that are there do not notice.
CloseServer(w) == IF w.clients THEN ServerClose(w, "own") ELSE w

===============================================================================
