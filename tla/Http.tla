---------------------------------- MODULE Http ---------------------------------
(***************************************************************************)
(* A connection of an http.Server and its client (src/src/api/js/http.js): *)
(* a ClientRequest of the same library, which makes one request, or        *)
(* another program, which may pipeline several, or break off.              *)
(*                                                                         *)
(* The server announces a request when its header is there, and its        *)
(* program answers by write() and end() of the response, when it likes:    *)
(* each response writes to the connection at once.  The events that the    *)
(* parser finds in one chunk are handled one after the other, with the     *)
(* program's listeners in between.                                         *)
(***************************************************************************)
EXTENDS TcpLink, HttpMessage

CONSTANTS MaxRequests, \* bound: requests of a client that pipelines
          MaxPieces    \* bound: pieces of a response's body

ASSUME HttpAssumption == {MaxRequests, MaxPieces} \subseteq Nat \ {0}

VARIABLES client,   \* "ours": a ClientRequest; "raw": another program
          requests, \* what the client asks for
          net,      \* the connection
          server,   \* the server's listeners on it
          res,      \* the responses
          receiver, \* the client's listeners on it
          told,     \* history: the events of each request on the server
          muddled   \* history: the answers were given out of turn

clientVars == <<client, requests>>
vars == <<clientVars, net, server, res, receiver, told, muddled>>

Request(body, keep, isHead, upgrade) ==
  [body |-> body, keep |-> keep, isHead |-> isHead, upgrade |-> upgrade]

RawRequests == {Request(FALSE, TRUE, FALSE, FALSE), Request(TRUE, TRUE, FALSE, FALSE),
                Request(FALSE, TRUE, TRUE, FALSE), Request(FALSE, FALSE, FALSE, FALSE),
                Request(FALSE, TRUE, FALSE, TRUE)}

\* A ClientRequest says "Connection: close".
OurRequests == {Request(body, FALSE, isHead, FALSE) : body \in BOOLEAN, isHead \in BOOLEAN}

\* `accepted` (history): the connection took what the response wrote.
NewResponse == [headersSent |-> FALSE, writableEnded |-> FALSE, framing |-> "none",
                pieces |-> <<>>, accepted |-> TRUE]

\* ClientRequest.end() and, on 'connect', what it writes: all at once.
RequestTokens(r, req) ==
  <<Token("start", r, 0), Token("head", r, 0)>>
     \o (IF req.body THEN <<Token("body", r, 0)>> ELSE <<>>)

Init ==
  /\ \/ /\ client = "ours"
        /\ \E req \in OurRequests : /\ requests = <<req>>
                                    /\ net = SocketWrite(NewLink, "client", RequestTokens(1, req))
     \/ client = "raw" /\ requests = <<>> /\ net = NewLink
  /\ server = [parser |-> Parser, live |-> TRUE, currentReq |-> 0, batch |-> <<>>,
               closed |-> FALSE]
  /\ res = <<>>
  /\ receiver = [parser |-> Parser, live |-> TRUE, currentRes |-> 0, told |-> <<>>, left |-> FALSE]
  /\ told = <<>>
  /\ muddled = FALSE

-------------------------------------------------------------------------------
(* The server: _attachHttpSocket. *)

Execute(p, tokens) ==
  FoldLeft(LAMBDA q, t : RequestToken(q, t, requests[t.of]), p, tokens)

\* handleEvents gets what the parser has collected.
ToHandle(s, p) == [s EXCEPT !.parser = Handed(p), !.batch = p.events]

\* onData, onEnd; not after the parser is gone.
OnData(s, tokens) == IF s.live THEN ToHandle(s, Execute(s.parser, tokens)) ELSE s
OnEnd(s) == IF s.live THEN [ToHandle(s, FinishParser(s.parser)) EXCEPT !.live = FALSE] ELSE s

TellRequest(r, types) == told' = [told EXCEPT ![r] = @ \o types]

\* The connection's 'close': a request that is not complete was aborted.
OnClose ==
  /\ server' = [server EXCEPT !.live = FALSE, !.closed = TRUE, !.currentReq = 0]
  /\ IF server.currentReq \in DOMAIN told THEN TellRequest(server.currentReq, <<"aborted", "close">>)
     ELSE UNCHANGED told

ServerEvents(e) ==
  CASE e.type = "data"  -> server' = OnData(server, e.data) /\ UNCHANGED told
    [] e.type = "end"   -> server' = OnEnd(server) /\ UNCHANGED told
    [] e.type = "close" -> OnClose
    [] e.type = "error" -> UNCHANGED <<server, told>>

ServerTick == /\ server.batch = <<>> /\ CanRead(net, "server")
              /\ net' \in Ticked(net, "server")
              /\ UNCHANGED <<clientVars, server, res, receiver, told, muddled>>

ServerDrain == /\ server.batch = <<>> /\ net.server.events # <<>>
               /\ ServerEvents(Head(net.server.events))
               /\ net' = TakeEvent(net, "server")
               /\ UNCHANGED <<clientVars, res, receiver, muddled>>

\* The steps of handleEvents.
NextInBatch(s) == [s EXCEPT !.batch = Tail(@)]
Returns(s) == [s EXCEPT !.batch = <<>>, !.live = FALSE]
IsUpgrade(r) == requests[r].upgrade

\* 'request', unless it is to be an upgrade.
HandleHeaders(ev) ==
  /\ server' = [NextInBatch(server) EXCEPT !.currentReq = ev.of]
  /\ IF IsUpgrade(ev.of) THEN UNCHANGED <<told, res>>
     ELSE told' = Append(told, <<"request">>) /\ res' = Append(res, NewResponse)
  /\ UNCHANGED net

HandleBody(ev) ==
  /\ server' = NextInBatch(server)
  /\ IF server.currentReq # 0 THEN TellRequest(server.currentReq, <<"data">>) ELSE UNCHANGED told
  /\ UNCHANGED <<net, res>>

HandleComplete(ev) ==
  /\ IF server.currentReq # 0 /\ ~IsUpgrade(server.currentReq)
       THEN /\ server' = [NextInBatch(server) EXCEPT !.currentReq = 0]
            /\ TellRequest(server.currentReq, <<"end", "close">>)
     ELSE server' = NextInBatch(server) /\ UNCHANGED told
  /\ UNCHANGED <<net, res>>

\* The 'upgrade' listener takes the connection over, or there is none.
HandleUpgrade(ev) ==
  /\ server' = [Returns(server) EXCEPT !.currentReq = 0]
  /\ net' \in {net, SocketDestroy(net, "server")}
  /\ UNCHANGED <<told, res>>

\* The answer to what is no request goes out wherever the connection stands.
GiveUp == SocketEnd(SocketWrite(net, "server", <<Token("400", 0, 0)>>), "server")
Unanswered == \E r \in DOMAIN res : ~res[r].writableEnded

\* Mutant: an error ends the request, as its completion does.
HandleErrorResets(ev) ==
  /\ server' = [Returns(server) EXCEPT !.currentReq = 0]
  /\ net' = GiveUp
  /\ muddled' = (muddled \/ Unanswered)
  /\ UNCHANGED <<told, res>>

HandleError(ev) ==
  /\ server' = Returns(server)
  /\ net' = GiveUp
  /\ muddled' = (muddled \/ Unanswered)
  /\ UNCHANGED <<told, res>>

HandleEvent ==
  /\ server.batch # <<>>
  /\ LET ev == Head(server.batch)
     IN  \/ ev.type = "headers"  /\ HandleHeaders(ev) /\ UNCHANGED muddled
         \/ ev.type = "body"     /\ HandleBody(ev) /\ UNCHANGED muddled
         \/ ev.type = "complete" /\ HandleComplete(ev) /\ UNCHANGED muddled
         \/ ev.type = "upgrade"  /\ HandleUpgrade(ev) /\ UNCHANGED muddled
         \/ ev.type \in {"error", "cut"} /\ HandleError(ev)
  /\ UNCHANGED <<clientVars, receiver>>

-------------------------------------------------------------------------------
(* The program of the server: responses, at any time once they are there.   *)

\* What an operation leaves of the response, and the tokens it writes.
Wrote(rs, tokens) == [rs |-> rs, tokens |-> tokens]
AndWrote(step, tokens) == [step EXCEPT !.tokens = @ \o tokens]

\* _serializeHeaders: the framing, by what is known of the body; `noBody` is for
\* a status that has none.
SerializeHeaders(rs, r, known, noBody) ==
  Wrote([rs EXCEPT !.headersSent = TRUE, !.framing = IF noBody THEN "none" ELSE known],
        <<Token("head", r, 0)>>)

\* flushHeaders, and the first write(): nothing is known.
FlushHeaders(rs, r, noBody) ==
  IF rs.headersSent THEN Wrote(rs, <<>>) ELSE SerializeHeaders(rs, r, "chunked", noBody)

\* A piece of the body, in the framing that the header has announced.
BodyTokens(rs, r, pieces) ==
  IF requests[r].isHead THEN <<>>
  ELSE [i \in DOMAIN pieces |-> Token(IF rs.framing = "chunked" THEN "chunk" ELSE "data", r, pieces[i])]

WithPieces(step, pieces) == [step EXCEPT !.rs.pieces = @ \o pieces]

ResWrite(rs, r, pieces, noBody) ==
  LET head == FlushHeaders(rs, r, noBody)
  IN  WithPieces(AndWrote(head, BodyTokens(head.rs, r, pieces)), pieces)

\* Mutant: the last chunk is left out if there is a piece before it.
ResEndUnfinished(rs, r, pieces, noBody) ==
  LET known == IF pieces = <<>> THEN "empty" ELSE "length"
      head == IF rs.headersSent THEN Wrote(rs, <<>>) ELSE SerializeHeaders(rs, r, known, noBody)
      body == WithPieces(AndWrote(head, BodyTokens(head.rs, r, pieces)), pieces)
      last == IF head.rs.framing = "chunked" /\ ~requests[r].isHead /\ pieces = <<>>
                THEN <<Token("last", r, 0)>> ELSE <<>>
  IN  [AndWrote(body, last) EXCEPT !.rs.writableEnded = TRUE]

\* end(): with all of the body, if the header is still to be sent.
ResEnd(rs, r, pieces, noBody) ==
  LET known == IF pieces = <<>> THEN "empty" ELSE "length"
      head == IF rs.headersSent THEN Wrote(rs, <<>>) ELSE SerializeHeaders(rs, r, known, noBody)
      body == WithPieces(AndWrote(head, BodyTokens(head.rs, r, pieces)), pieces)
      last == IF head.rs.framing = "chunked" /\ ~requests[r].isHead
                THEN <<Token("last", r, 0)>> ELSE <<>>
  IN  [AndWrote(body, last) EXCEPT !.rs.writableEnded = TRUE]

\* The response has made a step.  Ended, it ends a connection not kept alive.
Answers(r, step) ==
  LET written == IF step.tokens = <<>> THEN net ELSE SocketWrite(net, "server", step.tokens)
      over == step.rs.writableEnded /\ ~requests[r].keep
      taken == step.tokens = <<>> \/ Writable(net, "server")
      outOfTurn == \E q \in 1 .. r - 1 : ~res[q].writableEnded
      noBodyToSend == step.rs.framing = "none" /\ step.rs.pieces # <<>>
  IN  /\ res' = [res EXCEPT ![r] = [step.rs EXCEPT !.accepted = @ /\ taken]]
      /\ net' = IF over THEN SocketEnd(written, "server") ELSE written
      /\ muddled' = (muddled \/ outOfTurn \/ noBodyToSend)

Pieces(r) == {<<>>} \union (IF Len(res[r].pieces) < MaxPieces THEN {<<Len(res[r].pieces) + 1>>} ELSE {})

\* flushHeaders() is a write() of nothing.  Bound: no more answers once they are
\* out of turn.
Respond(r) ==
  /\ ~res[r].writableEnded /\ ~muddled
  /\ \E noBody \in BOOLEAN, pieces \in Pieces(r) :
       /\ noBody => ~res[r].headersSent /\ pieces = <<>>
       /\ \/ /\ pieces # <<>> \/ ~res[r].headersSent
             /\ Answers(r, ResWrite(res[r], r, pieces, noBody))
          \/ Answers(r, ResEnd(res[r], r, pieces, noBody))
  /\ UNCHANGED <<clientVars, server, receiver, told>>

\* Bound: one of the ends goes, or the connection is lost, once.
Untroubled == /\ ~receiver.left
              /\ \A side \in Sides : ~net[side].rst /\ ~net[side].closed

\* req.destroy(), or server.close() with its closeAllConnections().
ServerDestroys ==
  /\ Untroubled
  /\ net' = SocketDestroy(net, "server")
  /\ UNCHANGED <<clientVars, server, res, receiver, told, muddled>>

-------------------------------------------------------------------------------
(* The client. *)

ExecuteResponse(p, tokens) ==
  FoldLeft(LAMBDA q, t : IF t.t = "400" THEN ResponseToken(q, t, "none", FALSE)
                         ELSE ResponseToken(q, t, res[t.of].framing, requests[t.of].isHead),
           p, tokens)

TellClient(rc, type, of, piece) == [rc EXCEPT !.told = Append(@, ParserEvent(type, of, piece))]

\* handleEvents: a ClientRequest is done with the parser after one response.
HandleResponseEvent(rc, ev) ==
  CASE ev.type = "headers"  -> TellClient([rc EXCEPT !.currentRes = ev.of], "response", ev.of, 0)
    [] ev.type = "body"     -> TellClient(rc, "data", rc.currentRes, ev.piece)
    [] ev.type = "complete" -> TellClient([rc EXCEPT !.currentRes = 0, !.live = client = "raw"],
                                          "end", rc.currentRes, 0)
    [] ev.type \in {"error", "cut"} -> TellClient([rc EXCEPT !.live = FALSE], ev.type, 0, 0)

HandleResponse(rc, p) ==
  FoldLeft(HandleResponseEvent, [rc EXCEPT !.parser = Handed(p)], p.events)

\* Mutant: the end of the stream just ends the parser.
ResponseEofQuietly(rc) == [rc EXCEPT !.live = FALSE]

\* The end of the stream tells the parser.
ResponseEof(rc) ==
  IF rc.live THEN [HandleResponse(rc, FinishParser(rc.parser)) EXCEPT !.live = FALSE] ELSE rc

\* The connection's 'close' ends a response that has not ended.
ResponseClose(rc) ==
  IF rc.currentRes = 0 THEN [rc EXCEPT !.live = FALSE]
  ELSE TellClient([rc EXCEPT !.live = FALSE, !.currentRes = 0], "end", rc.currentRes, 0)

ClientEvents(rc, e) ==
  CASE e.type = "data"  -> IF rc.live THEN HandleResponse(rc, ExecuteResponse(rc.parser, e.data)) ELSE rc
    [] e.type = "end"   -> ResponseEof(rc)
    [] e.type = "error" -> TellClient([rc EXCEPT !.live = FALSE], "lost", 0, 0)
    [] e.type = "close" -> ResponseClose(rc)

\* A tick, and the drain that follows it.
ClientTick ==
  \E ticked \in IF CanRead(net, "client") THEN Ticked(net, "client") ELSE {net} :
    /\ ticked.client.events # <<>>
    /\ receiver' = FoldLeft(ClientEvents, receiver, ticked.client.events)
    /\ net' = [ticked EXCEPT !.client.events = <<>>]
    /\ UNCHANGED <<clientVars, server, res, told, muddled>>

\* ClientRequest.destroy().
ClientDestroys ==
  /\ Untroubled
  /\ net' = SocketDestroy(net, "client")
  /\ receiver' = [receiver EXCEPT !.left = TRUE]
  /\ UNCHANGED <<clientVars, server, res, told, muddled>>

\* A raw client asks again before it is answered ...
RawAsks ==
  /\ client = "raw" /\ ~receiver.left /\ Writable(net, "client")
  /\ Len(requests) < MaxRequests
  /\ \E req \in RawRequests :
       /\ requests' = Append(requests, req)
       /\ net' = SocketWrite(net, "client", RequestTokens(Len(requests) + 1, req))
  /\ UNCHANGED <<client, server, res, receiver, told, muddled>>

\* ... and breaks off in the middle of a request, or with what is none.
RawBreaksOff ==
  /\ client = "raw" /\ ~receiver.left /\ Writable(net, "client")
  /\ Len(requests) < MaxRequests
  /\ LET r == Len(requests) + 1
     IN  \E last \in {Token("head", r, 0), Token("bad", r, 0)} :
           /\ requests' = Append(requests, Request(TRUE, TRUE, FALSE, FALSE))
           /\ net' = SocketEnd(SocketWrite(net, "client", <<Token("start", r, 0), last>>), "client")
  /\ receiver' = [receiver EXCEPT !.left = TRUE]
  /\ UNCHANGED <<client, server, res, told, muddled>>

ConnectionLost ==
  /\ Untroubled
  /\ net' = [net EXCEPT !.client.rst = TRUE, !.server.rst = TRUE]
  /\ UNCHANGED <<clientVars, server, res, receiver, told, muddled>>

Next ==
  \/ ServerTick \/ ServerDrain \/ HandleEvent \/ ServerDestroys
  \/ \E r \in DOMAIN res : Respond(r)
  \/ ClientTick \/ ClientDestroys
  \/ RawAsks \/ RawBreaksOff \/ ConnectionLost

\* Each end reads what comes, and tells its listeners.
Quiet(s) == net[s].events = <<>> /\ (net[s].closed \/ Ticked(net, s) = {})
Fairness == []<>(server.batch = <<>> /\ Quiet("server")) /\ []<>Quiet("client")

Spec == Init /\ [][Next]_vars /\ Fairness

-------------------------------------------------------------------------------
(* Properties. *)

\* A request that was announced is told its end or that it was aborted, never
\* both and nothing after it, by the time its connection has closed: whatever
\* came in one chunk, was no request, or cut it short.
RequestsTold ==
  \A r \in DOMAIN told :
    LET events == told[r]
    IN  /\ \E over \in {<<>>, <<"end", "close">>, <<"aborted", "close">>} :
             events \in {<<"request">> \o over, <<"request", "data">> \o over}
        /\ server.closed => events[Len(events)] = "close"

Of(r, type) == SelectSeq(receiver.told, LAMBDA e : e.of = r /\ e.type = type)
Received(r) == [i \in DOMAIN Of(r, "data") |-> Of(r, "data")[i].piece]
ToSend(r) == IF requests[r].isHead THEN <<>> ELSE res[r].pieces
Responses == SelectSeq(receiver.told, LAMBDA e : e.type = "response")

\* As long as the answers are given in turn, the client takes what it is sent for
\* what it is: responses in the order of the requests, each with the pieces of
\* its body, whatever the framing they were sent in.
ResponsesMatch ==
  ~muddled =>
    /\ \A i \in DOMAIN receiver.told : receiver.told[i].type # "error"
    /\ \A i \in DOMAIN Responses : Responses[i].of = i
    /\ \A r \in DOMAIN res : IsPrefix(Received(r), ToSend(r))

\* A response cut short ends as well, but not without an 'error' before.
CutIsTold ==
  ~muddled /\ ~receiver.left =>
    \A i \in DOMAIN receiver.told :
      LET e == receiver.told[i]
      IN  e.type = "end" =>
            \/ res[e.of].writableEnded /\ Received(e.of) = ToSend(e.of)
            \/ requests[e.of].isHead \/ res[e.of].framing = "none"
            \/ \E j \in 1 .. i : receiver.told[j].type \in {"error", "cut", "lost"}

\* A ClientRequest whose answer was sent has its response, or an error.
AnswersArrive ==
  (client = "ours" /\ Len(res) = 1 /\ res[1].writableEnded /\ res[1].accepted)
    ~> (receiver.left \/ muddled
         \/ \E i \in DOMAIN receiver.told : receiver.told[i].type \in {"end", "error", "cut", "lost"})

===============================================================================
