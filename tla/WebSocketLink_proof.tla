-------------------------- MODULE WebSocketLink_proof -------------------------
(***************************************************************************)
(* Proofs about WebSocketLink, for any number of messages of either side   *)
(* and of frames of a raw peer: ClosedForGood, CloseFrameLast, NothingLost.*)
(*                                                                         *)
(* The invariant IInv says of a conversation what order its events come in *)
(* (ServerOrder, ClientOrder), that one close frame is sent and last       *)
(* (OneCloseFrame), and, between two ends of this library, what is on its  *)
(* way.  UnitOf gives the k-th unit that an end writes: the handshake, the *)
(* messages it has sent, the close frame.  What the client has sent and    *)
(* the server has not parsed lies in four places, the socket's buffer, a   *)
(* 'data' event, the header and the parser's buffer: their concatenation,  *)
(* Upstream, continues the stream where the server has got to (Up).  The   *)
(* other way it is the socket's buffer, the half of a message and the      *)
(* inbox (Down).  A message told is then the next that was sent; and who   *)
(* has parsed the close frame has parsed all that was before it.           *)
(***************************************************************************)
EXTENDS WebSocketLink, FiniteSetTheorems, SequenceTheorems, TLAPS

UpFrames == RawFrames \union {Frame("data", n, TRUE) : n \in 1 .. MaxUp}
DownFrames == {Frame("data", n, TRUE) : n \in 1 .. MaxDown}
              \union {Frame(op, 0, TRUE) : op \in {"101", "400", "pong", "close"}}
UpUnits == [frame : UpFrames, half : {1, 2}]
DownUnits == [frame : DownFrames, half : {1, 2}]

SocketEvents == [type : {"data", "end", "error", "close"}, data : Seq(UpUnits)]
Endpoints(units) == [in : Seq(units), fin : BOOLEAN, rst : BOOLEAN, ended : BOOLEAN,
                     peerEof : BOOLEAN, closed : BOOLEAN, events : Seq(SocketEvents)]
Links == [client : Endpoints(DownUnits), server : Endpoints(UpUnits)]

LEMMA NewLinkTyped == NewLink \in Links /\ NewLink.client = Endpoint /\ NewLink.server = Endpoint
<1>1. Endpoint \in Endpoints(DownUnits) /\ Endpoint \in Endpoints(UpUnits)
  BY DEF Endpoint, Endpoints
<1>2. NewLink = [client |-> Endpoint, server |-> Endpoint]
  BY DEF NewLink, Sides
<1>. QED BY <1>1, <1>2 DEF Links

\* The client's end, but for how it ends.
LEMMA WriteOnly ==
  ASSUME NEW n \in Links, NEW u \in Seq(DownUnits), NEW m, m = SocketWrite(n, "server", u)
  PROVE  /\ m \in Links /\ m.client.closed = n.client.closed
         /\ Writable(m, "server") = Writable(n, "server")
         /\ m.server.in = n.server.in /\ m.server.events = n.server.events
         /\ m.server.closed = n.server.closed
         /\ m.client.in = IF Writable(n, "server") /\ ~n.client.closed THEN n.client.in \o u
                          ELSE n.client.in
<1>1. n["client"] = n.client /\ n["server"] = n.server /\ Peer("server") = "client"
  BY DEF Peer
<1>2. CASE ~Writable(n, "server")
  BY <1>2 DEF SocketWrite
<1>3. CASE Writable(n, "server") /\ n.client.closed
  <2>1. m = [n EXCEPT !["server"].rst = TRUE]
    BY <1>1, <1>3 DEF SocketWrite, Reaches
  <2>. QED BY <2>1, <1>3 DEF Links, Endpoints, Writable
<1>4. CASE Writable(n, "server") /\ ~n.client.closed
  <2>1. m = [n EXCEPT !["client"].in = @ \o u]
    BY <1>1, <1>4 DEF SocketWrite, Reaches
  <2>2. n.client.in \o u \in Seq(DownUnits)
    BY DEF Links, Endpoints
  <2>. QED BY <2>1, <2>2, <1>4 DEF Links, Endpoints, Writable
<1>. QED BY <1>2, <1>3, <1>4

\* What the server's end may become when it ends, is destroyed or fails: the same,
\* or closed, with the events it had and one or two more.
CloseEvent == SocketEvent("close")
Ends(n, m) ==
  /\ m \in Links /\ m.client.in = n.client.in /\ m.client.closed = n.client.closed
  /\ Writable(m, "server") => Writable(n, "server")
  /\ \/ /\ m.server.in = n.server.in /\ m.server.events = n.server.events
        /\ m.server.closed = n.server.closed
     \/ /\ ~n.server.closed /\ m.server.closed /\ m.server.in = <<>>
        /\ m.server.events \in {Append(n.server.events, SocketEvent("close")),
                                Append(Append(n.server.events, SocketEvent("error")),
                                       SocketEvent("close"))}

LEMMA EventTyped ==
  ASSUME NEW type \in {"end", "error", "close"}
  PROVE  SocketEvent(type) \in SocketEvents
BY DEF SocketEvent, SocketEvents

LEMMA CloseHandleOf ==
  ASSUME NEW n \in Links, NEW m, m = CloseHandle(n, "server")
  PROVE  /\ m \in Links /\ m.client.in = n.client.in /\ m.client.closed = n.client.closed
         /\ m.server.in = <<>> /\ m.server.events = n.server.events /\ m.server.closed
<1>1. n["client"] = n.client /\ n["server"] = n.server /\ Peer("server") = "client"
  BY DEF Peer
<1>2. PICK s : s = [n.server EXCEPT !.closed = TRUE, !.in = <<>>]
  OBVIOUS
<1>3. s \in Endpoints(UpUnits) /\ s.closed /\ s.in = <<>> /\ s.events = n.server.events
  <2>1. <<>> \in Seq(UpUnits)
    OBVIOUS
  <2>. QED BY <1>2, <2>1 DEF Links, Endpoints
<1>4. \A b \in BOOLEAN : LET c == [n.client EXCEPT !.fin = TRUE, !.rst = b] IN
         c \in Endpoints(DownUnits) /\ c.in = n.client.in /\ c.closed = n.client.closed
  BY DEF Links, Endpoints
<1>5. \E b \in BOOLEAN : m = [client |-> [n.client EXCEPT !.fin = TRUE, !.rst = b], server |-> s]
  <2>1. PICK shut : shut = [n EXCEPT !["server"].closed = TRUE, !["server"].in = <<>>,
                                     !["client"].fin = TRUE]
    OBVIOUS
  <2>2. shut = [client |-> [n.client EXCEPT !.fin = TRUE], server |-> s]
    BY <1>2, <2>1 DEF Links, Endpoints
  <2>3. m = shut \/ m = [shut EXCEPT !["client"].rst = TRUE]
    BY <1>1, <2>1 DEF CloseHandle
  <2>4. shut = [client |-> [n.client EXCEPT !.fin = TRUE, !.rst = n.client.rst], server |-> s]
    BY <2>2 DEF Links, Endpoints
  <2>5. [shut EXCEPT !["client"].rst = TRUE]
          = [client |-> [n.client EXCEPT !.fin = TRUE, !.rst = TRUE], server |-> s]
    BY <2>2 DEF Links, Endpoints
  <2>. QED BY <2>3, <2>4, <2>5 DEF Links, Endpoints
<1>6. PICK b \in BOOLEAN : m = [client |-> [n.client EXCEPT !.fin = TRUE, !.rst = b], server |-> s]
  BY <1>5
<1>7. PICK c : c = [n.client EXCEPT !.fin = TRUE, !.rst = b]
  OBVIOUS
<1>8. c \in Endpoints(DownUnits) /\ c.in = n.client.in /\ c.closed = n.client.closed
  BY <1>4, <1>7
<1>9. m = [client |-> c, server |-> s]
  BY <1>6, <1>7
<1>. QED BY <1>3, <1>8, <1>9 DEF Links

LEMMA DestroyEnds ==
  ASSUME NEW n \in Links
  PROVE  Ends(n, SocketDestroy(n, "server"))
<1>1. n["client"] = n.client /\ n["server"] = n.server
  OBVIOUS
<1>2. CASE n.server.closed
  BY <1>1, <1>2 DEF SocketDestroy, Ends
<1>3. CASE ~n.server.closed
  <2>1. PICK h : h = CloseHandle(n, "server")
    OBVIOUS
  <2>2. /\ h \in Links /\ h.client.in = n.client.in /\ h.client.closed = n.client.closed
        /\ h.server.in = <<>> /\ h.server.events = n.server.events /\ h.server.closed
    BY <2>1, CloseHandleOf
  <2>3. PICK m : m = [h EXCEPT !["server"].events = Append(@, SocketEvent("close"))]
    OBVIOUS
  <2>4. m = SocketDestroy(n, "server")
    BY <1>1, <1>3, <2>1, <2>3 DEF SocketDestroy, QueueEvent
  <2>5. /\ m \in Links /\ m.client.in = n.client.in /\ m.client.closed = n.client.closed
        /\ m.server.in = <<>> /\ m.server.events = Append(n.server.events, SocketEvent("close"))
        /\ m.server.closed
    <3>1. Append(h.server.events, SocketEvent("close")) \in Seq(SocketEvents)
      BY <2>2, EventTyped DEF Links, Endpoints
    <3>. QED BY <2>2, <2>3, <3>1 DEF Links, Endpoints
  <2>. QED BY <2>4, <2>5, <1>3 DEF Ends, Writable
<1>. QED BY <1>2, <1>3

LEMMA EndEnds ==
  ASSUME NEW n \in Links
  PROVE  Ends(n, SocketEnd(n, "server"))
<1>1. n["client"] = n.client /\ n["server"] = n.server /\ Peer("server") = "client"
  BY DEF Peer
<1>2. CASE n.server.closed
  BY <1>1, <1>2 DEF SocketEnd, Ends
<1>3. CASE ~n.server.closed
  <2>1. PICK e : e = [n EXCEPT !["server"].ended = TRUE, !["client"].fin = TRUE]
    OBVIOUS
  <2>2. /\ e \in Links /\ e.client.in = n.client.in /\ e.client.closed = n.client.closed
        /\ e.server.in = n.server.in /\ e.server.events = n.server.events
        /\ e.server.closed = n.server.closed /\ ~Writable(e, "server")
    BY <1>3, <2>1 DEF Links, Endpoints, Writable
  <2>3. SocketEnd(n, "server") = Over(e, "server")
    BY <1>1, <1>3, <2>1 DEF SocketEnd
  <2>4. CASE ~e.server.peerEof
    <3>1. SocketEnd(n, "server") = e
      BY <2>3, <2>4 DEF Over
    <3>. QED BY <2>2, <3>1 DEF Ends
  <2>5. CASE e.server.peerEof
    <3>1. SocketEnd(n, "server") = SocketDestroy(e, "server")
      BY <2>3, <2>5 DEF Over
    <3>2. Ends(e, SocketDestroy(e, "server"))
      BY <2>2, DestroyEnds
    <3>3. PICK m : m = SocketDestroy(e, "server")
      OBVIOUS
    <3>4. Ends(e, m)
      BY <3>2, <3>3
    <3>. QED BY <1>3, <2>2, <3>1, <3>3, <3>4 DEF Ends
  <2>. QED BY <2>4, <2>5
<1>. QED BY <1>2, <1>3

LEMMA FailEnds ==
  ASSUME NEW n \in Links
  PROVE  Ends(n, SocketFails(n, "server"))
<1>1. n["client"] = n.client /\ n["server"] = n.server
  OBVIOUS
<1>2. CASE n.server.closed
  BY <1>1, <1>2 DEF SocketFails, Ends
<1>3. CASE ~n.server.closed
  <2>1. PICK h : h = CloseHandle(n, "server")
    OBVIOUS
  <2>2. /\ h \in Links /\ h.client.in = n.client.in /\ h.client.closed = n.client.closed
        /\ h.server.in = <<>> /\ h.server.events = n.server.events /\ h.server.closed
    BY <2>1, CloseHandleOf
  <2>3. PICK evs : evs = Append(Append(n.server.events, SocketEvent("error")), SocketEvent("close"))
    OBVIOUS
  <2>4. evs \in Seq(SocketEvents)
    BY <2>3, EventTyped DEF Links, Endpoints
  <2>5. PICK m : m = [h EXCEPT !["server"].events = evs]
    OBVIOUS
  <2>6. m = SocketFails(n, "server")
    <3>1. SocketFails(n, "server") = QueueEvent(QueueEvent(h, "server", "error"), "server", "close")
      BY <1>1, <1>3, <2>1 DEF SocketFails
    <3>2. h.server.events = n.server.events
      BY <2>2
    <3>. QED BY <2>2, <2>3, <2>5, <3>1, <3>2 DEF QueueEvent, Links, Endpoints
  <2>7. /\ m \in Links /\ m.client.in = n.client.in /\ m.client.closed = n.client.closed
        /\ m.server.in = <<>> /\ m.server.events = evs /\ m.server.closed
    BY <2>2, <2>4, <2>5 DEF Links, Endpoints
  <2>. QED BY <2>3, <2>6, <2>7, <1>3 DEF Ends, Writable
<1>. QED BY <1>2, <1>3

\* Units read, as the event that tells them.
DataEvent(units) == [type |-> "data", data |-> units]

LEMMA ReadOf ==
  ASSUME NEW n \in Links, NEW k \in 1 .. Len(n.server.in), NEW m, m = ReadBytes(n, "server", k)
  PROVE  /\ m \in Links /\ m.client.in = n.client.in /\ m.client.closed = n.client.closed
         /\ Writable(m, "server") = Writable(n, "server")
         /\ m.server.closed = n.server.closed
         /\ m.server.in = SubSeq(n.server.in, k + 1, Len(n.server.in))
         /\ m.server.events = Append(n.server.events, DataEvent(SubSeq(n.server.in, 1, k)))
<1>1. n["server"] = n.server /\ n.server.in \in Seq(UpUnits) /\ n.server.events \in Seq(SocketEvents)
  BY DEF Links, Endpoints
<1>2. PICK rest : rest = SubSeq(n.server.in, k + 1, Len(n.server.in))
  OBVIOUS
<1>3. PICK got : got = SubSeq(n.server.in, 1, k)
  OBVIOUS
<1>4. rest \in Seq(UpUnits) /\ got \in Seq(UpUnits)
  BY <1>1, <1>2, <1>3
<1>5. PICK evs : evs = Append(n.server.events, DataEvent(got))
  OBVIOUS
<1>6. evs \in Seq(SocketEvents)
  BY <1>1, <1>4, <1>5 DEF DataEvent, SocketEvents
<1>7. m = [n EXCEPT !["server"].in = rest, !["server"].events = evs]
  BY <1>1, <1>2, <1>3, <1>5 DEF ReadBytes, DataEvent, Links, Endpoints
<1>8. /\ m \in Links /\ m.client = n.client /\ m.server.in = rest /\ m.server.events = evs
      /\ m.server.closed = n.server.closed /\ m.server.ended = n.server.ended
  <2>1. PICK s : s = [n.server EXCEPT !.in = rest, !.events = evs]
    OBVIOUS
  <2>2. /\ s \in Endpoints(UpUnits) /\ s.in = rest /\ s.events = evs
        /\ s.closed = n.server.closed /\ s.ended = n.server.ended
    BY <1>4, <1>6, <2>1 DEF Links, Endpoints
  <2>3. m = [n EXCEPT !["server"] = s]
    BY <1>7, <2>1 DEF Links, Endpoints
  <2>. QED BY <2>2, <2>3 DEF Links
<1>. QED BY <1>2, <1>3, <1>5, <1>8 DEF Writable

\* The events of a handle as a tick may leave them: what was read is first, and a
\* closed handle says so last.
Endings == {<<>>, <<SocketEvent("end")>>, <<SocketEvent("close")>>,
            <<SocketEvent("error"), SocketEvent("close")>>,
            <<SocketEvent("end"), SocketEvent("close")>>,
            <<SocketEvent("end"), SocketEvent("error"), SocketEvent("close")>>}
EventsOrdered(s) ==
  \A i \in DOMAIN s.events :
     /\ s.events[i].type = "close" => i = Len(s.events) /\ s.closed
     /\ s.events[i].type = "data" => i = 1 /\ s.events[i].data # <<>>
Queued(s) == IF s.events # <<>> /\ s.events[1].type = "data" THEN s.events[1].data ELSE <<>>

\* Endings have no data and are closed last, if at all.
Ending(x) == /\ x \in Seq(SocketEvents)
             /\ \A i \in DOMAIN x : x[i].type # "data" /\ (x[i].type = "close" => i = Len(x))

LEMMA EndingsEnd ==
  ASSUME NEW x \in Endings
  PROVE  Ending(x)
<1>1. \A type \in {"end", "error", "close"} :
         SocketEvent(type) \in SocketEvents /\ SocketEvent(type).type = type
  BY DEF SocketEvent, SocketEvents
<1>2. CASE x = <<>>
  BY <1>2 DEF Ending
<1>3. CASE x = <<SocketEvent("end")>>
  BY <1>1, <1>3 DEF Ending
<1>4. CASE x = <<SocketEvent("close")>>
  BY <1>1, <1>4 DEF Ending
<1>5. CASE x = <<SocketEvent("error"), SocketEvent("close")>>
  BY <1>1, <1>5 DEF Ending
<1>6. CASE x = <<SocketEvent("end"), SocketEvent("close")>>
  BY <1>1, <1>6 DEF Ending
<1>7. CASE x = <<SocketEvent("end"), SocketEvent("error"), SocketEvent("close")>>
  BY <1>1, <1>7 DEF Ending
<1>. QED BY <1>2, <1>3, <1>4, <1>5, <1>6, <1>7 DEF Endings

LEMMA EndingsOrdered ==
  ASSUME NEW units \in Seq(UpUnits), NEW x \in Endings, NEW s,
         s.events = IF units = <<>> THEN x ELSE <<DataEvent(units)>> \o x,
         s.closed \/ x \in {<<>>, <<SocketEvent("end")>>}
  PROVE  EventsOrdered(s) /\ Queued(s) = units
<1>1. Ending(x)
  BY EndingsEnd
<1>2. \A i \in DOMAIN x : x[i].type = "close" => s.closed
  BY DEF SocketEvent
<1>3. CASE units = <<>>
  BY <1>1, <1>2, <1>3 DEF EventsOrdered, Queued, Ending
<1>4. CASE units # <<>>
  <2>1. PICK e : e = DataEvent(units)
    OBVIOUS
  <2>2. e \in SocketEvents /\ e.type = "data" /\ e.data = units
    BY <2>1 DEF DataEvent, SocketEvents
  <2>3. /\ Len(s.events) = 1 + Len(x) /\ s.events \in Seq(SocketEvents)
        /\ s.events[1] = e
        /\ \A i \in DOMAIN s.events : i # 1 => i - 1 \in DOMAIN x /\ s.events[i] = x[i - 1]
    BY <1>1, <1>4, <2>1, <2>2 DEF Ending
  <2>. QED BY <1>1, <1>2, <1>4, <2>2, <2>3 DEF EventsOrdered, Queued, Ending
<1>. QED BY <1>3, <1>4

LEMMA TickOf ==
  ASSUME NEW n \in Links, CanRead(n, "server"), NEW m \in Ticked(n, "server")
  PROVE  /\ m \in Links /\ m.client.in = n.client.in /\ m.client.closed = n.client.closed
         /\ Writable(m, "server") => Writable(n, "server")
         /\ EventsOrdered(m.server)
         /\ \E k \in 0 .. Len(n.server.in) :
              /\ Queued(m.server) = SubSeq(n.server.in, 1, k)
              /\ \/ m.server.in = SubSeq(n.server.in, k + 1, Len(n.server.in))
                 \/ m.server.closed /\ m.server.in = <<>>
<1>1. /\ n["server"] = n.server /\ n.server.in \in Seq(UpUnits) /\ n.server.events = <<>>
      /\ n.server.closed = FALSE
  BY DEF Links, Endpoints, CanRead
<1>2. PICK all : all = IF n.server.in = <<>> THEN n ELSE ReadBytes(n, "server", Len(n.server.in))
  OBVIOUS
<1>3. PICK k \in 0 .. Len(n.server.in), r \in Links :
        /\ r.client.in = n.client.in /\ r.client.closed = n.client.closed
        /\ Writable(r, "server") = Writable(n, "server") /\ r.server.closed = FALSE
        /\ r.server.in = SubSeq(n.server.in, k + 1, Len(n.server.in))
        /\ r.server.events = IF k = 0 THEN <<>> ELSE <<DataEvent(SubSeq(n.server.in, 1, k))>>
        /\ m \in {r, ReadEof(r, "server"), SocketFails(r, "server")}
  <2>1. CASE \E k \in 1 .. Len(n.server.in) : m = ReadBytes(n, "server", k)
    <3>1. PICK k \in 1 .. Len(n.server.in) : m = ReadBytes(n, "server", k)
      BY <2>1
    <3>2. /\ m \in Links /\ m.client.in = n.client.in /\ m.client.closed = n.client.closed
          /\ Writable(m, "server") = Writable(n, "server")
          /\ m.server.closed = n.server.closed
          /\ m.server.in = SubSeq(n.server.in, k + 1, Len(n.server.in))
          /\ m.server.events = Append(n.server.events, DataEvent(SubSeq(n.server.in, 1, k)))
      BY <3>1, ReadOf
    <3>3. Append(n.server.events, DataEvent(SubSeq(n.server.in, 1, k)))
            = <<DataEvent(SubSeq(n.server.in, 1, k))>>
      BY <1>1
    <3>4. k \in 0 .. Len(n.server.in) /\ k # 0
      BY <1>1
    <3>. QED BY <1>1, <3>2, <3>3, <3>4
  <2>2. CASE \E x \in {n, all} : m \in {ReadEof(x, "server"), SocketFails(x, "server")}
    <3>1. PICK x \in {n, all} : m \in {ReadEof(x, "server"), SocketFails(x, "server")}
      BY <2>2
    <3>2. CASE x = n
      <4>1. n.server.in = SubSeq(n.server.in, 0 + 1, Len(n.server.in)) /\ 0 \in 0 .. Len(n.server.in)
        BY <1>1
      <4>. QED BY <1>1, <3>1, <3>2, <4>1
    <3>3. CASE x # n
      <4>1. PICK k : k = Len(n.server.in)
        OBVIOUS
      <4>2. k \in 1 .. Len(n.server.in) /\ x = ReadBytes(n, "server", k)
        BY <1>1, <1>2, <3>1, <3>3, <4>1
      <4>3. /\ x \in Links /\ x.client.in = n.client.in /\ x.client.closed = n.client.closed
            /\ Writable(x, "server") = Writable(n, "server")
            /\ x.server.closed = n.server.closed
            /\ x.server.in = SubSeq(n.server.in, k + 1, Len(n.server.in))
            /\ x.server.events = Append(n.server.events, DataEvent(SubSeq(n.server.in, 1, k)))
        BY <4>2, ReadOf
      <4>4. Append(n.server.events, DataEvent(SubSeq(n.server.in, 1, k)))
              = <<DataEvent(SubSeq(n.server.in, 1, k))>>
        BY <1>1
      <4>5. k \in 0 .. Len(n.server.in) /\ k # 0
        BY <1>1, <4>2
      <4>. QED BY <1>1, <3>1, <4>3, <4>4, <4>5
    <3>. QED BY <3>2, <3>3
  <2>3. n["server"].in = n.server.in
    OBVIOUS
  <2>. QED BY <1>1, <1>2, <2>1, <2>2, <2>3 DEF Ticked
<1>4. PICK units : units = SubSeq(n.server.in, 1, k)
  OBVIOUS
<1>5. units \in Seq(UpUnits) /\ (units = <<>> <=> k = 0)
  BY <1>1, <1>4
<1>6. PICK got : got = IF units = <<>> THEN <<>> ELSE <<DataEvent(units)>>
  OBVIOUS
<1>7. r.server.events = got
  BY <1>3, <1>4, <1>5, <1>6
<1>8. Append(got, SocketEvent("end")) \in Seq(SocketEvents) /\ got \in Seq(SocketEvents)
  BY <1>3, <1>7, EventTyped DEF Links, Endpoints
<1>9. /\ m \in Links /\ m.client.in = r.client.in /\ m.client.closed = r.client.closed
      /\ Writable(m, "server") => Writable(r, "server")
      /\ \/ /\ m.server.closed = FALSE /\ m.server.in = r.server.in
            /\ m.server.events \in {got, Append(got, SocketEvent("end"))}
         \/ /\ m.server.closed /\ m.server.in = <<>>
            /\ \E q \in {got, Append(got, SocketEvent("end"))} :
                  m.server.events \in {Append(q, SocketEvent("close")),
                                       Append(Append(q, SocketEvent("error")), SocketEvent("close"))}
  <2>1. CASE m = r
    BY <1>3, <1>7, <2>1
  <2>2. CASE m = SocketFails(r, "server")
    <3>1. Ends(r, m)
      BY <1>3, <2>2, FailEnds
    <3>. QED BY <1>3, <1>7, <3>1 DEF Ends
  <2>3. CASE m = ReadEof(r, "server")
    <3>1. PICK q : q = QueueEvent([r EXCEPT !["server"].peerEof = TRUE], "server", "end")
      OBVIOUS
    <3>2. /\ q \in Links /\ q.client = r.client /\ q.server.in = r.server.in
          /\ q.server.closed = FALSE /\ q.server.events = Append(got, SocketEvent("end"))
          /\ Writable(q, "server") = Writable(r, "server")
      BY <1>3, <1>7, <1>8, <3>1 DEF QueueEvent, Writable, Links, Endpoints
    <3>3. Ends(q, m)
      BY <2>3, <3>1, <3>2, EndEnds DEF ReadEof
    <3>. QED BY <3>2, <3>3 DEF Ends
  <2>. QED BY <1>3, <2>1, <2>2, <2>3
<1>10. PICK x \in Endings : /\ m.server.events = IF units = <<>> THEN x ELSE <<DataEvent(units)>> \o x
                            /\ m.server.closed \/ x \in {<<>>, <<SocketEvent("end")>>}
  <2>1. \A x \in Seq(SocketEvents) : got \o x = IF units = <<>> THEN x ELSE <<DataEvent(units)>> \o x
    BY <1>6
  <2>2. \A a, b, c \in SocketEvents : /\ got \o <<>> = got
                                      /\ Append(got, a) = got \o <<a>>
                                      /\ Append(Append(got, a), b) = got \o <<a, b>>
                                      /\ Append(Append(Append(got, a), b), c) = got \o <<a, b, c>>
    BY <1>8
  <2>3. \A type \in {"end", "error", "close"} : SocketEvent(type) \in SocketEvents
    BY EventTyped
  <2>4. \E x \in Endings : /\ m.server.events = got \o x
                           /\ m.server.closed \/ x \in {<<>>, <<SocketEvent("end")>>}
    <3>1. PICK e, f, c \in SocketEvents : /\ e = SocketEvent("end") /\ f = SocketEvent("error")
                                          /\ c = SocketEvent("close")
      BY <2>3
    <3>2. Endings = {<<>>, <<e>>, <<c>>, <<f, c>>, <<e, c>>, <<e, f, c>>}
      BY <3>1 DEF Endings
    <3>3. /\ got = got \o <<>> /\ Append(got, e) = got \o <<e>>
          /\ Append(got, c) = got \o <<c>> /\ Append(Append(got, f), c) = got \o <<f, c>>
          /\ Append(Append(got, e), c) = got \o <<e, c>>
          /\ Append(Append(Append(got, e), f), c) = got \o <<e, f, c>>
      BY <2>2
    <3>4. \/ m.server.events \in {got, Append(got, e)}
          \/ /\ m.server.closed
             /\ m.server.events \in {Append(got, c), Append(Append(got, f), c),
                                     Append(Append(got, e), c), Append(Append(Append(got, e), f), c)}
      BY <1>9, <3>1
    <3>. QED BY <3>1, <3>2, <3>3, <3>4
  <2>5. \A x \in Endings : x \in Seq(SocketEvents)
    BY EndingsEnd DEF Ending
  <2>. QED BY <2>1, <2>4, <2>5
<1>11. EventsOrdered(m.server) /\ Queued(m.server) = units
  BY <1>5, <1>10, EndingsOrdered
<1>. QED BY <1>3, <1>4, <1>9, <1>11

LEMMA TransmitOf ==
  ASSUME NEW n \in Links, NEW u \in Seq(UpUnits), NEW m, m = Reaches(n, "client", u)
  PROVE  /\ m \in Links /\ m.client.in = n.client.in /\ m.client.closed = n.client.closed
         /\ Writable(m, "server") = Writable(n, "server")
         /\ m.server.events = n.server.events /\ m.server.closed = n.server.closed
         /\ m.server.in = IF n.server.closed THEN n.server.in ELSE n.server.in \o u
<1>1. n["client"] = n.client /\ n["server"] = n.server /\ Peer("client") = "server"
  BY DEF Peer
<1>2. CASE n.server.closed
  <2>1. m = [n EXCEPT !["client"].rst = TRUE]
    BY <1>1, <1>2 DEF Reaches
  <2>. QED BY <2>1, <1>2 DEF Links, Endpoints, Writable
<1>3. CASE ~n.server.closed
  <2>1. m = [n EXCEPT !["server"].in = @ \o u]
    BY <1>1, <1>3 DEF Reaches
  <2>2. n.server.in \o u \in Seq(UpUnits)
    BY DEF Links, Endpoints
  <2>. QED BY <2>1, <2>2, <1>3 DEF Links, Endpoints, Writable
<1>. QED BY <1>2, <1>3

LEMMA HangUpOf ==
  ASSUME NEW n \in Links, NEW m, m = CloseHandle(n, "client")
  PROVE  /\ m \in Links /\ m.client.in = <<>> /\ m.client.closed
         /\ Writable(m, "server") = Writable(n, "server")
         /\ m.server.events = n.server.events /\ m.server.closed = n.server.closed
         /\ m.server.in = n.server.in
<1>1. n["client"] = n.client /\ n["server"] = n.server /\ Peer("client") = "server"
  BY DEF Peer
<1>2. PICK c : c = [n.client EXCEPT !.closed = TRUE, !.in = <<>>]
  OBVIOUS
<1>3. c \in Endpoints(DownUnits) /\ c.closed /\ c.in = <<>>
  <2>1. <<>> \in Seq(DownUnits)
    OBVIOUS
  <2>. QED BY <1>2, <2>1 DEF Links, Endpoints
<1>4. \A b \in BOOLEAN : [n.server EXCEPT !.fin = TRUE, !.rst = b] \in Endpoints(UpUnits)
  BY DEF Links, Endpoints
<1>5. \E b \in BOOLEAN : m = [client |-> c, server |-> [n.server EXCEPT !.fin = TRUE, !.rst = b]]
  <2>1. PICK shut : shut = [n EXCEPT !["client"].closed = TRUE, !["client"].in = <<>>,
                                     !["server"].fin = TRUE]
    OBVIOUS
  <2>2. shut = [server |-> [n.server EXCEPT !.fin = TRUE], client |-> c]
    BY <1>2, <2>1 DEF Links, Endpoints
  <2>3. m = shut \/ m = [shut EXCEPT !["server"].rst = TRUE]
    BY <1>1, <2>1 DEF CloseHandle
  <2>4. shut = [server |-> [n.server EXCEPT !.fin = TRUE, !.rst = n.server.rst], client |-> c]
    BY <2>2 DEF Links, Endpoints
  <2>5. [shut EXCEPT !["server"].rst = TRUE]
          = [server |-> [n.server EXCEPT !.fin = TRUE, !.rst = TRUE], client |-> c]
    BY <2>2 DEF Links, Endpoints
  <2>. QED BY <2>3, <2>4, <2>5 DEF Links, Endpoints
<1>6. PICK b \in BOOLEAN : m = [client |-> c, server |-> [n.server EXCEPT !.fin = TRUE, !.rst = b]]
  BY <1>5
<1>7. PICK s : s = [n.server EXCEPT !.fin = TRUE, !.rst = b]
  OBVIOUS
<1>8. /\ s \in Endpoints(UpUnits) /\ s.in = n.server.in /\ s.closed = n.server.closed
      /\ s.events = n.server.events /\ s.ended = n.server.ended
  BY <1>7 DEF Links, Endpoints
<1>9. m = [client |-> c, server |-> s]
  BY <1>6, <1>7
<1>. QED BY <1>3, <1>8, <1>9 DEF Links, Writable

-------------------------------------------------------------------------------
Codes == {"none", "own", "peer", "failed", "cut", "revoked"}
Data == Seq(Nat) \union {<<code>> : code \in Codes}
        \union {<<code, clean>> : code \in Codes, clean \in BOOLEAN}
Told == [type : {"connection", "open", "message", "error", "close"}, data : Data]

Servers == [ws : BOOLEAN, header : Seq(UpUnits), recv : Seq(UpUnits), feeding : BOOLEAN,
            failing : BOOLEAN,
            readyState : {"none", "open", "closing", "closed"}, frag : {<<>>, <<1>>},
            closeSent : BOOLEAN, closeRcvd : BOOLEAN, initiated : BOOLEAN, code : Codes,
            timer : BOOLEAN, told : Seq(Told), sent : Seq(1 .. MaxDown)]
Clients == [readyState : {"connecting", "open", "closing", "closed"}, id : BOOLEAN,
            promise : {"pending", "resolved", "rejected", "dropped", "done"},
            told : Seq(Told), native : {"connecting", "open", "closing", "closed", "gone"},
            inbox : Seq(Seq(Nat)), partial : Seq(Nat), error : BOOLEAN, code : Codes,
            closedSweeps : Nat, pc : {"idle", "drain", "poll", "drain again"},
            established : BOOLEAN, sent : Seq(1 .. MaxUp)]
Conversations == [net : Links, srv : Servers, cli : Clients, clients : BOOLEAN, fault : BOOLEAN]

-------------------------------------------------------------------------------
(* Counting messages.                                                        *)

LEMMA MessagesFinite ==
  ASSUME NEW told \in Seq(Told)
  PROVE  /\ IsFiniteSet(Messages(told)) /\ Cardinality(Messages(told)) \in Nat
         /\ \A i \in Messages(told) : Number(told, i) <= Cardinality(Messages(told))
<1>1. IsFiniteSet(1 .. Len(told))
  BY FS_Interval
<1>2. Messages(told) \in SUBSET (1 .. Len(told))
  BY DEF Messages
<1>3. IsFiniteSet(Messages(told))
  BY <1>1, <1>2, FS_Subset
<1>4. ASSUME NEW i \in Messages(told)
      PROVE  Number(told, i) <= Cardinality(Messages(told))
  <2>1. {j \in 1 .. i : told[j].type = "message"} \in SUBSET Messages(told)
    BY <1>4 DEF Messages
  <2>. QED BY <1>3, <2>1, FS_Subset DEF Number
<1>. QED BY <1>3, <1>4, FS_CardinalityType

\* One event more.
LEMMA AppendedEvent ==
  ASSUME NEW told \in Seq(Told), NEW e \in Told, NEW next, next = Append(told, e)
  PROVE  /\ Len(next) = Len(told) + 1 /\ next[Len(told) + 1] = e
         /\ DOMAIN next = 1 .. Len(told) + 1 /\ DOMAIN told = 1 .. Len(told)
         /\ \A i \in 1 .. Len(told) : next[i] = told[i]
OBVIOUS

LEMMA OthersAppended ==
  ASSUME NEW told \in Seq(Told), NEW e \in Told, e.type # "message"
  PROVE  Messages(Append(told, e)) = Messages(told)
BY AppendedEvent DEF Messages

LEMMA MessagesAppended ==
  ASSUME NEW told \in Seq(Told), NEW e \in Told, e.type = "message"
  PROVE  /\ Messages(Append(told, e)) = Messages(told) \union {Len(told) + 1}
         /\ Cardinality(Messages(Append(told, e))) = Cardinality(Messages(told)) + 1
         /\ Number(Append(told, e), Len(told) + 1) = Cardinality(Messages(told)) + 1
<1>1. PICK next : next = Append(told, e)
  OBVIOUS
<1>2. /\ Len(next) = Len(told) + 1 /\ next[Len(told) + 1] = e
      /\ DOMAIN next = 1 .. Len(told) + 1 /\ DOMAIN told = 1 .. Len(told)
      /\ \A i \in 1 .. Len(told) : next[i] = told[i]
  BY <1>1, AppendedEvent
<1>3. Messages(next) = Messages(told) \union {Len(told) + 1}
  BY <1>2 DEF Messages
<1>4. Len(told) + 1 \notin Messages(told)
  BY <1>2 DEF Messages
<1>5. Cardinality(Messages(next)) = Cardinality(Messages(told)) + 1
  BY <1>3, <1>4, MessagesFinite, FS_AddElement
<1>6. Number(next, Len(told) + 1) = Cardinality(Messages(next))
  BY <1>2 DEF Number, Messages
<1>. QED BY <1>1, <1>3, <1>5, <1>6

LEMMA NumbersStay ==
  ASSUME NEW told \in Seq(Told), NEW e \in Told, NEW i \in Messages(told)
  PROVE  Append(told, e)[i] = told[i] /\ Number(Append(told, e), i) = Number(told, i)
<1>1. PICK next : next = Append(told, e)
  OBVIOUS
<1>2. DOMAIN told = 1 .. Len(told) /\ \A j \in 1 .. Len(told) : next[j] = told[j]
  BY <1>1, AppendedEvent
<1>3. i \in 1 .. Len(told)
  BY <1>2 DEF Messages
<1>4. {j \in 1 .. i : next[j].type = "message"} = {j \in 1 .. i : told[j].type = "message"}
  BY <1>2, <1>3
<1>. QED BY <1>1, <1>2, <1>3, <1>4 DEF Number

LEMMA AsSentQuiet ==
  ASSUME NEW told \in Seq(Told), NEW e \in Told, e.type # "message", NEW sent, AsSent(told, sent)
  PROVE  AsSent(Append(told, e), sent)
BY OthersAppended, NumbersStay DEF AsSent

LEMMA AsSentNext ==
  ASSUME NEW told \in Seq(Told), NEW e \in Told, e.type = "message", NEW sent, AsSent(told, sent),
         NEW n, n = Cardinality(Messages(told)) + 1, n \in DOMAIN sent, e.data = <<sent[n]>>
  PROVE  AsSent(Append(told, e), sent)
<1>1. /\ Messages(Append(told, e)) = Messages(told) \union {Len(told) + 1}
      /\ Number(Append(told, e), Len(told) + 1) = n
  BY MessagesAppended
<1>2. \A i \in Messages(told) : /\ Append(told, e)[i] = told[i]
                                /\ Number(Append(told, e), i) = Number(told, i)
  BY NumbersStay
<1>3. Append(told, e)[Len(told) + 1] = e
  OBVIOUS
<1>. QED BY <1>1, <1>2, <1>3 DEF AsSent

LEMMA AsSentMore ==
  ASSUME NEW told, NEW S, NEW sent \in Seq(S), NEW piece, AsSent(told, sent)
  PROVE  AsSent(told, Append(sent, piece))
BY DEF AsSent

-------------------------------------------------------------------------------
(* The invariant.  v is the server's socket, u the client's, s the server's   *)
(* end of the connection and l the connection.                                *)

\* What the server may be told of a message.
Whole == {<<n>> : n \in 1 .. MaxUp} \union {<<1, 2>>}

\* What the server's program was told, and what it still will be.
ServerOrder(v, s) ==
  /\ EventsOrdered(s)
  /\ v.readyState = "closed" => /\ s.closed /\ s.events = <<>>
                                /\ ~v.feeding /\ ~v.failing /\ ~v.timer
  /\ v.feeding \/ v.failing => v.ws
  /\ v.ws => v.header = <<>> /\ v.readyState # "none"
  /\ ~v.ws => /\ v.readyState = "none" /\ ~v.closeSent /\ ~v.closeRcvd /\ v.recv = <<>>
              /\ v.told = <<>> /\ v.sent = <<>> /\ v.frag = <<>> /\ ~v.timer
  /\ \A i \in DOMAIN v.told :
       /\ v.told[i].type = "close" => i = Len(v.told) /\ v.readyState = "closed"
       /\ v.told[i].type = "message" => v.told[i].data \in Whole

\* One close frame, after which the server writes no more.
OneCloseFrame(v, wire) ==
  /\ v.closeSent => v.readyState # "open"
  /\ \A i \in DOMAIN wire : wire[i].frame.op = "close" => v.closeSent /\ i >= Len(wire) - 1

\* What the WebSocket was told: its opening, until its promise has its reaction.
ClientOrder(u) ==
  /\ u.native = "connecting" =>
        /\ u.told = <<>> /\ u.promise = "pending" /\ u.readyState = "connecting"
        /\ ~u.established /\ u.inbox = <<>> /\ u.partial = <<>> /\ u.sent = <<>>
        /\ u.code = "none" /\ ~u.error
  /\ u.established =>
        /\ u.promise \in {"resolved", "done"}
        /\ \A i \in DOMAIN u.told : u.told[i].type = "close" =>
              i = Len(u.told) /\ u.native = "gone" /\ u.readyState = "closed"
        /\ \A i, j \in DOMAIN u.told : u.told[i].type = "open" /\ u.told[j].type = "open" => i = j
        /\ u.promise = "resolved" => \A i \in DOMAIN u.told : u.told[i].type # "open"
  /\ ~u.established => /\ u.inbox = <<>> /\ u.native \notin {"open", "closing"}
                       /\ u.code # "peer" /\ Messages(u.told) = {}

\* The k-th unit that one end writes to the other, if both are of this library.
UnitOf(first, sent, k) ==
  [frame |-> IF k <= 2 THEN Frame(first, 0, TRUE)
             ELSE IF k <= 2 + 2 * Len(sent) THEN Frame("data", sent[(k - 1) \div 2], TRUE)
             ELSE Frame("close", 0, TRUE),
   half |-> IF k % 2 = 1 THEN 1 ELSE 2]

\* A stream of which n units have been taken has these left.
Follows(units, first, sent, n) ==
  \A j \in DOMAIN units : units[j] = UnitOf(first, sent, n + j)

\* The client's units that the server has not parsed, and how many it has.
Upstream(v, s) == v.header \o v.recv \o Queued(s) \o s.in
Served(v) == Cardinality(Messages(v.told))
UpRead(v) == IF v.ws THEN 2 + 2 * Served(v) + (IF v.closeRcvd THEN 2 ELSE 0) ELSE 0

Up(v, u, s) ==
  LET n == UpRead(v)
      left == Len(Upstream(v, s))
      all == 2 + 2 * Len(u.sent)
  IN  /\ Follows(Upstream(v, s), "upgrade", u.sent, n)
      /\ n + left <= all + 2
      /\ u.native \in {"connecting", "open"} => n + left <= all
      /\ ~s.closed => n + left >= all
      /\ v.closeRcvd => Served(v) = Len(u.sent) /\ u.native \notin {"connecting", "open"}
      /\ v.frag = <<>>
      /\ AsSent(v.told, u.sent)
      /\ ToldClose(v.told, <<"peer", TRUE>>) => v.closeRcvd

\* The messages the WebSocket has been told or will be; the server's units that it
\* has not received follow the n it has.
Taken(u) == Cardinality(Messages(u.told)) + Len(u.inbox)
DownRead(u) == IF u.native = "connecting" THEN 0 ELSE 2 + 2 * Taken(u) + Len(u.partial)
Live(u) == u.native \in {"connecting", "open", "closing"}

DownFrom(v, u, l, n) ==
  LET wire == l.client.in
      all == 2 + 2 * Len(v.sent)
  IN  /\ n = DownRead(u) \/ (/\ n = all + 1 /\ u.native # "connecting" /\ v.closeSent
                             /\ Taken(u) = Len(v.sent) /\ u.partial = <<>>)
      /\ u.partial # <<>> => /\ Taken(u) + 1 \in DOMAIN v.sent
                             /\ u.partial = <<v.sent[Taken(u) + 1]>>
      /\ Follows(wire, "101", v.sent, n)
      /\ n + Len(wire) <= all + 2
      /\ ~v.closeSent => n + Len(wire) <= all
      /\ \/ n + Len(wire) >= all
         \/ n = 0 /\ wire = <<>> /\ v.sent = <<>> /\ (v.ws => ~Writable(l, "server"))
      /\ ~v.ws => n = 0 /\ wire = <<>>

Down(v, u, l) ==
  /\ AsSent(u.told, v.sent)
  /\ \A i \in DOMAIN u.inbox :
        LET n == Cardinality(Messages(u.told)) + i
        IN  n \in DOMAIN v.sent /\ u.inbox[i] = <<v.sent[n]>>
  /\ Taken(u) <= Len(v.sent)
  /\ u.code = "peer" => Taken(u) = Len(v.sent) /\ v.closeSent /\ ~Live(u)
  /\ ToldClose(u.told, <<"peer">>) => u.code = "peer" /\ u.inbox = <<>> /\ u.native = "gone"
  /\ Live(u) => \E n \in Nat : DownFrom(v, u, l, n)

\* All of it but Up.
Kept(p, c) ==
  /\ c \in Conversations
  /\ ServerOrder(c.srv, c.net.server)
  /\ OneCloseFrame(c.srv, c.net.client.in)
  /\ ClientOrder(c.cli)
  /\ p = "raw" => c.cli = NewClientSocket
  /\ p = "curl" => /\ c.net.client.closed => c.cli.native \in {"closed", "gone"}
                   /\ Down(c.srv, c.cli, c.net)

-------------------------------------------------------------------------------
\* A field of a conversation replaced.
LEMMA NetOf ==
  ASSUME NEW c \in Conversations, NEW m \in Links, NEW d, d = [c EXCEPT !.net = m]
  PROVE  /\ d \in Conversations /\ d.net = m /\ d.srv = c.srv /\ d.cli = c.cli
         /\ d.clients = c.clients /\ d.fault = c.fault
BY DEF Conversations

LEMMA SrvOf ==
  ASSUME NEW c \in Conversations, NEW v \in Servers, NEW d, d = [c EXCEPT !.srv = v]
  PROVE  /\ d \in Conversations /\ d.net = c.net /\ d.srv = v /\ d.cli = c.cli
         /\ d.clients = c.clients /\ d.fault = c.fault
BY DEF Conversations

LEMMA CliOf ==
  ASSUME NEW c \in Conversations, NEW u \in Clients, NEW d, d = [c EXCEPT !.cli = u]
  PROVE  /\ d \in Conversations /\ d.net = c.net /\ d.srv = c.srv /\ d.cli = u
         /\ d.clients = c.clients /\ d.fault = c.fault
BY DEF Conversations

\* What the parts of the invariant depend on.
LEMMA DownSame ==
  ASSUME NEW v, NEW v2, NEW u, NEW l, NEW l2, Down(v, u, l),
         v2.sent = v.sent, v2.closeSent = v.closeSent, v2.ws = v.ws,
         l2.client.in = l.client.in, Writable(l2, "server") => Writable(l, "server")
  PROVE  Down(v2, u, l2)
<1>1. \A n \in Nat : DownFrom(v, u, l, n) => DownFrom(v2, u, l2, n)
  BY DEF DownFrom
<1>. QED BY <1>1 DEF Down

LEMMA UpSame ==
  ASSUME NEW v, NEW v2, NEW u, NEW u2, NEW s, NEW s2, Up(v, u, s),
         v2.header = v.header, v2.recv = v.recv, v2.ws = v.ws, v2.told = v.told,
         v2.closeRcvd = v.closeRcvd, v2.frag = v.frag,
         u2.sent = u.sent, u2.native = u.native,
         s2.in = s.in, Queued(s2) = Queued(s), s2.closed = s.closed
  PROVE  Up(v2, u2, s2)
<1>1. /\ Upstream(v2, s2) = Upstream(v, s) /\ UpRead(v2) = UpRead(v) /\ Served(v2) = Served(v)
  BY DEF Upstream, UpRead, Served
<1>. QED BY <1>1 DEF Up

-------------------------------------------------------------------------------
\* The server's end of the connection ends.
LEMMA EndsOrder ==
  ASSUME NEW v, NEW n \in Links, NEW m, Ends(n, m), ServerOrder(v, n.server)
  PROVE  ServerOrder(v, m.server) /\ Queued(m.server) = Queued(n.server)
<1>1. n.server.events \in Seq(SocketEvents)
  BY DEF Links, Endpoints
<1>2. CASE m.server.events = n.server.events /\ m.server.closed = n.server.closed
  BY <1>2 DEF ServerOrder, EventsOrdered, Queued
<1>3. CASE /\ ~n.server.closed /\ m.server.closed
           /\ m.server.events \in {Append(n.server.events, SocketEvent("close")),
                                   Append(Append(n.server.events, SocketEvent("error")),
                                          SocketEvent("close"))}
  <2>1. PICK x \in {<<SocketEvent("close")>>, <<SocketEvent("error"), SocketEvent("close")>>} :
          m.server.events = n.server.events \o x
    <3>1. \A evs \in Seq(SocketEvents) : \A e, f \in SocketEvents :
             /\ Append(evs, e) = evs \o <<e>>
             /\ Append(Append(evs, e), f) = evs \o <<e, f>>
      OBVIOUS
    <3>. QED BY <1>1, <1>3, <3>1, EventTyped
  <2>2. Ending(x)
    BY EndingsEnd DEF Endings
  <2>3. PICK evs \in Seq(SocketEvents) : evs = n.server.events
    BY <1>1
  <2>4. \A i \in DOMAIN evs : evs[i].type # "close" /\ (evs[i].type = "data" => i = 1 /\ evs[i].data # <<>>)
    BY <1>3, <2>3 DEF ServerOrder, EventsOrdered
  <2>5. /\ Len(evs \o x) = Len(evs) + Len(x)
        /\ \A i \in DOMAIN (evs \o x) : IF i <= Len(evs) THEN i \in DOMAIN evs /\ (evs \o x)[i] = evs[i]
                                        ELSE /\ i - Len(evs) \in DOMAIN x
                                             /\ (evs \o x)[i] = x[i - Len(evs)]
    BY <2>2 DEF Ending
  <2>6. EventsOrdered(m.server)
    <3>1. PICK all : all = evs \o x
      OBVIOUS
    <3>2. m.server.events = all /\ m.server.closed
      BY <1>3, <2>1, <2>3, <3>1
    <3>3. \A i \in DOMAIN all : /\ all[i].type = "close" => i = Len(all)
                                /\ all[i].type = "data" => i = 1 /\ all[i].data # <<>>
      BY <2>2, <2>4, <2>5, <3>1 DEF Ending
    <3>. QED BY <3>2, <3>3 DEF EventsOrdered
  <2>7. Queued(m.server) = Queued(n.server)
    <3>1. CASE evs = <<>>
      <4>1. m.server.events = x
        BY <2>1, <2>2, <2>3, <3>1 DEF Ending
      <4>. QED BY <2>2, <2>3, <3>1, <4>1 DEF Queued, Ending
    <3>2. CASE evs # <<>>
      <4>1. m.server.events # <<>> /\ m.server.events[1] = evs[1]
        BY <2>1, <2>2, <2>3, <3>2 DEF Ending
      <4>. QED BY <2>3, <3>2, <4>1 DEF Queued
    <3>. QED BY <3>1, <3>2
  <2>8. v.readyState # "closed"
    BY <1>3 DEF ServerOrder
  <2>. QED BY <2>6, <2>7, <2>8 DEF ServerOrder
<1>. QED BY <1>2, <1>3 DEF Ends

LEMMA EndsKept ==
  ASSUME NEW p, NEW c, Kept(p, c), NEW m, Ends(c.net, m), NEW d, d = [c EXCEPT !.net = m]
  PROVE  /\ Kept(p, d) /\ d.net = m /\ d.srv = c.srv /\ d.cli = c.cli
<1>1. c \in Conversations /\ c.net \in Links /\ m \in Links
  BY DEF Kept, Conversations, Ends
<1>2. /\ d \in Conversations /\ d.net = m /\ d.srv = c.srv /\ d.cli = c.cli
  BY <1>1, NetOf
<1>3. m.client.in = c.net.client.in /\ m.client.closed = c.net.client.closed
      /\ (Writable(m, "server") => Writable(c.net, "server"))
  BY DEF Ends
<1>4. ServerOrder(d.srv, d.net.server)
  BY <1>1, <1>2, EndsOrder DEF Kept
<1>5. p = "curl" => Down(d.srv, d.cli, d.net)
  <2>. SUFFICES ASSUME p = "curl" PROVE Down(d.srv, d.cli, d.net)
    OBVIOUS
  <2>1. Down(c.srv, c.cli, c.net)
    BY DEF Kept
  <2>. QED BY <1>2, <1>3, <2>1, DownSame
<1>. QED BY <1>2, <1>3, <1>4, <1>5 DEF Kept

LEMMA ServerFields ==
  ASSUME NEW v \in Servers
  PROVE  /\ v.header \in Seq(UpUnits) /\ v.recv \in Seq(UpUnits) /\ v.told \in Seq(Told)
         /\ v.sent \in Seq(1 .. MaxDown) /\ v.closeSent \in BOOLEAN /\ v.closeRcvd \in BOOLEAN
         /\ v.ws \in BOOLEAN /\ v.frag \in {<<>>, << 1 >>}
BY DEF Servers

LEMMA ClientFields ==
  ASSUME NEW u \in Clients
  PROVE  /\ u.told \in Seq(Told) /\ u.inbox \in Seq(Seq(Nat)) /\ u.partial \in Seq(Nat)
         /\ u.sent \in Seq(1 .. MaxUp)
BY DEF Clients

LEMMA Counts ==
  ASSUME NEW v \in Servers, NEW u \in Clients
  PROVE  /\ Served(v) \in Nat /\ UpRead(v) \in Nat /\ Taken(u) \in Nat /\ DownRead(u) \in Nat
         /\ Len(u.sent) \in Nat /\ Len(v.sent) \in Nat
         /\ Cardinality(Messages(u.told)) \in Nat /\ Len(u.inbox) \in Nat /\ Len(u.partial) \in Nat
<1>1. v.told \in Seq(Told) /\ v.sent \in Seq(1 .. MaxDown)
  BY ServerFields
<1>2. /\ u.told \in Seq(Told) /\ u.inbox \in Seq(Seq(Nat)) /\ u.partial \in Seq(Nat)
      /\ u.sent \in Seq(1 .. MaxUp)
  BY ClientFields
<1>3. Cardinality(Messages(v.told)) \in Nat /\ Cardinality(Messages(u.told)) \in Nat
  BY <1>1, <1>2, MessagesFinite
<1>4. Len(u.sent) \in Nat /\ Len(v.sent) \in Nat /\ Len(u.inbox) \in Nat /\ Len(u.partial) \in Nat
  BY <1>1, <1>2
<1>5. Served(v) \in Nat /\ Taken(u) \in Nat
  BY <1>3, <1>4 DEF Served, Taken
<1>6. UpRead(v) \in Nat
  BY <1>5 DEF UpRead
<1>7. DownRead(u) \in Nat
  BY <1>4, <1>5 DEF DownRead
<1>. QED BY <1>3, <1>4, <1>5, <1>6, <1>7

LEMMA QueuedTyped ==
  ASSUME NEW n \in Links
  PROVE  Queued(n.server) \in Seq(UpUnits)
<1>1. n.server.events \in Seq(SocketEvents)
  BY DEF Links, Endpoints
<1>2. CASE n.server.events = <<>>
  BY <1>2 DEF Queued
<1>3. CASE n.server.events # <<>>
  <2>1. n.server.events[1] \in SocketEvents
    BY <1>1, <1>3
  <2>. QED BY <2>1 DEF Queued, SocketEvents
<1>. QED BY <1>2, <1>3

LEMMA EndsUp ==
  ASSUME NEW v \in Servers, NEW u \in Clients, NEW n \in Links, NEW m, Ends(n, m),
         NEW x, ServerOrder(x, n.server), Up(v, u, n.server)
  PROVE  Up(v, u, m.server)
<1>1. Queued(m.server) = Queued(n.server)
  BY EndsOrder
<1>2. CASE m.server.in = n.server.in /\ m.server.closed = n.server.closed
  BY <1>1, <1>2, UpSame
<1>3. CASE m.server.in = <<>> /\ m.server.closed
  <2>1. PICK before \in Seq(UpUnits) : before = v.header \o v.recv \o Queued(n.server)
    <3>1. Queued(n.server) \in Seq(UpUnits)
      BY QueuedTyped
    <3>2. v.header \in Seq(UpUnits) /\ v.recv \in Seq(UpUnits)
      BY ServerFields
    <3>3. v.header \o v.recv \o Queued(n.server) \in Seq(UpUnits)
      BY <3>1, <3>2
    <3>. QED BY <3>3
  <2>2. Upstream(v, n.server) = before \o n.server.in /\ n.server.in \in Seq(UpUnits)
    BY <2>1 DEF Upstream, Links, Endpoints
  <2>3. Upstream(v, m.server) = before
    BY <1>1, <1>3, <2>1 DEF Upstream
  <2>4. /\ Len(before) <= Len(before \o n.server.in)
        /\ \A j \in DOMAIN before : j \in DOMAIN (before \o n.server.in) /\ (before \o n.server.in)[j] = before[j]
    BY <2>2
  <2>5. UpRead(v) \in Nat /\ 2 + 2 * Len(u.sent) \in Nat /\ Len(before) \in Nat
        /\ Len(before \o n.server.in) \in Nat
    BY <2>2, Counts
  <2>6. Follows(before, "upgrade", u.sent, UpRead(v))
    BY <2>2, <2>4 DEF Up, Follows
  <2>. QED BY <1>3, <2>2, <2>3, <2>4, <2>5, <2>6 DEF Up
<1>. QED BY <1>2, <1>3 DEF Ends

-------------------------------------------------------------------------------
(* Streams.                                                                  *)

LEMMA Halves ==
  ASSUME NEW k \in Nat
  PROVE  /\ (2 * k + 1) % 2 = 1 /\ (2 * k + 2) % 2 = 0
         /\ (2 * k) \div 2 = k /\ (2 * k + 1) \div 2 = k
OBVIOUS

\* The units of the first frame, of a message and of what comes after the last.
LEMMA FirstUnits ==
  ASSUME NEW first, NEW sent
  PROVE  /\ UnitOf(first, sent, 1) = [frame |-> Frame(first, 0, TRUE), half |-> 1]
         /\ UnitOf(first, sent, 2) = [frame |-> Frame(first, 0, TRUE), half |-> 2]
BY DEF UnitOf

LEMMA DataUnits ==
  ASSUME NEW first, NEW sent, Len(sent) \in Nat, NEW k \in 1 .. Len(sent)
  PROVE  /\ UnitOf(first, sent, 2 * k + 1) = [frame |-> Frame("data", sent[k], TRUE), half |-> 1]
         /\ UnitOf(first, sent, 2 * k + 2) = [frame |-> Frame("data", sent[k], TRUE), half |-> 2]
<1>1. PICK a, b \in Nat : a = 2 * k + 1 /\ b = 2 * k + 2
  OBVIOUS
<1>2. /\ a % 2 = 1 /\ b % 2 # 1 /\ (a - 1) \div 2 = k /\ (b - 1) \div 2 = k
  BY <1>1, Halves
<1>3. ~(a <= 2) /\ a <= 2 + 2 * Len(sent) /\ ~(b <= 2) /\ b <= 2 + 2 * Len(sent)
  BY <1>1
<1>. QED BY <1>1, <1>2, <1>3 DEF UnitOf

LEMMA CloseUnits ==
  ASSUME NEW first, NEW sent, Len(sent) \in Nat, NEW k \in Nat, k > Len(sent)
  PROVE  /\ UnitOf(first, sent, 2 * k + 1) = [frame |-> Frame("close", 0, TRUE), half |-> 1]
         /\ UnitOf(first, sent, 2 * k + 2) = [frame |-> Frame("close", 0, TRUE), half |-> 2]
<1>1. PICK a, b \in Nat : a = 2 * k + 1 /\ b = 2 * k + 2
  OBVIOUS
<1>2. a % 2 = 1 /\ b % 2 # 1
  BY <1>1, Halves
<1>3. ~(a <= 2) /\ ~(a <= 2 + 2 * Len(sent)) /\ ~(b <= 2) /\ ~(b <= 2 + 2 * Len(sent))
  BY <1>1
<1>. QED BY <1>1, <1>2, <1>3 DEF UnitOf

\* Two units more at the end.
LEMMA TwoMore ==
  ASSUME NEW U, NEW units \in Seq(U), NEW f
  PROVE  /\ Len(units \o Units(f)) = Len(units) + 2
         /\ \A j \in 1 .. Len(units) : (units \o Units(f))[j] = units[j]
         /\ (units \o Units(f))[Len(units) + 1] = [frame |-> f, half |-> 1]
         /\ (units \o Units(f))[Len(units) + 2] = [frame |-> f, half |-> 2]
         /\ DOMAIN (units \o Units(f)) = 1 .. Len(units) + 2 /\ DOMAIN units = 1 .. Len(units)
BY DEF Units

LEMMA FollowsFirst ==
  ASSUME NEW first, NEW sent
  PROVE  Follows(Units(Frame(first, 0, TRUE)), first, sent, 0)
<1>1. /\ UnitOf(first, sent, 1) = [frame |-> Frame(first, 0, TRUE), half |-> 1]
      /\ UnitOf(first, sent, 2) = [frame |-> Frame(first, 0, TRUE), half |-> 2]
  BY FirstUnits
<1>2. PICK units : units = Units(Frame(first, 0, TRUE))
  OBVIOUS
<1>3. /\ DOMAIN units = {1, 2} /\ units[1] = [frame |-> Frame(first, 0, TRUE), half |-> 1]
      /\ units[2] = [frame |-> Frame(first, 0, TRUE), half |-> 2]
  BY <1>2 DEF Units
<1>4. \A j \in DOMAIN units : units[j] = UnitOf(first, sent, 0 + j)
  <2>1. 0 + 1 = 1 /\ 0 + 2 = 2
    OBVIOUS
  <2>. QED BY <1>1, <1>3, <2>1
<1>. QED BY <1>2, <1>4 DEF Follows

LEMMA FollowsClose ==
  ASSUME NEW U, NEW units \in Seq(U), NEW first, NEW S, NEW sent \in Seq(S), NEW n \in Nat,
         Follows(units, first, sent, n), n + Len(units) = 2 + 2 * Len(sent)
  PROVE  Follows(units \o Units(Frame("close", 0, TRUE)), first, sent, n)
<1>1. PICK all : all = units \o Units(Frame("close", 0, TRUE))
  OBVIOUS
<1>n. Len(units) \in Nat /\ Len(sent) \in Nat
  OBVIOUS
<1>0. /\ DOMAIN all = 1 .. Len(units) + 2
      /\ DOMAIN units = 1 .. Len(units) /\ \A j \in 1 .. Len(units) : all[j] = units[j]
      /\ all[Len(units) + 1] = [frame |-> Frame("close", 0, TRUE), half |-> 1]
      /\ all[Len(units) + 2] = [frame |-> Frame("close", 0, TRUE), half |-> 2]
  <2>1. PICK f : f = Frame("close", 0, TRUE)
    OBVIOUS
  <2>2. /\ DOMAIN (units \o Units(f)) = 1 .. Len(units) + 2
        /\ DOMAIN units = 1 .. Len(units) 
        /\ \A j \in 1 .. Len(units) : (units \o Units(f))[j] = units[j]
        /\ (units \o Units(f))[Len(units) + 1] = [frame |-> f, half |-> 1]
        /\ (units \o Units(f))[Len(units) + 2] = [frame |-> f, half |-> 2]
    BY TwoMore
  <2>. QED BY <1>1, <2>1, <2>2
<1>2. PICK k \in Nat : k = 1 + Len(sent)
  BY <1>n
<1>3. /\ UnitOf(first, sent, 2 * k + 1) = [frame |-> Frame("close", 0, TRUE), half |-> 1]
      /\ UnitOf(first, sent, 2 * k + 2) = [frame |-> Frame("close", 0, TRUE), half |-> 2]
  <2>1. k > Len(sent) /\ Len(sent) \in Nat
    BY <1>0, <1>2
  <2>. QED BY <2>1, CloseUnits
<1>4. n + (Len(units) + 1) = 2 * k + 1 /\ n + (Len(units) + 2) = 2 * k + 2
  BY <1>n, <1>2
<1>5. ASSUME NEW j \in DOMAIN all
      PROVE  all[j] = UnitOf(first, sent, n + j)
  <2>1. j \in 1 .. Len(units) \/ j = Len(units) + 1 \/ j = Len(units) + 2
    BY <1>n, <1>0, <1>5
  <2>. QED BY <1>0, <1>3, <1>4, <2>1 DEF Follows
<1>. QED BY <1>1, <1>5 DEF Follows

LEMMA FollowsData ==
  ASSUME NEW U, NEW units \in Seq(U), NEW first, NEW S, NEW sent \in Seq(S), NEW piece \in S,
         NEW n \in Nat, Follows(units, first, sent, n), n + Len(units) = 2 + 2 * Len(sent)
  PROVE  Follows(units \o Units(Frame("data", piece, TRUE)), first, Append(sent, piece), n)
<1>1. PICK all : all = units \o Units(Frame("data", piece, TRUE))
  OBVIOUS
<1>n. Len(units) \in Nat /\ Len(sent) \in Nat
  OBVIOUS
<1>0. /\ DOMAIN all = 1 .. Len(units) + 2
      /\ DOMAIN units = 1 .. Len(units) /\ \A j \in 1 .. Len(units) : all[j] = units[j]
      /\ all[Len(units) + 1] = [frame |-> Frame("data", piece, TRUE), half |-> 1]
      /\ all[Len(units) + 2] = [frame |-> Frame("data", piece, TRUE), half |-> 2]
  <2>1. PICK f : f = Frame("data", piece, TRUE)
    OBVIOUS
  <2>2. /\ DOMAIN (units \o Units(f)) = 1 .. Len(units) + 2
        /\ DOMAIN units = 1 .. Len(units) 
        /\ \A j \in 1 .. Len(units) : (units \o Units(f))[j] = units[j]
        /\ (units \o Units(f))[Len(units) + 1] = [frame |-> f, half |-> 1]
        /\ (units \o Units(f))[Len(units) + 2] = [frame |-> f, half |-> 2]
    BY TwoMore
  <2>. QED BY <1>1, <2>1, <2>2
<1>2. PICK k \in Nat : k = 1 + Len(sent)
  BY <1>n
<1>3. PICK more : more = Append(sent, piece)
  OBVIOUS
<1>4. Len(more) \in Nat /\ k \in 1 .. Len(more) /\ Len(more) = k /\ more[k] = piece /\ \A i \in 1 .. Len(sent) : more[i] = sent[i]
  BY <1>2, <1>3
<1>5. /\ UnitOf(first, more, 2 * k + 1) = [frame |-> Frame("data", piece, TRUE), half |-> 1]
      /\ UnitOf(first, more, 2 * k + 2) = [frame |-> Frame("data", piece, TRUE), half |-> 2]
  <2>1. /\ UnitOf(first, more, 2 * k + 1) = [frame |-> Frame("data", more[k], TRUE), half |-> 1]
        /\ UnitOf(first, more, 2 * k + 2) = [frame |-> Frame("data", more[k], TRUE), half |-> 2]
    <3>1. Len(more) \in Nat /\ k \in 1 .. Len(more)
      BY <1>4
    <3>. QED BY <3>1, DataUnits
  <2>. QED BY <1>4, <2>1
<1>6. n + (Len(units) + 1) = 2 * k + 1 /\ n + (Len(units) + 2) = 2 * k + 2
  BY <1>n, <1>2
<1>7. ASSUME NEW j \in 1 .. Len(units)
      PROVE  UnitOf(first, more, n + j) = UnitOf(first, sent, n + j)
  <2>1. PICK m \in Nat : m = n + j
    OBVIOUS
  <2>2. m <= 2 + 2 * Len(sent) /\ m <= 2 + 2 * Len(more) /\ m > 0
    BY <1>2, <1>4, <2>1
  <2>3. ~(m <= 2) => (m - 1) \div 2 \in 1 .. Len(sent)
    BY <2>2
  <2>. QED BY <1>4, <2>1, <2>2, <2>3 DEF UnitOf
<1>8. ASSUME NEW j \in DOMAIN all
      PROVE  all[j] = UnitOf(first, more, n + j)
  <2>1. j \in 1 .. Len(units) \/ j = Len(units) + 1 \/ j = Len(units) + 2
    BY <1>n, <1>0, <1>8
  <2>. QED BY <1>0, <1>5, <1>6, <1>7, <2>1 DEF Follows
<1>. QED BY <1>1, <1>3, <1>8 DEF Follows

\* A stream that is followed by less than more sent.
LEMMA FollowsStill ==
  ASSUME NEW U, NEW units \in Seq(U), NEW first, NEW S, NEW sent \in Seq(S), NEW piece \in S,
         NEW n \in Nat, Follows(units, first, sent, n), n + Len(units) <= 2 + 2 * Len(sent)
  PROVE  Follows(units, first, Append(sent, piece), n)
<1>1. PICK more : more = Append(sent, piece)
  OBVIOUS
<1>2. Len(more) = Len(sent) + 1 /\ \A i \in 1 .. Len(sent) : more[i] = sent[i]
  BY <1>1
<1>3. ASSUME NEW j \in 1 .. Len(units)
      PROVE  UnitOf(first, more, n + j) = UnitOf(first, sent, n + j)
  <2>1. PICK m \in Nat : m = n + j
    OBVIOUS
  <2>2. m <= 2 + 2 * Len(sent) /\ m <= 2 + 2 * Len(more) /\ m > 0
    BY <1>2, <2>1
  <2>3. ~(m <= 2) => (m - 1) \div 2 \in 1 .. Len(sent)
    BY <2>2
  <2>. QED BY <1>2, <2>1, <2>2, <2>3 DEF UnitOf
<1>. QED BY <1>1, <1>3 DEF Follows

\* k units taken from the front.
LEMMA FollowsRest ==
  ASSUME NEW U, NEW units \in Seq(U), NEW first, NEW sent, NEW n \in Nat, NEW k \in Nat,
         k <= Len(units), Follows(units, first, sent, n)
  PROVE  /\ Follows(SubSeq(units, k + 1, Len(units)), first, sent, n + k)
         /\ SubSeq(units, k + 1, Len(units)) \in Seq(U)
         /\ Len(SubSeq(units, k + 1, Len(units))) = Len(units) - k
<1>1. PICK rest : rest = SubSeq(units, k + 1, Len(units))
  OBVIOUS
<1>2. rest \in Seq(U) /\ Len(rest) = Len(units) - k /\ \A j \in 1 .. Len(rest) : rest[j] = units[j + k]
  BY <1>1
<1>3. ASSUME NEW j \in DOMAIN rest
      PROVE  rest[j] = UnitOf(first, sent, n + k + j)
  <2>1. j + k \in DOMAIN units /\ n + (j + k) = n + k + j
    BY <1>2
  <2>. QED BY <1>2, <2>1 DEF Follows
<1>. QED BY <1>1, <1>2, <1>3 DEF Follows

-------------------------------------------------------------------------------
(* The server's primitives.                                                  *)

LEMMA UnitsDown ==
  ASSUME NEW f \in DownFrames
  PROVE  Units(f) \in Seq(DownUnits)
<1>1. [frame |-> f, half |-> 1] \in DownUnits /\ [frame |-> f, half |-> 2] \in DownUnits
  BY DEF DownUnits
<1>. QED BY <1>1 DEF Units

LEMMA UnitsUp ==
  ASSUME NEW f \in UpFrames
  PROVE  Units(f) \in Seq(UpUnits)
<1>1. [frame |-> f, half |-> 1] \in UpUnits /\ [frame |-> f, half |-> 2] \in UpUnits
  BY DEF UpUnits
<1>. QED BY <1>1 DEF Units

\* The server's socket changes, and nothing of what is between the two.
LEMMA SrvKept ==
  ASSUME NEW p, NEW c, Kept(p, c), NEW v \in Servers, ServerOrder(v, c.net.server),
         v.sent = c.srv.sent, v.closeSent = c.srv.closeSent, v.ws = c.srv.ws,
         v.closeSent => v.readyState # "open",
         NEW d, d = [c EXCEPT !.srv = v]
  PROVE  /\ Kept(p, d) /\ d.net = c.net /\ d.srv = v /\ d.cli = c.cli
<1>1. c \in Conversations
  BY DEF Kept
<1>2. d \in Conversations /\ d.net = c.net /\ d.srv = v /\ d.cli = c.cli
  BY <1>1, SrvOf
<1>3. p = "curl" => Down(d.srv, d.cli, d.net)
  <2>. SUFFICES ASSUME p = "curl" PROVE Down(d.srv, d.cli, d.net)
    OBVIOUS
  <2>1. Down(c.srv, c.cli, c.net)
    BY DEF Kept
  <2>2. Down(v, c.cli, c.net)
    BY <2>1, DownSame
  <2>. QED BY <1>2, <2>2
<1>4. OneCloseFrame(d.srv, d.net.client.in)
  BY <1>2 DEF Kept, OneCloseFrame
<1>. QED BY <1>2, <1>3, <1>4 DEF Kept

\* The close frame.
LEMMA CloseFrameDown ==
  ASSUME NEW v \in Servers, NEW v2, NEW u \in Clients, NEW l \in Links, NEW l2,
         Down(v, u, l), v.ws, ~v.closeSent,
         v2.sent = v.sent, v2.closeSent, v2.ws = v.ws,
         Live(u) => ~l.client.closed,
         Writable(l2, "server") = Writable(l, "server"),
         l2.client.in = IF Writable(l, "server") /\ ~l.client.closed
                        THEN l.client.in \o Units(Frame("close", 0, TRUE)) ELSE l.client.in
  PROVE  Down(v2, u, l2)
<1>1. ASSUME Live(u), NEW n \in Nat, DownFrom(v, u, l, n)
      PROVE  DownFrom(v2, u, l2, n)
  <2>1. l.client.in \in Seq(DownUnits) /\ Len(l.client.in) \in Nat /\ Len(v.sent) \in Nat
        /\ v.sent \in Seq(1 .. MaxDown)
    BY ServerFields DEF Links, Endpoints
  <2>2. CASE ~Writable(l, "server")
    <3>1. l2.client.in = l.client.in
      BY <2>2
    <3>. QED BY <1>1, <2>2, <3>1 DEF DownFrom
  <2>3. CASE Writable(l, "server")
    <3>1. PICK wire \in Seq(DownUnits) : wire = l.client.in
      BY <2>1
    <3>2. PICK next : next = wire \o Units(Frame("close", 0, TRUE))
      OBVIOUS
    <3>3. l2.client.in = next
      BY <1>1, <2>3, <3>1, <3>2
    <3>4. n + Len(wire) = 2 + 2 * Len(v.sent)
      <4>1. n + Len(wire) <= 2 + 2 * Len(v.sent)
        BY <1>1, <3>1 DEF DownFrom
      <4>2. n + Len(wire) >= 2 + 2 * Len(v.sent)
        BY <1>1, <2>3, <3>1 DEF DownFrom
      <4>3. n + Len(wire) \in Nat /\ 2 + 2 * Len(v.sent) \in Nat
        BY <2>1, <3>1
      <4>. QED BY <4>1, <4>2, <4>3
    <3>5. Follows(wire, "101", v.sent, n)
      BY <1>1, <3>1 DEF DownFrom
    <3>6. Follows(next, "101", v.sent, n)
      BY <2>1, <3>2, <3>4, <3>5, FollowsClose
    <3>7. Len(next) = Len(wire) + 2
      BY <3>2, TwoMore
    <3>8. n + Len(next) <= 2 + 2 * Len(v.sent) + 2 /\ n + Len(next) >= 2 + 2 * Len(v.sent)
      BY <2>1, <3>1, <3>4, <3>7
    <3>. QED BY <1>1, <3>3, <3>6, <3>8 DEF DownFrom
  <2>. QED BY <2>2, <2>3
<1>. QED BY <1>1 DEF Down

LEMMA SendCloseKept ==
  ASSUME NEW p, NEW c, Kept(p, c), c.srv.ws, c.srv.readyState # "open", NEW d, d = SendClose(c)
  PROVE  /\ Kept(p, d) /\ d.cli = c.cli /\ d.srv = [c.srv EXCEPT !.closeSent = TRUE]
         /\ Writable(d.net, "server") = Writable(c.net, "server")
         /\ d.net.server.in = c.net.server.in /\ d.net.server.events = c.net.server.events
         /\ d.net.server.closed = c.net.server.closed
<1>1. c \in Conversations /\ c.net \in Links /\ c.srv \in Servers /\ c.cli \in Clients
  BY DEF Kept, Conversations
<1>2. CASE c.srv.closeSent
  <2>1. d = c
    BY <1>2 DEF SendClose
  <2>2. c.srv = [c.srv EXCEPT !.closeSent = TRUE]
    BY <1>1, <1>2 DEF Servers
  <2>. QED BY <2>1, <2>2
<1>3. CASE ~c.srv.closeSent
  <2>1. PICK v : v = [c.srv EXCEPT !.closeSent = TRUE]
    OBVIOUS
  <2>2. /\ v \in Servers /\ v.closeSent /\ v.sent = c.srv.sent /\ v.ws = c.srv.ws
        /\ v.readyState = c.srv.readyState
    BY <1>1, <2>1 DEF Servers
  <2>4. PICK sent \in Seq(DownUnits) : sent = Units(Frame("close", 0, TRUE))
    BY UnitsDown DEF DownFrames
  <2>3. PICK m : m = SocketWrite(c.net, "server", sent)
    OBVIOUS
  <2>5. /\ m \in Links /\ m.client.closed = c.net.client.closed
        /\ Writable(m, "server") = Writable(c.net, "server")
        /\ m.server.in = c.net.server.in /\ m.server.events = c.net.server.events
        /\ m.server.closed = c.net.server.closed
        /\ m.client.in = IF Writable(c.net, "server") /\ ~c.net.client.closed
                         THEN c.net.client.in \o sent ELSE c.net.client.in
    BY <1>1, <2>3, WriteOnly
  <2>6. d = [[c EXCEPT !.srv = v] EXCEPT !.net = m]
    BY <1>1, <1>3, <2>1, <2>3, <2>4 DEF SendClose, WriteFrame, Conversations
  <2>7. d \in Conversations /\ d.net = m /\ d.srv = v /\ d.cli = c.cli
    BY <1>1, <2>2, <2>5, <2>6 DEF Conversations
  <2>8. ServerOrder(v, m.server)
    <3>1. ServerOrder(c.srv, c.net.server)
      BY DEF Kept
    <3>2. /\ v.feeding = c.srv.feeding /\ v.failing = c.srv.failing /\ v.timer = c.srv.timer /\ v.header = c.srv.header
          /\ v.told = c.srv.told
      BY <1>1, <2>1 DEF Servers
    <3>. QED BY <2>2, <2>5, <3>1, <3>2 DEF ServerOrder, EventsOrdered
  <2>9. OneCloseFrame(v, m.client.in)
    <3>1. OneCloseFrame(c.srv, c.net.client.in) /\ c.net.client.in \in Seq(DownUnits)
      BY <1>1 DEF Kept, Links, Endpoints
    <3>2. PICK wire \in Seq(DownUnits) : wire = c.net.client.in
      BY <3>1
    <3>3. \A i \in DOMAIN wire : wire[i].frame.op # "close"
      BY <1>3, <3>1, <3>2 DEF OneCloseFrame
    <3>4. PICK next : next = wire \o Units(Frame("close", 0, TRUE))
      OBVIOUS
    <3>5. /\ Len(next) = Len(wire) + 2 /\ \A i \in 1 .. Len(wire) : next[i] = wire[i]
          /\ DOMAIN next = 1 .. Len(wire) + 2 /\ DOMAIN wire = 1 .. Len(wire)
      <4>1. PICK f : f = Frame("close", 0, TRUE)
        OBVIOUS
      <4>2. /\ Len(wire \o Units(f)) = Len(wire) + 2
            /\ \A i \in 1 .. Len(wire) : (wire \o Units(f))[i] = wire[i]
            /\ DOMAIN (wire \o Units(f)) = 1 .. Len(wire) + 2 /\ DOMAIN wire = 1 .. Len(wire)
        <5>1. wire \in Seq(DownUnits)
          OBVIOUS
        <5>. QED BY ONLY <5>1, TwoMore
      <4>. QED BY <3>4, <4>1, <4>2
    <3>6. \A i \in DOMAIN next : next[i].frame.op = "close" => i >= Len(next) - 1
      BY <3>3, <3>5
    <3>. QED BY <2>2, <2>4, <2>5, <3>2, <3>3, <3>4, <3>6 DEF OneCloseFrame
  <2>10. p = "curl" => Down(v, c.cli, m)
    <3>1. SUFFICES ASSUME p = "curl" PROVE Down(v, c.cli, m)
      OBVIOUS
    <3>2. Down(c.srv, c.cli, c.net) /\ (Live(c.cli) => ~c.net.client.closed)
      BY <3>1 DEF Kept, Live
    <3>. QED BY <1>1, <1>3, <2>2, <2>4, <2>5, <3>2, CloseFrameDown
  <2>. QED BY <2>1, <2>5, <2>7, <2>8, <2>9, <2>10 DEF Kept
<1>. QED BY <1>2, <1>3

LEMMA FrameFacts ==
  ASSUME NEW f \in UpFrames
  PROVE  /\ f.piece \in Nat /\ f.last \in BOOLEAN
         /\ f.op = "data" => IF f.last THEN f.piece = 0 \/ f.piece \in 1 .. MaxUp ELSE f.piece = 1
         /\ f.op = "cont" => f.last /\ f.piece = 2
<1>1. MaxUp \in Nat /\ 1 \in 1 .. MaxUp
  BY WebSocketAssumption
<1>2. CASE f \in RawFrames
  <2>1. \E op \in {"upgrade", "data", "cont", "ping", "close", "close1", "unmasked", "huge", "unknown"},
           piece \in {0, 1, 2}, last \in BOOLEAN :
          /\ f = [op |-> op, piece |-> piece, last |-> last]
          /\ op = "data" => IF last THEN piece \in {0, 1} ELSE piece = 1
          /\ op = "cont" => last /\ piece = 2
    BY <1>2 DEF RawFrames, Frame
  <2>. QED BY <1>1, <2>1
<1>3. CASE f \in {Frame("data", n, TRUE) : n \in 1 .. MaxUp}
  <2>1. PICK n \in 1 .. MaxUp : f = [op |-> "data", piece |-> n, last |-> TRUE]
    BY <1>3 DEF Frame
  <2>. QED BY <1>1, <2>1
<1>. QED BY <1>2, <1>3 DEF UpFrames

\* An event for the server's program, which has not been told of the close.
LEMMA TellOrder ==
  ASSUME NEW v \in Servers, NEW s, ServerOrder(v, s), v.ws, v.readyState # "closed",
         NEW e \in Told, e.type # "close", e.type = "message" => e.data \in Whole,
         NEW x, x.told = Append(v.told, e), x.readyState \notin {"closed", "none"}, x.ws = v.ws,
         x.header = v.header
  PROVE  ServerOrder(x, s)
<1>1. v.told \in Seq(Told)
  BY ServerFields
<1>2. PICK told : told = Append(v.told, e)
  OBVIOUS
<1>3. /\ Len(told) = Len(v.told) + 1 /\ told[Len(told)] = e /\ DOMAIN told = 1 .. Len(v.told) + 1
      /\ DOMAIN v.told = 1 .. Len(v.told)
      /\ \A i \in 1 .. Len(v.told) : told[i] = v.told[i]
  BY <1>1, <1>2, AppendedEvent
<1>4. \A i \in DOMAIN told : /\ told[i].type # "close"
                             /\ told[i].type = "message" => told[i].data \in Whole
  BY <1>1, <1>3 DEF ServerOrder
<1>. QED BY <1>2, <1>4 DEF ServerOrder

LEMMA FailKept ==
  ASSUME NEW p, NEW c, Kept(p, c), c.srv.ws, c.srv.readyState # "closed", NEW d, d = Fail(c)
  PROVE  Kept(p, d) /\ d.cli = c.cli /\ d.srv.ws
<1>1. c \in Conversations /\ c.srv \in Servers
  BY DEF Kept, Conversations
<1>2. PICK e : e = ServerEvent("error", <<>>)
  OBVIOUS
<1>3. e \in Told /\ e.type = "error"
  BY <1>2 DEF ServerEvent, Told, Data
<1>4. PICK v : v = [c.srv EXCEPT !.failing = TRUE, !.told = Append(@, e)]
  OBVIOUS
<1>5. /\ v \in Servers /\ v.sent = c.srv.sent /\ v.ws = c.srv.ws /\ v.closeSent = c.srv.closeSent
      /\ v.readyState = c.srv.readyState /\ v.told = Append(c.srv.told, e)
      /\ v.header = c.srv.header
  <2>1. Append(c.srv.told, e) \in Seq(Told)
    BY <1>1, <1>3, ServerFields
  <2>. QED BY <1>1, <1>4, <2>1 DEF Servers
<1>6. ServerOrder(c.srv, c.net.server) /\ OneCloseFrame(c.srv, c.net.client.in)
  BY DEF Kept
<1>7. ServerOrder(v, c.net.server)
  <2>1. v.readyState \notin {"closed", "none"} /\ v.ws
    BY <1>5, <1>6 DEF ServerOrder
  <2>2. e.type # "close" /\ e.type # "message"
    BY <1>3
  <2>. QED BY <1>1, <1>3, <1>5, <1>6, <2>1, <2>2, TellOrder
<1>8. v.closeSent => v.readyState # "open"
  BY <1>5, <1>6 DEF OneCloseFrame
<1>9. d = [c EXCEPT !.srv = v]
  BY <1>1, <1>2, <1>4 DEF Fail, TellServer, Conversations, Servers
<1>10. Kept(p, c)
  OBVIOUS
<1>11. Kept(p, d) /\ d.net = c.net /\ d.srv = v /\ d.cli = c.cli
  BY ONLY <1>5, <1>7, <1>8, <1>9, <1>10, SrvKept
<1>. QED BY <1>5, <1>11

\* A change of the server's socket that tells nothing.
LEMMA OrderSame ==
  ASSUME NEW v, NEW s, ServerOrder(v, s), v.ws,
         NEW x, x.ws = v.ws, x.header = v.header, x.told = v.told,
         x.feeding => v.readyState # "closed", x.timer => v.readyState # "closed",
         x.failing => v.failing,
         \/ x.readyState = v.readyState
         \/ v.readyState # "closed" /\ x.readyState \in {"open", "closing"}
  PROVE  ServerOrder(x, s)
BY DEF ServerOrder

LEMMA FeedingOff ==
  ASSUME NEW p, NEW c, Kept(p, c), c.srv.ws, NEW d, d = [c EXCEPT !.srv.feeding = FALSE]
  PROVE  Kept(p, d) /\ d.cli = c.cli /\ d.srv = [c.srv EXCEPT !.feeding = FALSE] /\ d.net = c.net
<1>1. c \in Conversations /\ c.srv \in Servers
  BY DEF Kept, Conversations
<1>2. PICK v : v = [c.srv EXCEPT !.feeding = FALSE]
  OBVIOUS
<1>3. /\ v \in Servers /\ v.sent = c.srv.sent /\ v.ws = c.srv.ws /\ v.closeSent = c.srv.closeSent
      /\ v.readyState = c.srv.readyState /\ v.told = c.srv.told /\ v.header = c.srv.header
      /\ v.timer = c.srv.timer /\ v.feeding = FALSE /\ v.failing = c.srv.failing
  BY <1>1, <1>2 DEF Servers
<1>4. /\ ServerOrder(c.srv, c.net.server) /\ OneCloseFrame(c.srv, c.net.client.in)
  BY DEF Kept
<1>5. ServerOrder(v, c.net.server)
  <2>1. v.timer => c.srv.readyState # "closed"
    BY <1>3, <1>4 DEF ServerOrder
  <2>. QED BY <1>3, <1>4, <2>1, OrderSame
<1>6. v.closeSent => v.readyState # "open"
  BY <1>3, <1>4 DEF OneCloseFrame
<1>7. d = [c EXCEPT !.srv = v]
  BY <1>1, <1>2 DEF Conversations
<1>8. Kept(p, c)
  OBVIOUS
<1>9. v \in Servers /\ v.sent = c.srv.sent /\ v.ws = c.srv.ws /\ v.closeSent = c.srv.closeSent
  BY <1>3
<1>10. Kept(p, d) /\ d.net = c.net /\ d.srv = v /\ d.cli = c.cli
  BY ONLY <1>5, <1>6, <1>7, <1>8, <1>9, SrvKept
<1>. QED BY <1>2, <1>10

\* Frames for a peer that is not read from.
LEMMA RawWriteKept ==
  ASSUME NEW p, NEW c, Kept(p, c), p # "curl", ~c.srv.closeSent,
         NEW f \in DownFrames, f.op # "close", NEW d, d = WriteFrame(c, f)
  PROVE  /\ Kept(p, d) /\ d.cli = c.cli /\ d.srv = c.srv
         /\ d.net.server.in = c.net.server.in /\ d.net.server.events = c.net.server.events
         /\ d.net.server.closed = c.net.server.closed
<1>1. c \in Conversations /\ c.net \in Links /\ c.net.client.in \in Seq(DownUnits)
  BY DEF Kept, Conversations, Links, Endpoints
<1>2. PICK u \in Seq(DownUnits) : u = Units(f)
  BY UnitsDown
<1>3. PICK m : m = SocketWrite(c.net, "server", u)
  OBVIOUS
<1>4. /\ m \in Links /\ m.server.in = c.net.server.in /\ m.server.events = c.net.server.events
      /\ m.server.closed = c.net.server.closed
      /\ m.client.in \in {c.net.client.in, c.net.client.in \o u}
  <2>1. /\ m \in Links /\ m.server.in = c.net.server.in /\ m.server.events = c.net.server.events
        /\ m.server.closed = c.net.server.closed
        /\ m.client.in = IF Writable(c.net, "server") /\ ~c.net.client.closed
                         THEN c.net.client.in \o u ELSE c.net.client.in
    BY ONLY <1>1, <1>3, u \in Seq(DownUnits), WriteOnly
  <2>. QED BY <2>1
<1>5. d = [c EXCEPT !.net = m]
  BY <1>2, <1>3 DEF WriteFrame
<1>6. d \in Conversations /\ d.net = m /\ d.srv = c.srv /\ d.cli = c.cli
  BY <1>1, <1>4, <1>5, NetOf
<1>7. \A i \in DOMAIN m.client.in : m.client.in[i].frame.op # "close"
  <2>1. PICK wire \in Seq(DownUnits) : wire = c.net.client.in
    BY <1>1
  <2>2. \A i \in DOMAIN wire : wire[i].frame.op # "close"
    BY <2>1 DEF Kept, OneCloseFrame
  <2>3. PICK next : next = wire \o Units(f)
    OBVIOUS
  <2>4. /\ \A i \in 1 .. Len(wire) : next[i] = wire[i]
        /\ next[Len(wire) + 1] = [frame |-> f, half |-> 1]
        /\ next[Len(wire) + 2] = [frame |-> f, half |-> 2]
        /\ DOMAIN next = 1 .. Len(wire) + 2 /\ DOMAIN wire = 1 .. Len(wire) /\ Len(wire) \in Nat
    BY ONLY <2>3, wire \in Seq(DownUnits), TwoMore
  <2>5. \A i \in DOMAIN next : next[i].frame.op # "close"
    <3>1. \A i \in DOMAIN next : i \in DOMAIN wire \/ i = Len(wire) + 1 \/ i = Len(wire) + 2
      BY <2>4
    <3>. QED BY <2>2, <2>4, <3>1
  <2>. QED BY <1>2, <1>4, <2>1, <2>2, <2>3, <2>5
<1>8. ServerOrder(d.srv, d.net.server)
  BY <1>4, <1>6 DEF Kept, ServerOrder, EventsOrdered
<1>9. OneCloseFrame(d.srv, d.net.client.in)
  BY <1>6, <1>7 DEF OneCloseFrame
<1>. QED BY <1>4, <1>6, <1>8, <1>9 DEF Kept

LEMMA EndSocketKept ==
  ASSUME NEW p, NEW c, Kept(p, c), NEW d, d = EndSocket(c)
  PROVE  Kept(p, d) /\ d.cli = c.cli /\ d.srv = c.srv /\ Ends(c.net, d.net)
<1>1. c.net \in Links
  BY DEF Kept, Conversations
<1>2. PICK m : m = SocketEnd(c.net, "server")
  OBVIOUS
<1>3. Ends(c.net, m) /\ d = [c EXCEPT !.net = m]
  BY <1>1, <1>2, EndEnds DEF EndSocket
<1>. QED BY <1>3, EndsKept

-------------------------------------------------------------------------------
(* Frames.                                                                   *)

LEMMA CloseFrameKept ==
  ASSUME NEW p, NEW c, Kept(p, c), c.srv.ws, c.srv.readyState # "closed", NEW d, d = CloseFrame(c)
  PROVE  /\ Kept(p, d) /\ d.cli = c.cli /\ d.srv.ws
         /\ d.srv.told = c.srv.told /\ d.srv.closeRcvd /\ d.srv.recv = c.srv.recv
         /\ d.srv.header = c.srv.header /\ d.srv.frag = c.srv.frag
         /\ \E m \in Links : /\ Ends(m, d.net) /\ m.server.in = c.net.server.in
                             /\ m.server.events = c.net.server.events
                             /\ m.server.closed = c.net.server.closed
<1>1. c \in Conversations /\ c.srv \in Servers /\ c.net \in Links
  BY DEF Kept, Conversations
<1>2. ServerOrder(c.srv, c.net.server) /\ OneCloseFrame(c.srv, c.net.client.in)
  BY DEF Kept
<1>3. CASE c.srv.closeSent
  <2>1. PICK v : v = [c.srv EXCEPT !.closeRcvd = TRUE, !.code = "peer"]
    OBVIOUS
  <2>2. /\ v \in Servers /\ v.sent = c.srv.sent /\ v.ws = c.srv.ws /\ v.closeSent = c.srv.closeSent
        /\ v.readyState = c.srv.readyState /\ v.told = c.srv.told /\ v.header = c.srv.header
        /\ v.closeRcvd /\ v.recv = c.srv.recv /\ v.frag = c.srv.frag
        /\ v.failing = c.srv.failing /\ v.feeding = c.srv.feeding /\ v.timer = c.srv.timer
    BY <1>1, <2>1 DEF Servers, Codes
  <2>3. ServerOrder(v, c.net.server)
    BY <1>2, <2>2, OrderSame
  <2>4. v.closeSent => v.readyState # "open"
    BY <1>2, <2>2 DEF OneCloseFrame
  <2>5. PICK a : a = [c EXCEPT !.srv = v]
    OBVIOUS
  <2>6. Kept(p, c) /\ v \in Servers /\ v.sent = c.srv.sent /\ v.ws = c.srv.ws /\ v.closeSent = c.srv.closeSent
    BY <2>2
  <2>7. Kept(p, a) /\ a.net = c.net /\ a.srv = v /\ a.cli = c.cli
    BY ONLY <2>3, <2>4, <2>5, <2>6, SrvKept
  <2>8. d = EndSocket(a)
    <3>1. [c EXCEPT !.srv.closeRcvd = TRUE, !.srv.code = "peer"] = a
      BY <1>1, <2>1, <2>5 DEF Conversations, Servers
    <3>. QED BY <1>3, <3>1 DEF CloseFrame
  <2>9. Kept(p, d) /\ d.cli = a.cli /\ d.srv = a.srv /\ Ends(a.net, d.net)
    BY ONLY <2>7, <2>8, EndSocketKept
  <2>10. \E m \in Links : /\ Ends(m, d.net) /\ m.server.in = c.net.server.in
                          /\ m.server.events = c.net.server.events
                          /\ m.server.closed = c.net.server.closed
    BY <1>1, <2>7, <2>9
  <2>. QED BY <2>2, <2>7, <2>9, <2>10
<1>4. CASE ~c.srv.closeSent
  <2>1. PICK v : v = [c.srv EXCEPT !.closeRcvd = TRUE, !.code = "peer", !.readyState = "closing"]
    OBVIOUS
  <2>2. /\ v \in Servers /\ v.sent = c.srv.sent /\ v.ws = c.srv.ws /\ v.closeSent = c.srv.closeSent
        /\ v.readyState = "closing" /\ v.told = c.srv.told /\ v.header = c.srv.header
        /\ v.closeRcvd /\ v.recv = c.srv.recv /\ v.frag = c.srv.frag
        /\ v.failing = c.srv.failing /\ v.feeding = c.srv.feeding /\ v.timer = c.srv.timer
    BY <1>1, <2>1 DEF Servers, Codes
  <2>3. ServerOrder(v, c.net.server)
    BY <1>2, <2>2, OrderSame
  <2>4. v.closeSent => v.readyState # "open"
    BY <2>2
  <2>5. PICK a : a = [c EXCEPT !.srv = v]
    OBVIOUS
  <2>6. Kept(p, c) /\ v \in Servers /\ v.sent = c.srv.sent /\ v.ws = c.srv.ws /\ v.closeSent = c.srv.closeSent
    BY <2>2
  <2>7. Kept(p, a) /\ a.net = c.net /\ a.srv = v /\ a.cli = c.cli
    BY ONLY <2>3, <2>4, <2>5, <2>6, SrvKept
  <2>8. PICK b : b = SendClose(a)
    OBVIOUS
  <2>9. a.srv.ws /\ a.srv.readyState # "open"
    BY <2>2, <2>7
  <2>10. /\ Kept(p, b) /\ b.cli = a.cli /\ b.srv = [a.srv EXCEPT !.closeSent = TRUE]
         /\ b.net.server.in = a.net.server.in /\ b.net.server.events = a.net.server.events
         /\ b.net.server.closed = a.net.server.closed
    BY ONLY <2>7, <2>8, <2>9, SendCloseKept
  <2>11. d = EndSocket(b)
    <3>1. [[c EXCEPT !.srv.closeRcvd = TRUE, !.srv.code = "peer"] EXCEPT !.srv.readyState = "closing"] = a
      BY <1>1, <2>1, <2>5 DEF Conversations, Servers
    <3>. QED BY <1>4, <2>8, <3>1 DEF CloseFrame
  <2>12. Kept(p, d) /\ d.cli = b.cli /\ d.srv = b.srv /\ Ends(b.net, d.net)
    BY ONLY <2>10, <2>11, EndSocketKept
  <2>13. b.net \in Links
    BY <2>10 DEF Kept, Conversations
  <2>14. /\ d.srv.ws /\ d.srv.told = v.told /\ d.srv.closeRcvd /\ d.srv.recv = v.recv
         /\ d.srv.header = v.header /\ d.srv.frag = v.frag
    <3>1. PICK x : x = [v EXCEPT !.closeSent = TRUE]
      OBVIOUS
    <3>2. v \in Servers /\ v.closeRcvd /\ v.ws
      BY <1>4, <2>2
    <3>3. /\ x.ws = v.ws /\ x.told = v.told /\ x.closeRcvd = v.closeRcvd /\ x.recv = v.recv
          /\ x.header = v.header /\ x.frag = v.frag
      BY ONLY <3>1, <3>2 DEF Servers
    <3>4. d.srv = x
      BY ONLY <2>7, <2>10, <2>12, <3>1
    <3>. QED BY ONLY <3>2, <3>3, <3>4
  <2>15. \E m \in Links : /\ Ends(m, d.net) /\ m.server.in = c.net.server.in
                          /\ m.server.events = c.net.server.events
                          /\ m.server.closed = c.net.server.closed
    BY <2>7, <2>10, <2>12, <2>13
  <2>. QED BY <2>2, <2>7, <2>10, <2>12, <2>14, <2>15
<1>. QED BY <1>3, <1>4

LEMMA ControlKept ==
  ASSUME NEW p, NEW c, Kept(p, c), c.srv.ws, c.srv.readyState # "closed",
         NEW f, f.op \in Control, p = "curl" => f.op # "ping", NEW d, d = HandleControl(c, f)
  PROVE  Kept(p, d) /\ d.cli = c.cli /\ d.srv.ws
<1>1. c \in Conversations /\ c.srv \in Servers /\ c.net \in Links
  BY DEF Kept, Conversations
<1>2. ServerOrder(c.srv, c.net.server) /\ OneCloseFrame(c.srv, c.net.client.in)
  BY DEF Kept
<1>3. CASE f.op = "ping"
  <2>1. CASE c.srv.readyState = "open"
    <3>1. d = WriteFrame(c, Frame("pong", 0, TRUE))
      BY <1>3, <2>1 DEF HandleControl
    <3>2. PICK g : g = Frame("pong", 0, TRUE)
      OBVIOUS
    <3>3. g \in DownFrames
      BY <3>2 DEF DownFrames
    <3>4. g.op # "close"
      BY <3>2 DEF Frame
    <3>5. ~c.srv.closeSent
      BY <1>2, <2>1 DEF OneCloseFrame
    <3>6. p # "curl"
      BY <1>3
    <3>7. Kept(p, c)
      OBVIOUS
    <3>8. d = WriteFrame(c, g)
      BY <3>1, <3>2
    <3>9. Kept(p, d)
      BY ONLY <3>3, <3>4, <3>5, <3>6, <3>7, <3>8, RawWriteKept
    <3>10. d.cli = c.cli /\ d.srv = c.srv
      BY ONLY <3>3, <3>4, <3>5, <3>6, <3>7, <3>8, RawWriteKept
    <3>. QED BY <3>9, <3>10
  <2>2. CASE c.srv.readyState # "open"
    <3>1. d = c
      BY <1>3, <2>2 DEF HandleControl
    <3>. QED BY <3>1
  <2>. QED BY <2>1, <2>2
<1>4. CASE f.op = "pong"
  <2>1. d = c
    BY <1>4 DEF HandleControl
  <2>. QED BY <2>1
<1>5. CASE f.op = "close1"
  <2>1. PICK v : v = [c.srv EXCEPT !.closeRcvd = TRUE]
    OBVIOUS
  <2>2. /\ v \in Servers /\ v.sent = c.srv.sent /\ v.ws = c.srv.ws /\ v.closeSent = c.srv.closeSent
        /\ v.readyState = c.srv.readyState /\ v.told = c.srv.told /\ v.header = c.srv.header
        /\ v.failing = c.srv.failing /\ v.feeding = c.srv.feeding /\ v.timer = c.srv.timer
    BY <1>1, <2>1 DEF Servers
  <2>3. ServerOrder(v, c.net.server)
    BY <1>2, <2>2, OrderSame
  <2>4. v.closeSent => v.readyState # "open"
    BY <1>2, <2>2 DEF OneCloseFrame
  <2>5. PICK a : a = [c EXCEPT !.srv = v]
    OBVIOUS
  <2>6. Kept(p, c) /\ v \in Servers /\ v.sent = c.srv.sent /\ v.ws = c.srv.ws /\ v.closeSent = c.srv.closeSent
    BY <2>2
  <2>7. Kept(p, a) /\ a.net = c.net /\ a.srv = v /\ a.cli = c.cli
    BY ONLY <2>3, <2>4, <2>5, <2>6, SrvKept
  <2>8. d = Fail(a)
    <3>1. [c EXCEPT !.srv.closeRcvd = TRUE] = a
      BY <1>1, <2>1, <2>5 DEF Conversations, Servers
    <3>. QED BY <1>5, <3>1 DEF HandleControl
  <2>9. a.srv.ws /\ a.srv.readyState # "closed"
    BY <2>2, <2>7
  <2>10. Kept(p, d) /\ d.cli = a.cli /\ d.srv.ws
    BY ONLY <2>7, <2>8, <2>9, FailKept
  <2>. QED BY <2>7, <2>10
<1>6. CASE f.op = "close"
  <2>1. d = CloseFrame(c)
    BY <1>6 DEF HandleControl
  <2>2. Kept(p, c) /\ c.srv.ws /\ c.srv.readyState # "closed"
    OBVIOUS
  <2>3. Kept(p, d) /\ d.cli = c.cli /\ d.srv.ws
    BY ONLY <2>1, <2>2, CloseFrameKept
  <2>. QED BY <2>3
<1>. QED BY <1>3, <1>4, <1>5, <1>6 DEF Control

\* A message for the server's program.
LEMMA MessageKept ==
  ASSUME NEW p, NEW c, Kept(p, c), c.srv.ws, c.srv.readyState # "closed",
         NEW data \in Whole, NEW d, d = TellServer(c, "message", data)
  PROVE  /\ Kept(p, d) /\ d.net = c.net /\ d.cli = c.cli
         /\ d.srv = [c.srv EXCEPT !.told = Append(@, ServerEvent("message", data))]
         /\ ServerEvent("message", data) \in Told
<1>1. c \in Conversations /\ c.srv \in Servers
  BY DEF Kept, Conversations
<1>2. PICK e : e = ServerEvent("message", data)
  OBVIOUS
<1>3. e \in Told /\ e.type = "message" /\ e.data = data
  <2>1. MaxUp \in Nat
    BY WebSocketAssumption
  <2>2. (\E n \in 1 .. MaxUp : data = <<n>>) \/ data = <<1, 2>>
    BY DEF Whole
  <2>3. data \in Seq(Nat)
    <3>1. \A n \in 1 .. MaxUp : <<n>> \in Seq(Nat)
      BY <2>1
    <3>2. <<1, 2>> \in Seq(Nat)
      OBVIOUS
    <3>. QED BY <2>2, <3>1, <3>2
  <2>. QED BY <1>2, <2>3 DEF ServerEvent, Told, Data
<1>4. PICK v : v = [c.srv EXCEPT !.told = Append(@, e)]
  OBVIOUS
<1>5. /\ v \in Servers /\ v.sent = c.srv.sent /\ v.ws = c.srv.ws /\ v.closeSent = c.srv.closeSent
      /\ v.readyState = c.srv.readyState /\ v.told = Append(c.srv.told, e)
      /\ v.header = c.srv.header
  <2>1. Append(c.srv.told, e) \in Seq(Told)
    BY <1>1, <1>3, ServerFields
  <2>. QED BY <1>1, <1>4, <2>1 DEF Servers
<1>6. ServerOrder(c.srv, c.net.server) /\ OneCloseFrame(c.srv, c.net.client.in)
  BY DEF Kept
<1>7. ServerOrder(v, c.net.server)
  <2>1. v.readyState \notin {"closed", "none"} /\ v.ws
    BY <1>5, <1>6 DEF ServerOrder
  <2>2. e.type # "close" /\ (e.type = "message" => e.data \in Whole)
    BY <1>3
  <2>. QED BY <1>1, <1>3, <1>5, <1>6, <2>1, <2>2, TellOrder
<1>8. v.closeSent => v.readyState # "open"
  BY <1>5, <1>6 DEF OneCloseFrame
<1>9. d = [c EXCEPT !.srv = v]
  BY <1>1, <1>2, <1>4 DEF TellServer, Conversations, Servers
<1>10. Kept(p, c)
  OBVIOUS
<1>11. Kept(p, d) /\ d.net = c.net /\ d.srv = v /\ d.cli = c.cli
  BY ONLY <1>5, <1>7, <1>8, <1>9, <1>10, SrvKept
<1>. QED BY <1>2, <1>3, <1>4, <1>11

LEMMA FailAndReturn ==
  ASSUME NEW p, NEW c, Kept(p, c), c.srv.ws, c.srv.readyState # "closed",
         NEW d, d = [Fail(c) EXCEPT !.srv.feeding = FALSE]
  PROVE  Kept(p, d) /\ d.cli = c.cli
<1>1. PICK a : a = Fail(c)
  OBVIOUS
<1>2. Kept(p, c) /\ c.srv.ws /\ c.srv.readyState # "closed"
  OBVIOUS
<1>3. Kept(p, a) /\ a.cli = c.cli /\ a.srv.ws
  BY ONLY <1>1, <1>2, FailKept
<1>4. d = [a EXCEPT !.srv.feeding = FALSE]
  BY <1>1
<1>5. Kept(p, d) /\ d.cli = a.cli
  BY ONLY <1>3, <1>4, FeedingOff
<1>. QED BY <1>3, <1>5

LEMMA DeliverKept ==
  ASSUME NEW p, NEW c, Kept(p, c), c.srv.ws, c.srv.readyState # "closed",
         NEW pieces, 0 \notin Range(pieces) => pieces \in Whole, NEW d, d = Deliver(c, pieces)
  PROVE  Kept(p, d) /\ d.cli = c.cli
<1>1. Kept(p, c) /\ c.srv.ws /\ c.srv.readyState # "closed"
  OBVIOUS
<1>2. CASE 0 \in Range(pieces)
  <2>1. d = Fail(c)
    BY <1>2 DEF Deliver
  <2>. QED BY ONLY <1>1, <2>1, FailKept
<1>3. CASE 0 \notin Range(pieces)
  <2>1. d = TellServer(c, "message", pieces)
    BY <1>3 DEF Deliver
  <2>2. pieces \in Whole
    BY <1>3
  <2>3. Kept(p, d)
    BY ONLY <1>1, <2>1, <2>2, MessageKept
  <2>4. d.cli = c.cli
    BY <2>1 DEF TellServer, Kept, Conversations
  <2>. QED BY <2>3, <2>4
<1>. QED BY <1>2, <1>3

LEMMA TwoPieces == Append(<<1>>, 2) = <<1, 2>>
<1>1. PICK s : s = Append(<<1>>, 2)
  OBVIOUS
<1>2. s \in Seq(Nat) /\ Len(s) = 2 /\ s[1] = 1 /\ s[2] = 2
  BY <1>1
<1>3. PICK t : t = <<1, 2>>
  OBVIOUS
<1>4. t \in Seq(Nat) /\ Len(t) = 2 /\ t[1] = 1 /\ t[2] = 2
  BY <1>3
<1>5. \A i \in 1 .. Len(s) : s[i] = t[i]
  BY <1>2, <1>4
<1>6. s = t
  BY ONLY <1>2, <1>4, <1>5, SeqEqual
<1>. QED BY <1>1, <1>3, <1>6

\* The pieces of a message that a data frame completes.
LEMMA PiecesWhole ==
  ASSUME NEW frag \in {<<>>, << 1 >>}, NEW f \in UpFrames, f.op \in {"data", "cont"},
         f.op = "cont" <=> frag # <<>>, NEW pieces, pieces = Append(frag, f.piece)
  PROVE  /\ f.last /\ 0 \notin Range(pieces) => pieces \in Whole
         /\ ~f.last => pieces = << 1 >>
<1>1. CASE f.op = "data"
  <2>1. pieces = <<f.piece>>
    <3>1. frag = <<>>
      BY <1>1
    <3>2. Append(<<>>, f.piece) = <<f.piece>>
      OBVIOUS
    <3>. QED BY <3>1, <3>2
  <2>2. Range(pieces) = {f.piece}
    BY <2>1 DEF Range
  <2>3. f.last => f.piece = 0 \/ f.piece \in 1 .. MaxUp
    BY <1>1, FrameFacts
  <2>4. f.last \in BOOLEAN /\ (~f.last => f.piece = 1)
    BY <1>1, FrameFacts
  <2>. QED BY <2>1, <2>2, <2>3, <2>4 DEF Whole
<1>2. CASE f.op = "cont"
  <2>1. f.last /\ f.piece = 2
    BY <1>2, FrameFacts
  <2>2. frag = <<1>>
    BY <1>2
  <2>3. Append(<<1>>, 2) = <<1, 2>>
    BY ONLY TwoPieces
  <2>4. pieces = <<1, 2>>
    BY <2>1, <2>2, <2>3
  <2>. QED BY <2>1, <2>4 DEF Whole
<1>. QED BY <1>1, <1>2

LEMMA DataKept ==
  ASSUME NEW p, NEW c, Kept(p, c), c.srv.ws, c.srv.readyState # "closed",
         NEW f \in UpFrames, f.op \in {"data", "cont"}, NEW d, d = HandleData(c, f)
  PROVE  Kept(p, d) /\ d.cli = c.cli
<1>1. c \in Conversations /\ c.srv \in Servers
  BY DEF Kept, Conversations
<1>2. c.srv.frag \in {<<>>, <<1>>} /\ f.last \in BOOLEAN
  BY <1>1, ServerFields, FrameFacts
<1>3. PICK pieces : pieces = Append(c.srv.frag, f.piece)
  OBVIOUS
<1>4. Kept(p, c) /\ c.srv.ws /\ c.srv.readyState # "closed"
  OBVIOUS
<1>5. CASE (f.op = "cont") # (c.srv.frag # <<>>)
  <2>1. d = [Fail(c) EXCEPT !.srv.feeding = FALSE]
    BY <1>5 DEF HandleData
  <2>. QED BY ONLY <1>4, <2>1, FailAndReturn
<1>6. CASE (f.op = "cont") = (c.srv.frag # <<>>)
  <2>1. /\ f.last /\ 0 \notin Range(pieces) => pieces \in Whole
        /\ ~f.last => pieces = <<1>>
    <3>1. PICK frag \in {<<>>, <<1>>} : frag = c.srv.frag
      BY <1>2
    <3>2. f.op = "cont" <=> frag # <<>>
      BY <1>6, <3>1
    <3>3. pieces = Append(frag, f.piece)
      BY <1>3, <3>1
    <3>4. f \in UpFrames /\ f.op \in {"data", "cont"} /\ frag \in {<<>>, <<1>>}
      OBVIOUS
    <3>. QED BY ONLY <3>2, <3>3, <3>4, PiecesWhole
  <2>2. PICK v : v = [c.srv EXCEPT !.frag = IF f.last THEN <<>> ELSE pieces]
    OBVIOUS
  <2>3. /\ v \in Servers /\ v.ws = c.srv.ws /\ v.header = c.srv.header /\ v.told = c.srv.told
        /\ v.sent = c.srv.sent /\ v.closeSent = c.srv.closeSent
        /\ v.readyState = c.srv.readyState /\ v.timer = c.srv.timer
        /\ v.feeding = c.srv.feeding /\ v.failing = c.srv.failing
    <3>1. (IF f.last THEN <<>> ELSE pieces) \in {<<>>, <<1>>}
      BY <1>2, <2>1
    <3>. QED BY <1>1, <2>2, <3>1 DEF Servers
  <2>4. PICK a : a = [c EXCEPT !.srv = v]
    OBVIOUS
  <2>5. v.feeding => c.srv.readyState # "closed"
    OBVIOUS
  <2>6. Kept(p, a) /\ a.net = c.net /\ a.srv = v /\ a.cli = c.cli
    <3>1. v \in Servers
      BY <2>3
    <3>2. ServerOrder(c.srv, c.net.server) /\ OneCloseFrame(c.srv, c.net.client.in)
      BY DEF Kept
    <3>3. v.timer => c.srv.readyState # "closed"
      BY <2>3, <3>2 DEF ServerOrder
    <3>4. ServerOrder(v, c.net.server)
      BY <2>3, <2>5, <3>2, <3>3, OrderSame
    <3>5. v.closeSent => v.readyState # "open"
      BY <2>3, <3>2 DEF OneCloseFrame
    <3>6. Kept(p, c)
      OBVIOUS
    <3>7. v.sent = c.srv.sent /\ v.closeSent = c.srv.closeSent /\ v.ws = c.srv.ws
      BY <2>3
    <3>. QED BY ONLY <2>4, <3>1, <3>4, <3>5, <3>6, <3>7, SrvKept
  <2>7. d = IF f.last THEN Deliver(a, pieces) ELSE a
    BY <1>1, <1>3, <1>6, <2>2, <2>4 DEF HandleData, Conversations
  <2>8. CASE f.last
    <3>1. d = Deliver(a, pieces) /\ (0 \notin Range(pieces) => pieces \in Whole)
      BY <2>1, <2>7, <2>8
    <3>2. a.srv.ws /\ a.srv.readyState # "closed"
      BY <2>3, <2>6
    <3>3. Kept(p, d) /\ d.cli = a.cli
      BY ONLY <2>6, <3>1, <3>2, DeliverKept
    <3>. QED BY <2>6, <3>3
  <2>9. CASE ~f.last
    BY <2>6, <2>7, <2>9
  <2>. QED BY <1>2, <2>8, <2>9
<1>. QED BY <1>5, <1>6

LEMMA FrameKept ==
  ASSUME NEW p, NEW c, Kept(p, c), c.srv.ws, c.srv.readyState # "closed",
         NEW f \in UpFrames, p = "curl" => f.op # "ping", NEW d, d = HandleFrame(c, f)
  PROVE  Kept(p, d) /\ d.cli = c.cli
<1>1. Kept(p, c) /\ c.srv.ws /\ c.srv.readyState # "closed"
  OBVIOUS
<1>2. CASE d = [Fail(c) EXCEPT !.srv.feeding = FALSE]
  BY ONLY <1>1, <1>2, FailAndReturn
<1>3. CASE f.op \in Control /\ d = HandleControl(c, f)
  <2>1. p = "curl" => f.op # "ping"
    OBVIOUS
  <2>. QED BY ONLY <1>1, <1>3, <2>1, ControlKept
<1>4. CASE f.op \in {"data", "cont"} /\ d = HandleData(c, f)
  <2>1. f \in UpFrames
    OBVIOUS
  <2>. QED BY ONLY <1>1, <1>4, <2>1, DataKept
<1>. QED BY <1>2, <1>3, <1>4 DEF HandleFrame

LEMMA FeedStepKept ==
  ASSUME NEW p, NEW c, Kept(p, c), c.srv.feeding,
         p = "curl" /\ c.srv.recv # <<>> => c.srv.recv[1].frame.op # "ping",
         NEW d, d = FeedStep(c)
  PROVE  Kept(p, d) /\ d.cli = c.cli
<1>1. c \in Conversations /\ c.srv \in Servers
  BY DEF Kept, Conversations
<1>2. Kept(p, c) /\ c.srv.ws /\ c.srv.readyState # "closed"
  BY DEF Kept, ServerOrder
<1>3. PICK buf \in Seq(UpUnits) : buf = c.srv.recv
  BY <1>1, ServerFields
<1>4. CASE d = [c EXCEPT !.srv.feeding = FALSE]
  <2>1. Kept(p, c) /\ c.srv.ws
    BY <1>2
  <2>2. Kept(p, d)
    BY ONLY <1>4, <2>1, FeedingOff
  <2>3. d.cli = c.cli
    BY ONLY <1>4, <2>1, FeedingOff
  <2>. QED BY <2>2, <2>3
<1>5. CASE d = [Fail(c) EXCEPT !.srv.feeding = FALSE]
  BY ONLY <1>2, <1>5, FailAndReturn
<1>6. CASE /\ buf # <<>> /\ ~(Len(buf) < 2)
           /\ d = HandleFrame([c EXCEPT !.srv.recv = SubSeq(@, 3, Len(@))], buf[1].frame)
  <2>1. PICK rest \in Seq(UpUnits) : rest = SubSeq(buf, 3, Len(buf))
    <3>1. SubSeq(buf, 3, Len(buf)) \in Seq(UpUnits)
      BY <1>3
    <3>. QED BY <3>1
  <2>2. PICK v : v = [c.srv EXCEPT !.recv = rest]
    OBVIOUS
  <2>3. /\ v \in Servers /\ v.ws = c.srv.ws /\ v.header = c.srv.header /\ v.told = c.srv.told
        /\ v.sent = c.srv.sent /\ v.closeSent = c.srv.closeSent
        /\ v.readyState = c.srv.readyState /\ v.timer = c.srv.timer
        /\ v.feeding = c.srv.feeding /\ v.failing = c.srv.failing
    BY <1>1, <2>1, <2>2 DEF Servers
  <2>4. PICK a : a = [c EXCEPT !.srv = v]
    OBVIOUS
  <2>5. v.feeding => c.srv.readyState # "closed"
    BY <1>2
  <2>6. Kept(p, a) /\ a.net = c.net /\ a.srv = v /\ a.cli = c.cli
    <3>1. v \in Servers
      BY <2>3
    <3>2. ServerOrder(c.srv, c.net.server) /\ OneCloseFrame(c.srv, c.net.client.in)
      BY DEF Kept
    <3>3. v.timer => c.srv.readyState # "closed"
      BY <2>3, <3>2 DEF ServerOrder
    <3>4. ServerOrder(v, c.net.server)
      BY <1>2, <2>3, <2>5, <3>2, <3>3, OrderSame
    <3>5. v.closeSent => v.readyState # "open"
      BY <2>3, <3>2 DEF OneCloseFrame
    <3>6. Kept(p, c)
      OBVIOUS
    <3>7. v.sent = c.srv.sent /\ v.closeSent = c.srv.closeSent /\ v.ws = c.srv.ws
      BY <2>3
    <3>. QED BY ONLY <2>4, <3>1, <3>4, <3>5, <3>6, <3>7, SrvKept
  <2>7. PICK f : f = buf[1].frame
    OBVIOUS
  <2>8. f \in UpFrames
    <3>1. buf[1] \in UpUnits
      BY <1>3, <1>6
    <3>. QED BY <2>7, <3>1 DEF UpUnits
  <2>9. p = "curl" => f.op # "ping"
    BY <1>3, <1>6, <2>7
  <2>10. d = HandleFrame(a, f)
    BY <1>1, <1>3, <1>6, <2>1, <2>2, <2>4, <2>7 DEF Conversations, Servers
  <2>11. a.srv.ws /\ a.srv.readyState # "closed"
    BY <1>2, <2>3, <2>6
  <2>12. Kept(p, d) /\ d.cli = a.cli
    BY ONLY <2>6, <2>8, <2>9, <2>10, <2>11, FrameKept
  <2>. QED BY <2>6, <2>12
<1>. QED BY <1>3, <1>4, <1>5, <1>6 DEF FeedStep

-------------------------------------------------------------------------------
(* What the client of this library has sent.                                 *)

LEMMA UpstreamOf ==
  ASSUME NEW v \in Servers, NEW n \in Links, v.header = <<>>
  PROVE  /\ Upstream(v, n.server) = v.recv \o (Queued(n.server) \o n.server.in)
         /\ Queued(n.server) \o n.server.in \in Seq(UpUnits) /\ v.recv \in Seq(UpUnits)
         /\ Upstream(v, n.server) \in Seq(UpUnits)
<1>1. /\ v.recv \in Seq(UpUnits) /\ Queued(n.server) \in Seq(UpUnits)
      /\ n.server.in \in Seq(UpUnits)
  BY ServerFields, QueuedTyped DEF Links, Endpoints
<1>2. PICK r \in Seq(UpUnits) : r = v.recv
  BY <1>1
<1>3. PICK q \in Seq(UpUnits) : q = Queued(n.server)
  BY <1>1
<1>4. PICK i \in Seq(UpUnits) : i = n.server.in
  BY <1>1
<1>5. <<>> \o r = r
  OBVIOUS
<1>6. r \in Seq(UpUnits) /\ q \in Seq(UpUnits) /\ i \in Seq(UpUnits)
  OBVIOUS
<1>7. (r \o q) \o i = r \o (q \o i)
  BY ONLY <1>6, ConcatAssociative
<1>8. q \o i \in Seq(UpUnits) /\ r \o (q \o i) \in Seq(UpUnits)
  BY <1>6
<1>9. Upstream(v, n.server) = (r \o q) \o i
  BY <1>2, <1>3, <1>4, <1>5 DEF Upstream
<1>. QED BY <1>2, <1>3, <1>4, <1>7, <1>8, <1>9

LEMMA Popped ==
  ASSUME NEW U, NEW a \in Seq(U), NEW b \in Seq(U), NEW k \in Nat, k <= Len(a)
  PROVE  SubSeq(a, k + 1, Len(a)) \o b = SubSeq(a \o b, k + 1, Len(a \o b))
<1>1. PICK s : s = SubSeq(a, k + 1, Len(a))
  OBVIOUS
<1>2. s \in Seq(U) /\ Len(s) = Len(a) - k /\ \A j \in 1 .. Len(s) : s[j] = a[j + k]
  BY <1>1
<1>3. PICK all : all = a \o b
  OBVIOUS
<1>4. /\ all \in Seq(U) /\ Len(all) = Len(a) + Len(b) /\ Len(a) \in Nat /\ Len(b) \in Nat
      /\ \A j \in 1 .. Len(all) : all[j] = IF j <= Len(a) THEN a[j] ELSE b[j - Len(a)]
  BY <1>3
<1>5. PICK t : t = SubSeq(all, k + 1, Len(all))
  OBVIOUS
<1>6. t \in Seq(U) /\ Len(t) = Len(all) - k /\ \A j \in 1 .. Len(t) : t[j] = all[j + k]
  BY <1>4, <1>5
<1>7. PICK r : r = s \o b
  OBVIOUS
<1>8. /\ r \in Seq(U) /\ Len(r) = Len(s) + Len(b)
      /\ \A j \in 1 .. Len(r) : r[j] = IF j <= Len(s) THEN s[j] ELSE b[j - Len(s)]
  <2>1. s \in Seq(U) /\ b \in Seq(U)
    BY <1>2
  <2>. QED BY ONLY <1>7, <2>1
<1>9. Len(r) = Len(t)
  BY <1>2, <1>4, <1>6, <1>8
<1>10. ASSUME NEW j \in 1 .. Len(r) PROVE r[j] = t[j]
  <2>1. j \in Nat /\ j \in 1 .. Len(t) /\ j + k \in 1 .. Len(all) /\ t[j] = all[j + k]
    BY <1>4, <1>6, <1>9
  <2>2. CASE j <= Len(s)
    <3>1. j + k <= Len(a) /\ j \in 1 .. Len(s)
      BY <1>2, <1>4, <2>2
    <3>2. r[j] = s[j] /\ s[j] = a[j + k] /\ all[j + k] = a[j + k]
      BY <1>2, <1>4, <1>8, <2>1, <2>2, <3>1
    <3>. QED BY <2>1, <3>2
  <2>3. CASE ~(j <= Len(s))
    <3>1. ~(j + k <= Len(a)) /\ (j + k) - Len(a) = j - Len(s)
      BY <1>2, <1>4, <2>1, <2>3
    <3>2. r[j] = b[j - Len(s)] /\ all[j + k] = b[(j + k) - Len(a)]
      BY <1>4, <1>8, <2>1, <2>3, <3>1
    <3>. QED BY <2>1, <3>1, <3>2
  <2>. QED BY <2>2, <2>3
<1>11. r = t
  BY ONLY <1>6, <1>8, <1>9, <1>10, SeqEqual
<1>. QED BY <1>1, <1>3, <1>5, <1>7, <1>11

\* A frame parsed.
LEMMA UpstreamPopped ==
  ASSUME NEW v \in Servers, NEW v2 \in Servers, NEW n \in Links, v.header = <<>>,
         v2.header = <<>>, Len(v.recv) >= 2, v2.recv = SubSeq(v.recv, 3, Len(v.recv)),
         NEW all, all = Upstream(v, n.server)
  PROVE  /\ Upstream(v2, n.server) = SubSeq(all, 3, Len(all))
         /\ all \in Seq(UpUnits) /\ Len(all) >= 2
<1>1. PICK b \in Seq(UpUnits) : b = Queued(n.server) \o n.server.in
  BY UpstreamOf
<1>2. PICK a \in Seq(UpUnits) : a = v.recv
  BY ServerFields
<1>3. Upstream(v, n.server) = a \o b
  BY <1>1, <1>2, UpstreamOf
<1>4. Upstream(v2, n.server) = SubSeq(a, 3, Len(a)) \o b
  BY <1>1, <1>2, UpstreamOf
<1>5. SubSeq(a, 2 + 1, Len(a)) \o b = SubSeq(a \o b, 2 + 1, Len(a \o b))
  <2>1. a \in Seq(UpUnits) /\ b \in Seq(UpUnits) /\ 2 \in Nat /\ 2 <= Len(a)
    BY <1>2
  <2>. QED BY ONLY <2>1, Popped
<1>6. SubSeq(a, 3, Len(a)) \o b = SubSeq(a \o b, 3, Len(a \o b))
  <2>1. 2 + 1 = 3
    OBVIOUS
  <2>. QED BY ONLY <1>5, <2>1
<1>7. PICK c : c = a \o b
  OBVIOUS
<1>8. Len(c) = Len(a) + Len(b) /\ c \in Seq(UpUnits) /\ Len(b) \in Nat /\ Len(a) \in Nat
  BY <1>7
<1>9. all = c /\ Upstream(v2, n.server) = SubSeq(c, 3, Len(c)) /\ Len(a) >= 2
  BY <1>2, <1>3, <1>4, <1>6, <1>7
<1>. QED BY ONLY <1>8, <1>9

\* What the server parses next is the next message, or the close frame after all of
\* them.
LEMMA FrontFrame ==
  ASSUME NEW v \in Servers, NEW u \in Clients, NEW n \in Links, v.ws, v.header = <<>>,
         Up(v, u, n.server), v.recv # <<>>
  PROVE  /\ ~v.closeRcvd
         /\ IF Served(v) < Len(u.sent)
            THEN v.recv[1].frame = Frame("data", u.sent[Served(v) + 1], TRUE)
            ELSE /\ v.recv[1].frame = Frame("close", 0, TRUE) /\ Served(v) = Len(u.sent)
                 /\ u.native \notin {"connecting", "open"}
<1>1. PICK a \in Seq(UpUnits) : a = v.recv
  BY ServerFields
<1>2. PICK b \in Seq(UpUnits) : b = Queued(n.server) \o n.server.in
  BY UpstreamOf
<1>3. PICK all : all = a \o b
  OBVIOUS
<1>4. /\ all \in Seq(UpUnits) /\ Len(all) = Len(a) + Len(b) /\ Len(a) \in Nat /\ Len(b) \in Nat
      /\ all[1] = a[1] /\ Len(a) >= 1
  <2>1. Len(a) \in Nat /\ Len(b) \in Nat /\ Len(a) >= 1
    BY <1>1
  <2>2. all \in Seq(UpUnits) /\ Len(all) = Len(a) + Len(b)
    BY <1>3
  <2>3. all[1] = a[1]
    BY <1>3, <2>1
  <2>. QED BY <2>1, <2>2, <2>3
<1>5. Upstream(v, n.server) = all
  BY <1>1, <1>2, <1>3, UpstreamOf
<1>6. PICK k \in Nat : k = Served(v)
  BY Counts
<1>7. PICK m \in Nat : m = Len(u.sent)
  BY Counts
<1>8. PICK r \in Nat : r = UpRead(v)
  BY Counts
<1>9. r = 2 + 2 * k + (IF v.closeRcvd THEN 2 ELSE 0)
  BY <1>6, <1>8 DEF UpRead
<1>10. /\ r + Len(all) <= 2 + 2 * m + 2
       /\ v.closeRcvd => k = m
       /\ Follows(all, "upgrade", u.sent, r)
       /\ u.native \in {"connecting", "open"} => r + Len(all) <= 2 + 2 * m
  BY <1>5, <1>6, <1>7, <1>8 DEF Up
<1>11. Len(all) >= 1 /\ Len(all) \in Nat
  BY <1>4
<1>12. ~v.closeRcvd
  BY <1>9, <1>10, <1>11
<1>13. r = 2 + 2 * k /\ k <= m
  BY <1>9, <1>10, <1>11, <1>12
<1>14. a[1] = UnitOf("upgrade", u.sent, 2 * (k + 1) + 1)
  <2>1. 1 \in DOMAIN all
    BY <1>4, <1>11
  <2>2. all[1] = UnitOf("upgrade", u.sent, r + 1)
    BY <1>10, <2>1 DEF Follows
  <2>3. r + 1 = 2 * (k + 1) + 1
    BY <1>13
  <2>. QED BY <1>4, <2>2, <2>3
<1>15. CASE k < m
  <2>1. k + 1 \in 1 .. Len(u.sent) /\ Len(u.sent) \in Nat
    BY <1>7, <1>15
  <2>2. UnitOf("upgrade", u.sent, 2 * (k + 1) + 1)
          = [frame |-> Frame("data", u.sent[k + 1], TRUE), half |-> 1]
    BY ONLY <2>1, DataUnits
  <2>3. PICK f : f = Frame("data", u.sent[k + 1], TRUE)
    OBVIOUS
  <2>4. a[1] = [frame |-> f, half |-> 1]
    BY ONLY <1>14, <2>2, <2>3
  <2>5. a[1].frame = f
    BY ONLY <2>4
  <2>6. v.recv[1].frame = Frame("data", u.sent[Served(v) + 1], TRUE)
    BY ONLY <1>1, <1>6, <2>3, <2>5
  <2>. QED BY <1>6, <1>7, <1>12, <1>15, <2>6
<1>16. CASE ~(k < m)
  <2>1. k = m
    BY <1>13, <1>16
  <2>2. k + 1 \in Nat /\ k + 1 > Len(u.sent) /\ Len(u.sent) \in Nat
    BY <1>7, <2>1
  <2>3. UnitOf("upgrade", u.sent, 2 * (k + 1) + 1)
          = [frame |-> Frame("close", 0, TRUE), half |-> 1]
    BY ONLY <2>2, CloseUnits
  <2>4. u.native \notin {"connecting", "open"}
    BY <1>10, <1>11, <1>13, <2>1
  <2>5. PICK f : f = Frame("close", 0, TRUE)
    OBVIOUS
  <2>6. a[1] = [frame |-> f, half |-> 1]
    BY ONLY <1>14, <2>3, <2>5
  <2>7. a[1].frame = f
    BY ONLY <2>6
  <2>8. v.recv[1].frame = Frame("close", 0, TRUE)
    BY ONLY <1>1, <2>5, <2>7
  <2>. QED BY <1>6, <1>7, <1>12, <1>16, <2>1, <2>4, <2>8
<1>. QED BY <1>15, <1>16

\* A frame taken from the stream, whatever it counts for.
LEMMA UpTaken ==
  ASSUME NEW v \in Servers, NEW v2 \in Servers, NEW u \in Clients, NEW n \in Links,
         v.header = <<>>, v2.header = <<>>, Up(v, u, n.server), Len(v.recv) >= 2,
         v2.recv = SubSeq(v.recv, 3, Len(v.recv)), UpRead(v2) = UpRead(v) + 2,
         v2.frag = <<>>, AsSent(v2.told, u.sent), ToldClose(v2.told, <<"peer", TRUE>>) => v2.closeRcvd,
         v2.closeRcvd => Served(v2) = Len(u.sent) /\ u.native \notin {"connecting", "open"}
  PROVE  Up(v2, u, n.server)
<1>1. PICK all : all = Upstream(v, n.server)
  OBVIOUS
<1>2. PICK rest : rest = SubSeq(all, 2 + 1, Len(all))
  OBVIOUS
<1>3. Upstream(v2, n.server) = SubSeq(all, 3, Len(all)) /\ all \in Seq(UpUnits) /\ Len(all) >= 2
  BY <1>1, UpstreamPopped
<1>4. Upstream(v2, n.server) = rest
  <2>1. 2 + 1 = 3
    OBVIOUS
  <2>. QED BY ONLY <1>2, <1>3, <2>1
<1>5. PICK r \in Nat : r = UpRead(v)
  BY Counts
<1>6. Follows(all, "upgrade", u.sent, r)
  BY <1>1, <1>5 DEF Up
<1>7. Follows(rest, "upgrade", u.sent, r + 2) /\ Len(rest) = Len(all) - 2
  <2>1. 2 \in Nat /\ 2 <= Len(all) /\ all \in Seq(UpUnits) /\ r \in Nat
    BY <1>3
  <2>2. Follows(rest, "upgrade", u.sent, r + 2)
    BY ONLY <1>2, <1>6, <2>1, FollowsRest
  <2>3. Len(rest) = Len(all) - 2
    <3>1. PICK k \in Nat : k = 2
      OBVIOUS
    <3>2. k \in Nat /\ k <= Len(all) /\ all \in Seq(UpUnits) /\ rest = SubSeq(all, k + 1, Len(all))
      BY <1>2, <1>3, <3>1
    <3>3. Len(rest) = Len(all) - k
      BY ONLY <3>2
    <3>. QED BY <3>1, <3>3
  <2>. QED BY <2>2, <2>3
<1>8. Len(all) \in Nat
  BY <1>3
<1>9. (r + 2) + Len(rest) = r + Len(all)
  BY <1>7, <1>8
<1>. QED BY <1>1, <1>4, <1>5, <1>7, <1>9 DEF Up

LEMMA MessageServed ==
  ASSUME NEW v \in Servers, NEW v2 \in Servers, NEW u \in Clients, NEW n \in Links,
         v.ws, v2.ws, v.header = <<>>, v2.header = <<>>, Up(v, u, n.server), Len(v.recv) >= 2,
         v2.recv = SubSeq(v.recv, 3, Len(v.recv)), v2.frag = <<>>,
         ~v.closeRcvd, ~v2.closeRcvd, Served(v) < Len(u.sent),
         NEW e \in Told, e.type = "message", e.data = <<u.sent[Served(v) + 1]>>,
         v2.told = Append(v.told, e)
  PROVE  Up(v2, u, n.server)
<1>1. v.told \in Seq(Told)
  BY ServerFields
<1>2. Served(v2) = Served(v) + 1 /\ Served(v) \in Nat
  <2>1. e \in Told /\ e.type = "message"
    OBVIOUS
  <2>2. Cardinality(Messages(Append(v.told, e))) = Cardinality(Messages(v.told)) + 1
    BY ONLY <1>1, <2>1, MessagesAppended
  <2>3. Served(v) \in Nat
    BY Counts
  <2>. QED BY <2>2, <2>3 DEF Served
<1>3. UpRead(v2) = UpRead(v) + 2
  BY <1>2 DEF UpRead
<1>4. AsSent(v2.told, u.sent)
  <2>1. PICK k \in Nat : k = Served(v) + 1
    BY <1>2
  <2>2. AsSent(v.told, u.sent)
    BY DEF Up
  <2>3. k \in DOMAIN u.sent /\ k = Cardinality(Messages(v.told)) + 1
    <3>1. u.sent \in Seq(1 .. MaxUp) /\ k <= Len(u.sent) /\ k >= 1
      <4>1. Len(u.sent) \in Nat
        BY Counts
      <4>2. u.sent \in Seq(1 .. MaxUp)
        BY ClientFields
      <4>. QED BY <1>2, <2>1, <4>1, <4>2
    <3>2. DOMAIN u.sent = 1 .. Len(u.sent) /\ Len(u.sent) \in Nat
      BY <3>1
    <3>. QED BY <2>1, <3>1, <3>2 DEF Served
  <2>4. e.data = <<u.sent[k]>> /\ e \in Told /\ e.type = "message"
    BY <2>1
  <2>5. AsSent(Append(v.told, e), u.sent)
    BY ONLY <1>1, <2>2, <2>3, <2>4, AsSentNext
  <2>. QED BY <2>5
<1>5. ~ToldClose(v2.told, <<"peer", TRUE>>)
  <2>1. ~ToldClose(v.told, <<"peer", TRUE>>)
    BY DEF Up
  <2>2. PICK told : told = v.told
    OBVIOUS
  <2>3. PICK next : next = Append(told, e)
    OBVIOUS
  <2>4. /\ next[Len(told) + 1] = e
        /\ DOMAIN next = 1 .. Len(told) + 1 /\ DOMAIN told = 1 .. Len(told) /\ Len(told) \in Nat
        /\ \A i \in 1 .. Len(told) : next[i] = told[i]
    BY <1>1, <2>2, <2>3, AppendedEvent
  <2>5. e # ServerEvent("close", <<"peer", TRUE>>)
    <3>1. PICK g : g = ServerEvent("close", <<"peer", TRUE>>)
      OBVIOUS
    <3>2. g.type = "close"
      BY ONLY <3>1 DEF ServerEvent
    <3>3. e.type = "message"
      OBVIOUS
    <3>. QED BY ONLY <3>1, <3>2, <3>3
  <2>6. ASSUME NEW i \in DOMAIN next, next[i] = ServerEvent("close", <<"peer", TRUE>>)
        PROVE  FALSE
    <3>1. i # Len(told) + 1
      BY <2>4, <2>5, <2>6
    <3>2. i \in DOMAIN told /\ told[i] = ServerEvent("close", <<"peer", TRUE>>)
      BY <2>4, <2>6, <3>1
    <3>. QED BY <2>1, <2>2, <3>2 DEF ToldClose
  <2>. QED BY <2>2, <2>3, <2>6 DEF ToldClose
<1>. QED BY <1>3, <1>4, <1>5, UpTaken

LEMMA CloseServed ==
  ASSUME NEW v \in Servers, NEW v2 \in Servers, NEW u \in Clients, NEW n \in Links,
         v.ws, v2.ws, v.header = <<>>, v2.header = <<>>, Up(v, u, n.server), Len(v.recv) >= 2,
         v2.recv = SubSeq(v.recv, 3, Len(v.recv)), v2.frag = <<>>,
         ~v.closeRcvd, v2.closeRcvd, Served(v) = Len(u.sent),
         u.native \notin {"connecting", "open"}, v2.told = v.told
  PROVE  Up(v2, u, n.server)
<1>1. Served(v2) = Served(v) /\ Served(v) \in Nat
  BY Counts DEF Served
<1>2. UpRead(v2) = UpRead(v) + 2
  BY <1>1 DEF UpRead
<1>3. AsSent(v2.told, u.sent) /\ ~ToldClose(v2.told, <<"peer", TRUE>>)
  BY DEF Up
<1>. QED BY <1>1, <1>2, <1>3, UpTaken

LEMMA FeedStepUp ==
  ASSUME NEW p, p = "curl", NEW c, Kept(p, c), Up(c.srv, c.cli, c.net.server), c.srv.feeding,
         NEW d, d = FeedStep(c)
  PROVE  Kept(p, d) /\ d.cli = c.cli /\ Up(d.srv, d.cli, d.net.server)
<1>1. c \in Conversations /\ c.srv \in Servers /\ c.cli \in Clients /\ c.net \in Links
  BY DEF Kept, Conversations
<1>2. Kept(p, c) /\ c.srv.ws /\ c.srv.readyState # "closed" /\ c.srv.header = <<>>
  BY DEF Kept, ServerOrder
<1>3. Up(c.srv, c.cli, c.net.server)
  OBVIOUS
<1>4. PICK buf \in Seq(UpUnits) : buf = c.srv.recv
  BY <1>1, ServerFields
<1>5. ASSUME d = [c EXCEPT !.srv.feeding = FALSE]
      PROVE  Kept(p, d) /\ d.cli = c.cli /\ Up(d.srv, d.cli, d.net.server)
  <2>0. Kept(p, c) /\ c.srv.ws
    BY <1>2
  <2>1. Kept(p, d) /\ d.cli = c.cli /\ d.srv = [c.srv EXCEPT !.feeding = FALSE] /\ d.net = c.net
    <3>1. Kept(p, d)
      BY ONLY <1>5, <2>0, FeedingOff
    <3>. QED BY <1>1, <1>5, <3>1 DEF Conversations
  <2>2. PICK v : v = [c.srv EXCEPT !.feeding = FALSE]
    OBVIOUS
  <2>3. /\ v.header = c.srv.header /\ v.recv = c.srv.recv /\ v.ws = c.srv.ws /\ v.told = c.srv.told
        /\ v.closeRcvd = c.srv.closeRcvd /\ v.frag = c.srv.frag
    BY <1>1, <2>2 DEF Servers
  <2>4. Up(v, c.cli, c.net.server)
    BY <1>3, <2>3, UpSame
  <2>. QED BY <2>1, <2>2, <2>4
<1>6. CASE buf = <<>>
  <2>1. d = [c EXCEPT !.srv.feeding = FALSE]
    BY <1>4, <1>6 DEF FeedStep
  <2>. QED BY <1>5, <2>1
<1>7. CASE buf # <<>>
  <2>1. /\ ~c.srv.closeRcvd
        /\ IF Served(c.srv) < Len(c.cli.sent)
           THEN buf[1].frame = Frame("data", c.cli.sent[Served(c.srv) + 1], TRUE)
           ELSE /\ buf[1].frame = Frame("close", 0, TRUE) /\ Served(c.srv) = Len(c.cli.sent)
                /\ c.cli.native \notin {"connecting", "open"}
    BY <1>1, <1>2, <1>3, <1>4, <1>7, FrontFrame
  <2>2. PICK f : f = buf[1].frame
    OBVIOUS
  <2>3. f.op \in {"data", "close"}
    BY <2>1, <2>2 DEF Frame
  <2>4. CASE Len(buf) < 2
    <3>1. d = [c EXCEPT !.srv.feeding = FALSE]
      BY <1>4, <1>7, <2>2, <2>3, <2>4 DEF FeedStep, BadHeaders
    <3>. QED BY <1>5, <3>1
  <2>5. CASE ~(Len(buf) < 2)
    <3>1. PICK rest \in Seq(UpUnits) : rest = SubSeq(buf, 3, Len(buf))
      <4>1. SubSeq(buf, 3, Len(buf)) \in Seq(UpUnits)
        BY <1>4
      <4>. QED BY <4>1
    <3>2. PICK v : v = [c.srv EXCEPT !.recv = rest]
      OBVIOUS
    <3>3. /\ v \in Servers /\ v.ws = c.srv.ws /\ v.header = c.srv.header /\ v.told = c.srv.told
          /\ v.sent = c.srv.sent /\ v.closeSent = c.srv.closeSent
          /\ v.readyState = c.srv.readyState /\ v.timer = c.srv.timer
          /\ v.feeding = c.srv.feeding /\ v.failing = c.srv.failing /\ v.closeRcvd = c.srv.closeRcvd /\ v.frag = c.srv.frag
          /\ v.recv = rest
      BY <1>1, <3>1, <3>2 DEF Servers
    <3>4. PICK a : a = [c EXCEPT !.srv = v]
      OBVIOUS
    <3>5. d = HandleFrame(a, f)
      BY <1>1, <1>4, <1>7, <2>2, <2>3, <2>5, <3>1, <3>2, <3>4 DEF FeedStep, BadHeaders, Conversations, Servers
    <3>6. Kept(p, a) /\ a.net = c.net /\ a.srv = v /\ a.cli = c.cli
      <4>1. ServerOrder(c.srv, c.net.server) /\ OneCloseFrame(c.srv, c.net.client.in)
        BY DEF Kept
      <4>2. v.timer => c.srv.readyState # "closed"
        BY <3>3, <4>1 DEF ServerOrder
      <4>3. v.feeding => c.srv.readyState # "closed"
        BY <1>2
      <4>4. ServerOrder(v, c.net.server)
        BY <1>2, <3>3, <4>1, <4>2, <4>3, OrderSame
      <4>5. v.closeSent => v.readyState # "open"
        BY <3>3, <4>1 DEF OneCloseFrame
      <4>6. v.sent = c.srv.sent /\ v.closeSent = c.srv.closeSent /\ v.ws = c.srv.ws /\ v \in Servers
        BY <3>3
      <4>7. Kept(p, c)
        OBVIOUS
      <4>. QED BY ONLY <3>4, <4>4, <4>5, <4>6, <4>7, SrvKept
    <3>7. c.srv.frag = <<>>
      BY <1>3 DEF Up
    <3>8. Len(c.srv.recv) >= 2 /\ rest = SubSeq(c.srv.recv, 3, Len(c.srv.recv))
      <4>1. Len(buf) \in Nat
        BY <1>4
      <4>. QED BY <1>4, <2>5, <3>1, <4>1
    <3>9. CASE Served(c.srv) < Len(c.cli.sent)
      <4>1. PICK piece : piece = c.cli.sent[Served(c.srv) + 1]
        OBVIOUS
      <4>2. piece \in 1 .. MaxUp
        <5>1. c.cli.sent \in Seq(1 .. MaxUp) /\ Served(c.srv) \in Nat
          BY <1>1, ClientFields, Counts
        <5>2. Served(c.srv) + 1 \in 1 .. Len(c.cli.sent)
          BY <3>9, <5>1
        <5>3. PICK sent \in Seq(1 .. MaxUp) : sent = c.cli.sent
          BY <5>1
        <5>4. PICK k : k = Served(c.srv) + 1
          OBVIOUS
        <5>5. k \in 1 .. Len(sent) /\ piece = sent[k]
          BY <4>1, <5>2, <5>3, <5>4
        <5>6. sent \in Seq(1 .. MaxUp)
          OBVIOUS
        <5>. QED BY ONLY <5>5, <5>6, ElementOfSeq
      <4>3. f = [op |-> "data", piece |-> piece, last |-> TRUE]
        BY <2>1, <2>2, <3>9, <4>1 DEF Frame
      <4>4. f.op = "data" /\ f.piece = piece /\ f.last
        BY <4>3
      <4>5. PICK data : data = <<piece>>
        OBVIOUS
      <4>6. data \in Whole /\ 0 \notin Range(data)
        <5>1. data \in Whole
          BY <4>2, <4>5 DEF Whole
        <5>2. Range(data) = {piece}
          BY <4>5 DEF Range
        <5>3. piece # 0
          BY <4>2, WebSocketAssumption
        <5>. QED BY <5>1, <5>2, <5>3
      <4>7. [a EXCEPT !.srv.frag = <<>>] = a
        <5>1. v \in Servers /\ v.frag = <<>>
          BY <3>3, <3>7
        <5>2. [v EXCEPT !.frag = <<>>] = v
          BY ONLY <5>1 DEF Servers
        <5>3. a \in Conversations /\ a.srv = v
          BY <3>6 DEF Kept
        <5>4. [a EXCEPT !.srv = [v EXCEPT !.frag = <<>>]] = a
          BY ONLY <5>2, <5>3 DEF Conversations
        <5>. QED BY <5>3, <5>4
      <4>8. d = TellServer(a, "message", data)
        <5>1. Append(a.srv.frag, f.piece) = data
          <6>1. a.srv.frag = <<>>
            BY <3>3, <3>6, <3>7
          <6>2. Append(<<>>, piece) = <<piece>>
            OBVIOUS
          <6>. QED BY <4>4, <4>5, <6>1, <6>2
        <5>2. ~((f.op = "cont") # (a.srv.frag # <<>>))
          BY <3>3, <3>6, <3>7, <4>4
        <5>3. HandleData(a, f) = Deliver(a, data)
          BY <4>4, <4>7, <5>1, <5>2 DEF HandleData
        <5>4. HandleFrame(a, f) = HandleData(a, f)
          BY <4>4 DEF HandleFrame, Control
        <5>. QED BY <3>5, <4>6, <5>3, <5>4 DEF Deliver
      <4>9. PICK e : e = ServerEvent("message", data)
        OBVIOUS
      <4>10. a.srv.ws /\ a.srv.readyState # "closed" /\ data \in Whole /\ Kept(p, a)
        BY <1>2, <3>3, <3>6, <4>6
      <4>11. /\ Kept(p, d) /\ d.net = a.net /\ d.cli = a.cli
             /\ d.srv = [a.srv EXCEPT !.told = Append(@, e)] /\ e \in Told
        <5>1. Kept(p, d) /\ d.net = a.net /\ d.cli = a.cli
          <6>1. Kept(p, d)
            BY ONLY <4>8, <4>10, MessageKept
          <6>. QED BY <3>6, <4>8, <6>1 DEF TellServer, Kept, Conversations
        <5>2. d.srv = [a.srv EXCEPT !.told = Append(@, e)]
          BY <1>1, <3>6, <4>8, <4>9 DEF TellServer, Kept, Conversations
        <5>3. e \in Told
          BY ONLY <4>8, <4>9, <4>10, MessageKept
        <5>. QED BY <5>1, <5>2, <5>3
      <4>12. PICK v2 : v2 = d.srv
        OBVIOUS
      <4>13. /\ v2 \in Servers /\ v2.ws = v.ws /\ v2.header = v.header /\ v2.recv = v.recv
             /\ v2.frag = v.frag /\ v2.closeRcvd = v.closeRcvd /\ v2.told = Append(v.told, e)
        <5>1. v2 \in Servers
          BY <4>11, <4>12 DEF Kept, Conversations
        <5>2. v2 = [v EXCEPT !.told = Append(v.told, e)] /\ v \in Servers
          BY <3>3, <3>6, <4>11, <4>12
        <5>. QED BY ONLY <5>1, <5>2 DEF Servers
      <4>14. e.type = "message" /\ e.data = <<c.cli.sent[Served(c.srv) + 1]>> /\ e \in Told
        BY <4>1, <4>5, <4>9, <4>11 DEF ServerEvent
      <4>15. /\ v2.ws /\ v2.header = <<>> /\ v2.recv = SubSeq(c.srv.recv, 3, Len(c.srv.recv))
             /\ v2.frag = <<>> /\ ~v2.closeRcvd /\ v2.told = Append(c.srv.told, e) /\ v2 \in Servers
        BY <1>2, <2>1, <3>3, <3>7, <3>8, <4>13
      <4>16. ~c.srv.closeRcvd /\ Served(c.srv) < Len(c.cli.sent) /\ Len(c.srv.recv) >= 2
        BY <2>1, <3>8, <3>9
      <4>17. Up(v2, c.cli, c.net.server)
        BY ONLY <1>1, <1>2, <1>3, <4>14, <4>15, <4>16, MessageServed
      <4>. QED BY <3>6, <4>11, <4>12, <4>17
    <3>10. CASE ~(Served(c.srv) < Len(c.cli.sent))
      <4>1. f = [op |-> "close", piece |-> 0, last |-> TRUE]
        BY <2>1, <2>2, <3>10 DEF Frame
      <4>2. f.op = "close" /\ f.last
        BY <4>1
      <4>3. d = CloseFrame(a)
        BY <3>5, <4>2 DEF HandleFrame, HandleControl, Control
      <4>4. a.srv.ws /\ a.srv.readyState # "closed" /\ Kept(p, a)
        BY <1>2, <3>3, <3>6
      <4>5. /\ Kept(p, d) /\ d.cli = a.cli /\ d.srv.ws
            /\ d.srv.told = a.srv.told /\ d.srv.closeRcvd /\ d.srv.recv = a.srv.recv
            /\ d.srv.header = a.srv.header /\ d.srv.frag = a.srv.frag
        <5>1. Kept(p, d) /\ d.cli = a.cli /\ d.srv.ws
          BY ONLY <4>3, <4>4, CloseFrameKept
        <5>2. d.srv.told = a.srv.told /\ d.srv.closeRcvd /\ d.srv.recv = a.srv.recv
          BY ONLY <4>3, <4>4, CloseFrameKept
        <5>3. d.srv.header = a.srv.header /\ d.srv.frag = a.srv.frag
          BY ONLY <4>3, <4>4, CloseFrameKept
        <5>. QED BY <5>1, <5>2, <5>3
      <4>6. PICK m \in Links : /\ Ends(m, d.net) /\ m.server.in = a.net.server.in
                               /\ m.server.events = a.net.server.events
                               /\ m.server.closed = a.net.server.closed
        BY ONLY <4>3, <4>4, CloseFrameKept
      <4>7. PICK v2 : v2 = d.srv
        OBVIOUS
      <4>8. v2 \in Servers
        BY <4>5, <4>7 DEF Kept, Conversations
      <4>9. /\ v2.ws /\ v2.header = <<>> /\ v2.recv = SubSeq(c.srv.recv, 3, Len(c.srv.recv))
            /\ v2.frag = <<>> /\ v2.closeRcvd /\ v2.told = c.srv.told
        BY <1>2, <3>3, <3>6, <3>7, <3>8, <4>5, <4>7
      <4>10. /\ ~c.srv.closeRcvd /\ Served(c.srv) = Len(c.cli.sent) /\ Len(c.srv.recv) >= 2
             /\ c.cli.native \notin {"connecting", "open"}
        BY <2>1, <3>8, <3>10
      <4>11. Up(v2, c.cli, c.net.server)
        BY ONLY <1>1, <1>2, <1>3, <4>8, <4>9, <4>10, CloseServed
      <4>12. /\ m.server.in = c.net.server.in /\ m.server.events = c.net.server.events
             /\ m.server.closed = c.net.server.closed
        BY <3>6, <4>6
      <4>13. Queued(m.server) = Queued(c.net.server)
        BY <4>12 DEF Queued
      <4>14. Up(v2, c.cli, m.server)
        BY <4>11, <4>12, <4>13, UpSame
      <4>15. ServerOrder(c.srv, m.server)
        BY <4>12 DEF Kept, ServerOrder, EventsOrdered
      <4>16. PICK n : n = d.net
        OBVIOUS
      <4>17. Ends(m, n) /\ m \in Links
        BY <4>6, <4>16
      <4>18. Up(v2, c.cli, n.server)
        BY ONLY <1>1, <4>8, <4>14, <4>15, <4>17, EndsUp
      <4>. QED BY <3>6, <4>5, <4>7, <4>16, <4>18
    <3>. QED BY <3>9, <3>10
  <2>. QED BY <2>4, <2>5
<1>. QED BY <1>6, <1>7

-------------------------------------------------------------------------------
(* The drain of the server's end.                                            *)

\* An event of the socket taken.
LEMMA TakeOf ==
  ASSUME NEW n \in Links, EventsOrdered(n.server), n.server.events # <<>>,
         NEW m, m = TakeEvent(n, "server"), NEW e, e = Head(n.server.events)
  PROVE  /\ m \in Links /\ m.client.in = n.client.in /\ m.client.closed = n.client.closed
         /\ Writable(m, "server") = Writable(n, "server")
         /\ m.server.in = n.server.in /\ m.server.closed = n.server.closed
         /\ EventsOrdered(m.server) /\ Queued(m.server) = <<>>
         /\ e \in SocketEvents
         /\ Queued(n.server) = IF e.type = "data" THEN e.data ELSE <<>>
         /\ e.type = "data" => e.data # <<>>
         /\ e.type = "close" => m.server.events = <<>> /\ m.server.closed
<1>1. PICK evs \in Seq(SocketEvents) : evs = n.server.events
  BY DEF Links, Endpoints
<1>2. PICK rest : rest = Tail(evs)
  OBVIOUS
<1>3. /\ rest \in Seq(SocketEvents) /\ Len(rest) = Len(evs) - 1 /\ Len(evs) \in Nat /\ Len(evs) >= 1
      /\ DOMAIN rest = 1 .. Len(rest) /\ DOMAIN evs = 1 .. Len(evs)
      /\ \A i \in 1 .. Len(rest) : rest[i] = evs[i + 1]
      /\ e = evs[1] /\ e \in SocketEvents
  BY <1>1, <1>2
<1>4. m = [n EXCEPT !.server = [n.server EXCEPT !.events = rest]]
  BY <1>1, <1>2 DEF TakeEvent, Links
<1>5. /\ m \in Links /\ m.client = n.client
      /\ m.server.in = n.server.in /\ m.server.closed = n.server.closed
      /\ m.server.ended = n.server.ended /\ m.server.events = rest
  BY <1>3, <1>4 DEF Links, Endpoints
<1>6. \A i \in 1 .. Len(evs) : /\ evs[i].type = "close" => i = Len(evs) /\ n.server.closed
                               /\ evs[i].type = "data" => i = 1 /\ evs[i].data # <<>>
  BY <1>1, <1>3 DEF EventsOrdered
<1>7. \A i \in 1 .. Len(rest) : /\ rest[i].type = "close" => i = Len(rest) /\ n.server.closed
                                /\ rest[i].type # "data"
  <2>1. ASSUME NEW i \in 1 .. Len(rest)
        PROVE  /\ rest[i].type = "close" => i = Len(rest) /\ n.server.closed
               /\ rest[i].type # "data"
    <3>1. i + 1 \in 1 .. Len(evs) /\ i + 1 # 1 /\ (i + 1 = Len(evs) => i = Len(rest))
      BY <1>3
    <3>2. rest[i] = evs[i + 1]
      BY <1>3
    <3>. QED BY <1>6, <3>1, <3>2
  <2>. QED BY <2>1
<1>8. EventsOrdered(m.server) /\ Queued(m.server) = <<>>
  <2>1. EventsOrdered(m.server)
    BY <1>3, <1>5, <1>7 DEF EventsOrdered
  <2>2. rest # <<>> => 1 \in 1 .. Len(rest)
    BY <1>3
  <2>3. Queued(m.server) = <<>>
    BY <1>5, <1>7, <2>2 DEF Queued
  <2>. QED BY <2>1, <2>3
<1>9. 1 \in 1 .. Len(evs) /\ evs # <<>>
  BY <1>1, <1>3
<1>10. e.type = "close" => rest = <<>> /\ n.server.closed
  BY <1>3, <1>6, <1>9
<1>11. e.type = "data" => e.data # <<>>
  BY <1>3, <1>6, <1>9
<1>12. Queued(n.server) = IF e.type = "data" THEN e.data ELSE <<>>
  BY <1>1, <1>3, <1>9 DEF Queued
<1>13. Writable(m, "server") = Writable(n, "server")
  BY <1>5 DEF Writable, Links, Endpoints
<1>14. m.client.in = n.client.in /\ m.client.closed = n.client.closed /\ (e.type = "close" => m.server.closed)
  BY <1>5, <1>10
<1>. QED BY <1>3, <1>5, <1>8, <1>10, <1>11, <1>12, <1>13, <1>14

LEMMA TakenKept ==
  ASSUME NEW p, NEW c, Kept(p, c), c.net.server.events # <<>>,
         NEW m, m = TakeEvent(c.net, "server"), NEW d, d = [c EXCEPT !.net = m]
  PROVE  /\ Kept(p, d) /\ d.srv = c.srv /\ d.cli = c.cli /\ d.net = m
         /\ d.srv.readyState # "closed"
<1>1. c \in Conversations /\ c.net \in Links /\ ServerOrder(c.srv, c.net.server)
  BY DEF Kept, Conversations
<1>2. EventsOrdered(c.net.server) /\ c.srv.readyState # "closed"
  BY <1>1 DEF ServerOrder
<1>3. PICK e : e = Head(c.net.server.events)
  OBVIOUS
<1>4. /\ m \in Links /\ m.client.in = c.net.client.in /\ m.client.closed = c.net.client.closed
      /\ Writable(m, "server") = Writable(c.net, "server")
      /\ m.server.closed = c.net.server.closed /\ EventsOrdered(m.server)
  BY <1>1, <1>2, <1>3, TakeOf
<1>5. d \in Conversations /\ d.net = m /\ d.srv = c.srv /\ d.cli = c.cli
  BY <1>1, <1>4, NetOf
<1>6. ServerOrder(c.srv, m.server)
  BY <1>1, <1>2, <1>4 DEF ServerOrder
<1>7. p = "curl" => Down(d.srv, d.cli, d.net)
  <2>. SUFFICES ASSUME p = "curl" PROVE Down(d.srv, d.cli, d.net)
    OBVIOUS
  <2>1. Down(c.srv, c.cli, c.net)
    BY DEF Kept
  <2>2. Down(c.srv, c.cli, m)
    BY <1>4, <2>1, DownSame
  <2>. QED BY <1>5, <2>2
<1>. QED BY <1>2, <1>4, <1>5, <1>6, <1>7 DEF Kept

\* What was queued goes to the buffers.
LEMMA UpFed ==
  ASSUME NEW v \in Servers, NEW v2 \in Servers, NEW u \in Clients, NEW n \in Links, NEW m \in Links,
         Up(v, u, n.server), m.server.in = n.server.in, m.server.closed = n.server.closed,
         Queued(m.server) = <<>>,
         v2.header \o v2.recv = (v.header \o v.recv) \o Queued(n.server),
         v2.ws = v.ws, v2.told = v.told, v2.closeRcvd = v.closeRcvd, v2.frag = v.frag
  PROVE  Up(v2, u, m.server)
<1>1. PICK a \in Seq(UpUnits) : a = v2.header \o v2.recv
  <2>1. v2.header \in Seq(UpUnits) /\ v2.recv \in Seq(UpUnits)
    BY ServerFields
  <2>2. v2.header \o v2.recv \in Seq(UpUnits)
    BY ONLY <2>1, ConcatProperties
  <2>. QED BY <2>2
<1>2. a \o <<>> = a
  OBVIOUS
<1>3. Upstream(v2, m.server) = Upstream(v, n.server)
  BY <1>1, <1>2 DEF Upstream
<1>4. UpRead(v2) = UpRead(v) /\ Served(v2) = Served(v)
  BY DEF UpRead, Served
<1>. QED BY <1>3, <1>4 DEF Up

\* The handshake: the reply is the first that the server writes.
LEMMA AcceptDown ==
  ASSUME NEW v, NEW v2, NEW u \in Clients, NEW l \in Links, NEW l2,
         Down(v, u, l), ~v.ws, v.sent = <<>>, v2.ws, v2.sent = <<>>, ~v.closeSent, ~v2.closeSent,
         Live(u) => ~l.client.closed,
         Writable(l2, "server") = Writable(l, "server"),
         l2.client.in = IF Writable(l, "server") /\ ~l.client.closed
                        THEN l.client.in \o Units(Frame("101", 0, TRUE)) ELSE l.client.in
  PROVE  Down(v2, u, l2)
<1>1. ASSUME Live(u), NEW n \in Nat, DownFrom(v, u, l, n)
      PROVE  DownFrom(v2, u, l2, n)
  <2>1. n = 0 /\ l.client.in = <<>> /\ Len(v.sent) = 0
    BY <1>1 DEF DownFrom
  <2>2. CASE ~Writable(l, "server")
    <3>1. l2.client.in = <<>>
      BY <2>1, <2>2
    <3>. QED BY <1>1, <2>1, <2>2, <3>1 DEF DownFrom
  <2>3. CASE Writable(l, "server")
    <3>1. PICK f : f = Frame("101", 0, TRUE)
      OBVIOUS
    <3>2. PICK wire : wire = Units(f)
      OBVIOUS
    <3>3. Len(wire) = 2
      BY <3>2 DEF Units
    <3>4. l2.client.in = wire
      <4>1. <<>> \o wire = wire
        BY <3>2 DEF Units
      <4>. QED BY <1>1, <2>1, <2>3, <3>1, <3>2, <4>1
    <3>5. Follows(wire, "101", v.sent, 0)
      BY <3>1, <3>2, FollowsFirst
    <3>6. Follows(l2.client.in, "101", v2.sent, n) /\ Len(l2.client.in) = 2 /\ Len(v2.sent) = 0
      BY <2>1, <3>3, <3>4, <3>5
    <3>7. n = DownRead(u) /\ u.partial = <<>>
      BY <1>1, <2>1 DEF DownFrom
    <3>8. n + Len(l2.client.in) = 2 /\ 2 + 2 * Len(v2.sent) = 2
      <4>1. n = 0
        BY <2>1
      <4>2. Len(l2.client.in) = 2 /\ Len(v2.sent) = 0
        BY <3>6
      <4>. QED BY ONLY <4>1, <4>2
    <3>9. n + Len(l2.client.in) <= 2 + 2 * Len(v2.sent) + 2
      BY ONLY <3>8
    <3>10. n + Len(l2.client.in) <= 2 + 2 * Len(v2.sent)
      BY ONLY <3>8
    <3>11. n + Len(l2.client.in) >= 2 + 2 * Len(v2.sent)
      BY ONLY <3>8
    <3>12. Follows(l2.client.in, "101", v2.sent, n) /\ v2.ws
      BY <3>6
    <3>. QED BY ONLY <3>7, <3>9, <3>10, <3>11, <3>12 DEF DownFrom
  <2>. QED BY <2>2, <2>3
<1>. QED BY <1>1 DEF Down

Accepted(c, rest, d) ==
  /\ d.cli = c.cli
  /\ d.srv.ws /\ d.srv.header = <<>> /\ d.srv.recv = rest /\ ~d.srv.closeRcvd
  /\ d.srv.frag = <<>> /\ d.srv.told = <<ServerEvent("connection", <<>>)>>
  /\ d.net.server.in = c.net.server.in /\ d.net.server.events = c.net.server.events
  /\ d.net.server.closed = c.net.server.closed

LEMMA AcceptKept ==
  ASSUME NEW p, NEW c, Kept(p, c), ~c.srv.ws, NEW rest \in Seq(UpUnits),
         NEW d, d = Accept([c EXCEPT !.srv.header = <<>>], rest)
  PROVE  Kept(p, d) /\ Accepted(c, rest, d)
<1>1. c \in Conversations /\ c.srv \in Servers /\ c.net \in Links /\ c.cli \in Clients
  BY DEF Kept, Conversations
<1>2. /\ ~c.srv.closeSent /\ ~c.srv.closeRcvd /\ c.srv.recv = <<>> /\ ~c.srv.feeding
      /\ c.srv.told = <<>> /\ c.srv.sent = <<>> /\ c.srv.frag = <<>> /\ ~c.srv.timer
      /\ EventsOrdered(c.net.server)
  BY DEF Kept, ServerOrder
<1>3. PICK e : e = ServerEvent("connection", <<>>)
  OBVIOUS
<1>4. e \in Told /\ e.type = "connection"
  BY <1>3 DEF ServerEvent, Told, Data
<1>5. PICK v : v = [c.srv EXCEPT !.header = <<>>, !.ws = TRUE, !.readyState = "open",
                                 !.told = <<e>>, !.recv = rest, !.feeding = (rest # <<>>)]
  OBVIOUS
<1>6. /\ v \in Servers /\ v.ws /\ v.header = <<>> /\ v.readyState = "open" /\ v.told = <<e>>
      /\ v.recv = rest /\ v.closeSent = c.srv.closeSent /\ v.closeRcvd = c.srv.closeRcvd
      /\ v.frag = c.srv.frag /\ v.sent = c.srv.sent /\ v.timer = c.srv.timer
  <2>1. <<e>> \in Seq(Told) /\ (rest # <<>>) \in BOOLEAN /\ <<>> \in Seq(UpUnits)
    BY <1>4
  <2>. QED BY <1>1, <1>5, <2>1 DEF Servers
<1>7. PICK u \in Seq(DownUnits) : u = Units(Frame("101", 0, TRUE))
  BY UnitsDown DEF DownFrames
<1>8. PICK m : m = SocketWrite(c.net, "server", u)
  OBVIOUS
<1>9. /\ m \in Links /\ m.client.closed = c.net.client.closed
      /\ Writable(m, "server") = Writable(c.net, "server")
      /\ m.server.in = c.net.server.in /\ m.server.events = c.net.server.events
      /\ m.server.closed = c.net.server.closed
      /\ m.client.in = IF Writable(c.net, "server") /\ ~c.net.client.closed
                       THEN c.net.client.in \o u ELSE c.net.client.in
  <2>1. c.net \in Links /\ u \in Seq(DownUnits)
    BY <1>1
  <2>. QED BY ONLY <1>8, <2>1, WriteOnly
<1>10. d = [[[c EXCEPT !.srv = v] EXCEPT !.net = m] EXCEPT !.clients = TRUE]
  <2>1. PICK x : x = [c.srv EXCEPT !.header = <<>>, !.ws = TRUE, !.readyState = "open",
                                   !.told = <<e>>]
    OBVIOUS
  <2>2. PICK up : up = [[[c EXCEPT !.srv = x] EXCEPT !.net = m] EXCEPT !.clients = TRUE]
    OBVIOUS
  <2>3. Append(c.srv.told, e) = <<e>>
    <3>1. Append(<<>>, e) = <<e>>
      OBVIOUS
    <3>. QED BY <1>2, <3>1
  <2>4. TellServer([WriteFrame([c EXCEPT !.srv.header = <<>>], Frame("101", 0, TRUE)) EXCEPT
                      !.srv.ws = TRUE, !.srv.readyState = "open", !.clients = TRUE],
                   "connection", <<>>) = up
    BY <1>1, <1>3, <1>7, <1>8, <2>1, <2>2, <2>3 DEF TellServer, WriteFrame, Conversations, Servers
  <2>5. d = IF rest = <<>> THEN up ELSE Feed(up, rest)
    BY <2>4 DEF Accept
  <2>6. CASE rest = <<>>
    <3>1. v = x
      <4>1. (rest # <<>>) = FALSE /\ c.srv.feeding = FALSE
        BY <1>1, <1>2, <2>6 DEF Servers
      <4>. QED BY <1>1, <1>2, <1>5, <2>1, <2>6, <4>1 DEF Servers
    <3>. QED BY <2>2, <2>5, <2>6, <3>1
  <2>7. CASE rest # <<>>
    <3>1. c.srv.recv \o rest = rest
      <4>1. <<>> \o rest = rest
        OBVIOUS
      <4>. QED BY <1>2, <4>1
    <3>2. v = [x EXCEPT !.recv = @ \o rest, !.feeding = TRUE]
      <4>1. (rest # <<>>) = TRUE
        BY <2>7
      <4>2. x.recv = c.srv.recv
        BY <1>1, <2>1 DEF Servers
      <4>. QED BY <1>1, <1>5, <2>1, <3>1, <4>1, <4>2 DEF Servers
    <3>3. Feed(up, rest) = [up EXCEPT !.srv = [x EXCEPT !.recv = @ \o rest, !.feeding = TRUE]]
      BY <1>1, <2>2 DEF Feed, Conversations
    <3>. QED BY <1>1, <2>2, <2>5, <2>7, <3>2, <3>3 DEF Conversations
  <2>. QED BY <2>6, <2>7
<1>11. d \in Conversations /\ d.net = m /\ d.srv = v /\ d.cli = c.cli
  BY <1>1, <1>6, <1>9, <1>10 DEF Conversations
<1>12. ServerOrder(v, m.server)
  <2>1. EventsOrdered(m.server)
    BY <1>2, <1>9 DEF EventsOrdered
  <2>2. \A i \in DOMAIN <<e>> : <<e>>[i].type = "connection"
    BY <1>4
  <2>3. ~v.timer
    BY <1>2, <1>6
  <2>. QED BY <1>6, <2>1, <2>2, <2>3 DEF ServerOrder
<1>13. OneCloseFrame(v, m.client.in)
  <2>1. PICK wire \in Seq(DownUnits) : wire = c.net.client.in
    BY <1>1 DEF Links, Endpoints
  <2>2. \A i \in DOMAIN wire : wire[i].frame.op # "close"
    BY <1>2, <2>1 DEF Kept, OneCloseFrame
  <2>3. PICK f : f = Frame("101", 0, TRUE)
    OBVIOUS
  <2>4. f.op # "close"
    BY <2>3 DEF Frame
  <2>5. PICK next : next = wire \o Units(f)
    OBVIOUS
  <2>6. wire \in Seq(DownUnits)
    OBVIOUS
  <2>7. /\ \A i \in 1 .. Len(wire) : next[i] = wire[i]
        /\ next[Len(wire) + 1] = [frame |-> f, half |-> 1]
        /\ next[Len(wire) + 2] = [frame |-> f, half |-> 2]
        /\ DOMAIN next = 1 .. Len(wire) + 2 /\ DOMAIN wire = 1 .. Len(wire) /\ Len(wire) \in Nat
    BY ONLY <2>5, <2>6, TwoMore
  <2>8. \A i \in DOMAIN next : next[i].frame.op # "close"
    <3>1. \A i \in DOMAIN next : i \in DOMAIN wire \/ i = Len(wire) + 1 \/ i = Len(wire) + 2
      <4>1. DOMAIN next = 1 .. Len(wire) + 2 /\ DOMAIN wire = 1 .. Len(wire) /\ Len(wire) \in Nat
        BY <2>7
      <4>. QED BY ONLY <4>1
    <3>. QED BY <2>2, <2>4, <2>7, <3>1
  <2>9. \A i \in DOMAIN m.client.in : m.client.in[i].frame.op # "close"
    BY <1>7, <1>9, <2>1, <2>2, <2>3, <2>5, <2>8
  <2>. QED BY <1>2, <1>6, <2>9 DEF OneCloseFrame
<1>14. p = "curl" => Down(v, c.cli, m)
  <2>1. SUFFICES ASSUME p = "curl" PROVE Down(v, c.cli, m)
    OBVIOUS
  <2>2. Down(c.srv, c.cli, c.net) /\ (Live(c.cli) => ~c.net.client.closed)
    BY <2>1 DEF Kept, Live
  <2>3. v.sent = <<>> /\ ~v.closeSent
    BY <1>2, <1>6
  <2>. QED BY <1>1, <1>2, <1>6, <1>7, <1>9, <2>2, <2>3, AcceptDown
<1>15. Kept(p, d)
  BY <1>9, <1>11, <1>12, <1>13, <1>14 DEF Kept
<1>. QED BY <1>2, <1>3, <1>6, <1>9, <1>11, <1>15 DEF Accepted

\* What the server sends of refusals and pongs, and the end after it.
LEMMA RefuseKept ==
  ASSUME NEW p, p # "curl", NEW c, Kept(p, c), ~c.srv.ws,
         NEW d, d = Refuse([c EXCEPT !.srv.header = <<>>])
  PROVE  Kept(p, d) /\ d.cli = c.cli
<1>1. c \in Conversations /\ c.srv \in Servers /\ c.net \in Links
  BY DEF Kept, Conversations
<1>2. ServerOrder(c.srv, c.net.server) /\ ~c.srv.closeSent
  BY DEF Kept, ServerOrder
<1>3. PICK v : v = [c.srv EXCEPT !.header = <<>>]
  OBVIOUS
<1>4. /\ v \in Servers /\ v.ws = c.srv.ws /\ v.told = c.srv.told /\ v.sent = c.srv.sent
      /\ v.closeSent = c.srv.closeSent /\ v.readyState = c.srv.readyState
      /\ v.timer = c.srv.timer /\ v.feeding = c.srv.feeding /\ v.failing = c.srv.failing /\ v.recv = c.srv.recv
      /\ v.closeRcvd = c.srv.closeRcvd /\ v.frag = c.srv.frag
  <2>1. <<>> \in Seq(UpUnits)
    OBVIOUS
  <2>. QED BY <1>1, <1>3, <2>1 DEF Servers
<1>5. ServerOrder(v, c.net.server)
  BY <1>2, <1>4 DEF ServerOrder
<1>6. PICK a : a = [c EXCEPT !.srv = v]
  OBVIOUS
<1>7. Kept(p, a) /\ a.net = c.net /\ a.srv = v /\ a.cli = c.cli
  <2>1. v.closeSent => v.readyState # "open"
    BY <1>2, <1>4
  <2>2. v.sent = c.srv.sent /\ v.closeSent = c.srv.closeSent /\ v.ws = c.srv.ws /\ v \in Servers
    BY <1>4
  <2>3. Kept(p, c)
    OBVIOUS
  <2>. QED BY ONLY <1>5, <1>6, <2>1, <2>2, <2>3, SrvKept
<1>8. PICK f : f = Frame("400", 0, TRUE)
  OBVIOUS
<1>9. f \in DownFrames
  BY <1>8 DEF DownFrames
<1>10. f.op # "close"
  BY <1>8 DEF Frame
<1>11. PICK b : b = WriteFrame(a, f)
  OBVIOUS
<1>12. p # "curl" /\ ~a.srv.closeSent /\ Kept(p, a)
  BY <1>2, <1>4, <1>7
<1>13. Kept(p, b)
  BY ONLY <1>9, <1>10, <1>11, <1>12, RawWriteKept
<1>14. b.cli = a.cli
  BY ONLY <1>9, <1>10, <1>11, <1>12, RawWriteKept
<1>15. d = EndSocket(b)
  BY <1>1, <1>3, <1>6, <1>8, <1>11 DEF Refuse, WriteFrame, Conversations
<1>16. Kept(p, d) /\ d.cli = b.cli
  BY ONLY <1>13, <1>15, EndSocketKept
<1>. QED BY <1>7, <1>14, <1>16

\* The bytes wait for more.
LEMMA HeaderKept ==
  ASSUME NEW p, NEW c, Kept(p, c), ~c.srv.ws, NEW buf \in Seq(UpUnits),
         NEW d, d = [c EXCEPT !.srv.header = buf]
  PROVE  /\ Kept(p, d) /\ d.cli = c.cli /\ d.net = c.net
         /\ ~d.srv.ws /\ d.srv.header = buf /\ d.srv.recv = c.srv.recv /\ d.srv.told = c.srv.told
         /\ d.srv.closeRcvd = c.srv.closeRcvd /\ d.srv.frag = c.srv.frag
<1>1. c \in Conversations /\ c.srv \in Servers /\ c.net \in Links
  BY DEF Kept, Conversations
<1>2. ServerOrder(c.srv, c.net.server) /\ ~c.srv.closeSent
  BY DEF Kept, ServerOrder
<1>3. PICK v : v = [c.srv EXCEPT !.header = buf]
  OBVIOUS
<1>4. /\ v \in Servers /\ v.ws = c.srv.ws /\ v.told = c.srv.told /\ v.sent = c.srv.sent
      /\ v.closeSent = c.srv.closeSent /\ v.readyState = c.srv.readyState
      /\ v.timer = c.srv.timer /\ v.feeding = c.srv.feeding /\ v.failing = c.srv.failing /\ v.recv = c.srv.recv
      /\ v.closeRcvd = c.srv.closeRcvd /\ v.frag = c.srv.frag /\ v.header = buf
  BY <1>1, <1>3 DEF Servers
<1>5. ServerOrder(v, c.net.server)
  BY <1>2, <1>4 DEF ServerOrder
<1>6. d = [c EXCEPT !.srv = v]
  BY <1>1, <1>3 DEF Conversations
<1>7. Kept(p, d) /\ d.net = c.net /\ d.srv = v /\ d.cli = c.cli
  <2>1. v.closeSent => v.readyState # "open"
    BY <1>2, <1>4
  <2>2. v.sent = c.srv.sent /\ v.closeSent = c.srv.closeSent /\ v.ws = c.srv.ws /\ v \in Servers
    BY <1>4
  <2>3. Kept(p, c)
    OBVIOUS
  <2>. QED BY ONLY <1>5, <1>6, <2>1, <2>2, <2>3, SrvKept
<1>. QED BY <1>4, <1>7

\* The server's steps leave the client's socket alone.
Keeps(p, c, d) == Kept(p, d) /\ d.cli = c.cli

LEMMA HandshakeKept ==
  ASSUME NEW p, NEW c, Kept(p, c), ~c.srv.ws, NEW units \in Seq(UpUnits),
         NEW buf, buf = c.srv.header \o units, buf # <<>>,
         p = "curl" => buf[1].frame.op = "upgrade",
         NEW d, d = Handshake(c, units)
  PROVE  Keeps(p, c, d)
<1>. SUFFICES Kept(p, d) /\ d.cli = c.cli
  BY DEF Keeps
<1>1. c \in Conversations /\ c.srv \in Servers /\ c.net \in Links
  BY DEF Kept, Conversations
<1>2. buf \in Seq(UpUnits)
  <2>1. c.srv.header \in Seq(UpUnits) /\ units \in Seq(UpUnits)
    BY <1>1, ServerFields
  <2>. QED BY ONLY <2>1, buf = c.srv.header \o units, ConcatProperties
<1>3. Kept(p, c) /\ ~c.srv.ws /\ buf \in Seq(UpUnits)
  BY <1>2
<1>4. CASE d = [[c EXCEPT !.srv.header = buf] EXCEPT !.net = SocketDestroy(c.net, "server")]
  <2>1. PICK a : a = [c EXCEPT !.srv.header = buf]
    OBVIOUS
  <2>2. Kept(p, a)
    BY ONLY <1>3, <2>1, HeaderKept
  <2>3. a.cli = c.cli /\ a.net = c.net
    BY <1>1, <2>1 DEF Conversations
  <2>4. PICK m : m = SocketDestroy(c.net, "server")
    OBVIOUS
  <2>5. Ends(a.net, m)
    BY <1>1, <2>3, <2>4, DestroyEnds
  <2>6. d = [a EXCEPT !.net = m]
    BY <1>4, <2>1, <2>4
  <2>7. Kept(p, d)
    BY ONLY <2>2, <2>5, <2>6, EndsKept
  <2>8. d.cli = a.cli
    BY <1>1, <1>4, <2>1 DEF Conversations
  <2>. QED BY <2>3, <2>7, <2>8
<1>5. CASE d = [c EXCEPT !.srv.header = buf]
  <2>1. Kept(p, d)
    BY ONLY <1>3, <1>5, HeaderKept
  <2>. QED BY <1>1, <1>5, <2>1 DEF Conversations
<1>6. CASE d = Accept([c EXCEPT !.srv.header = <<>>], SubSeq(buf, 3, Len(buf)))
  <2>1. PICK rest \in Seq(UpUnits) : rest = SubSeq(buf, 3, Len(buf))
    <3>1. SubSeq(buf, 3, Len(buf)) \in Seq(UpUnits)
      BY <1>2
    <3>. QED BY <3>1
  <2>2. rest \in Seq(UpUnits) /\ d = Accept([c EXCEPT !.srv.header = <<>>], rest)
    BY <1>6, <2>1
  <2>3. Kept(p, d)
    BY ONLY <1>3, <2>2, AcceptKept
  <2>4. d.cli = c.cli
    <3>1. Accepted(c, rest, d)
      BY ONLY <1>3, <2>2, AcceptKept
    <3>. QED BY <3>1 DEF Accepted
  <2>. QED BY <2>3, <2>4
<1>7. CASE buf[1].frame.op # "upgrade" /\ d = Refuse([c EXCEPT !.srv.header = <<>>])
  <2>1. p # "curl"
    BY <1>7
  <2>. QED BY ONLY <1>3, <1>7, <2>1, RefuseKept
<1>. QED BY <1>1, <1>4, <1>5, <1>6, <1>7 DEF Handshake, Conversations

\* The end of the connection.
Finished(c, d) ==
  /\ d.cli = c.cli /\ d.net = c.net
  /\ d.srv.header = c.srv.header /\ d.srv.recv = c.srv.recv /\ d.srv.ws = c.srv.ws
  /\ d.srv.closeRcvd = c.srv.closeRcvd /\ d.srv.frag = c.srv.frag
  /\ \E e \in Told : /\ e = ServerEvent("close", <<c.srv.code, c.srv.closeSent /\ c.srv.closeRcvd>>)
                     /\ d.srv.told = Append(c.srv.told, e)

LEMMA FinishKept ==
  ASSUME NEW p, NEW c, Kept(p, c), c.srv.ws, c.srv.readyState # "closed", ~c.srv.feeding, ~c.srv.failing,
         c.net.server.events = <<>>, c.net.server.closed,
         NEW d, d = Finish([c EXCEPT !.clients = FALSE])
  PROVE  Kept(p, d) /\ Finished(c, d)
<1>1. c \in Conversations /\ c.srv \in Servers /\ c.net \in Links
  BY DEF Kept, Conversations
<1>2. ServerOrder(c.srv, c.net.server)
  BY DEF Kept
<1>3. PICK e : e = ServerEvent("close", <<c.srv.code, c.srv.closeSent /\ c.srv.closeRcvd>>)
  OBVIOUS
<1>4. e \in Told /\ e.type = "close"
  <2>1. c.srv.code \in Codes /\ (c.srv.closeSent /\ c.srv.closeRcvd) \in BOOLEAN
    BY <1>1 DEF Servers
  <2>2. <<c.srv.code, c.srv.closeSent /\ c.srv.closeRcvd>> \in Data
    <3>1. PICK code \in Codes : code = c.srv.code
      BY <2>1
    <3>2. PICK clean \in BOOLEAN : clean = (c.srv.closeSent /\ c.srv.closeRcvd)
      BY <2>1
    <3>3. <<code, clean>> \in Data
      BY DEF Data
    <3>. QED BY <3>1, <3>2, <3>3
  <2>. QED BY <1>3, <2>2 DEF ServerEvent, Told
<1>5. PICK v : v = [c.srv EXCEPT !.readyState = "closed", !.timer = FALSE, !.told = Append(@, e)]
  OBVIOUS
<1>6. /\ v \in Servers /\ v.ws = c.srv.ws /\ v.header = c.srv.header /\ v.recv = c.srv.recv
      /\ v.closeRcvd = c.srv.closeRcvd /\ v.frag = c.srv.frag /\ v.sent = c.srv.sent
      /\ v.closeSent = c.srv.closeSent /\ v.readyState = "closed" /\ v.feeding = c.srv.feeding /\ v.failing = c.srv.failing
      /\ v.timer = FALSE /\ v.told = Append(c.srv.told, e)
  <2>1. Append(c.srv.told, e) \in Seq(Told)
    BY <1>1, <1>4, ServerFields
  <2>. QED BY <1>1, <1>5, <2>1 DEF Servers
<1>7. PICK a : a = [c EXCEPT !.srv = v]
  OBVIOUS
<1>8. ServerOrder(v, c.net.server)
  <2>1. c.srv.told \in Seq(Told)
    BY <1>1, ServerFields
  <2>2. PICK told : told = Append(c.srv.told, e)
    OBVIOUS
  <2>3. /\ Len(told) = Len(c.srv.told) + 1 /\ told[Len(told)] = e
        /\ DOMAIN told = 1 .. Len(c.srv.told) + 1 /\ DOMAIN c.srv.told = 1 .. Len(c.srv.told)
        /\ \A i \in 1 .. Len(c.srv.told) : told[i] = c.srv.told[i]
    BY <1>4, <2>1, <2>2, AppendedEvent
  <2>4. \A i \in DOMAIN told : /\ told[i].type = "close" => i = Len(told)
                               /\ told[i].type = "message" => told[i].data \in Whole
    <3>1. /\ \A i \in DOMAIN c.srv.told : c.srv.told[i].type = "message" => c.srv.told[i].data \in Whole
          /\ \A i \in DOMAIN c.srv.told : c.srv.told[i].type # "close"
      BY <1>2 DEF ServerOrder
    <3>2. e.type # "message"
      BY <1>4
    <3>3. PICK old : old = c.srv.told
      OBVIOUS
    <3>4. PICK k \in Nat : k = Len(old)
      BY <2>1, <3>3
    <3>5. ASSUME NEW i \in DOMAIN told
          PROVE  (told[i].type = "close" => i = Len(told)) /\ (told[i].type = "message" => told[i].data \in Whole)
      <4>1. CASE i = k + 1
        <5>1. told[i] = e /\ i = Len(told)
          BY <2>3, <3>3, <3>4, <4>1
        <5>. QED BY <3>2, <5>1
      <4>2. CASE i \in 1 .. k
        <5>1. told[i] = old[i] /\ i \in DOMAIN old
          BY <2>3, <3>3, <3>4, <4>2
        <5>. QED BY <3>1, <3>3, <5>1
      <4>3. i \in 1 .. k + 1
        BY <2>3, <3>3, <3>4
      <4>. QED BY <3>4, <4>1, <4>2, <4>3
    <3>. QED BY <3>5
  <2>. QED BY <1>2, <1>6, <2>2, <2>4 DEF ServerOrder
<1>9. Kept(p, a) /\ a.net = c.net /\ a.srv = v /\ a.cli = c.cli
  <2>1. v.closeSent => v.readyState # "open"
    BY <1>6
  <2>2. v.sent = c.srv.sent /\ v.closeSent = c.srv.closeSent /\ v.ws = c.srv.ws /\ v \in Servers
    BY <1>6
  <2>3. Kept(p, c)
    OBVIOUS
  <2>. QED BY ONLY <1>7, <1>8, <2>1, <2>2, <2>3, SrvKept
<1>10. d = [a EXCEPT !.clients = FALSE]
  BY <1>1, <1>3, <1>5, <1>7 DEF Finish, TellServer, Conversations, Servers
<1>11. d \in Conversations /\ d.net = a.net /\ d.srv = a.srv /\ d.cli = a.cli
  BY <1>9, <1>10 DEF Kept, Conversations
<1>12. Kept(p, d)
  BY <1>9, <1>11 DEF Kept
<1>13. /\ d.cli = c.cli /\ d.net = c.net
       /\ d.srv.header = c.srv.header /\ d.srv.recv = c.srv.recv /\ d.srv.ws = c.srv.ws
       /\ d.srv.closeRcvd = c.srv.closeRcvd /\ d.srv.frag = c.srv.frag
       /\ d.srv.told = Append(c.srv.told, e)
  BY <1>6, <1>9, <1>11
<1>14. e = ServerEvent("close", <<c.srv.code, c.srv.closeSent /\ c.srv.closeRcvd>>) /\ e \in Told
  BY <1>3, <1>4
<1>15. Finished(c, d)
  BY ONLY <1>13, <1>14 DEF Finished
<1>. QED BY <1>12, <1>15

\* The close told to the server's program.
LEMMA UpFinished ==
  ASSUME NEW v \in Servers, NEW v2 \in Servers, NEW u \in Clients, NEW s, Up(v, u, s),
         v2.header = v.header, v2.recv = v.recv, v2.ws = v.ws, v2.closeRcvd = v.closeRcvd,
         v2.frag = v.frag, NEW e \in Told, e.type = "close",
         e.data = <<"peer", TRUE>> => v.closeRcvd, v2.told = Append(v.told, e)
  PROVE  Up(v2, u, s)
<1>1. v.told \in Seq(Told)
  BY ServerFields
<1>2. Messages(v2.told) = Messages(v.told) /\ AsSent(v2.told, u.sent)
  <2>1. e \in Told /\ e.type # "message" /\ AsSent(v.told, u.sent)
    BY DEF Up
  <2>2. Messages(Append(v.told, e)) = Messages(v.told)
    BY ONLY <1>1, <2>1, OthersAppended
  <2>3. AsSent(Append(v.told, e), u.sent)
    BY ONLY <1>1, <2>1, AsSentQuiet
  <2>. QED BY <2>2, <2>3
<1>3. Served(v2) = Served(v)
  BY <1>2 DEF Served
<1>4. UpRead(v2) = UpRead(v) /\ Upstream(v2, s) = Upstream(v, s)
  BY <1>3 DEF UpRead, Upstream
<1>5. ToldClose(v2.told, <<"peer", TRUE>>) => v2.closeRcvd
  <2>. SUFFICES ASSUME NEW i \in DOMAIN v2.told, v2.told[i] = ServerEvent("close", <<"peer", TRUE>>)
                PROVE  v.closeRcvd
    BY DEF ToldClose
  <2>1. PICK told : told = v.told
    OBVIOUS
  <2>2. PICK next : next = Append(told, e)
    OBVIOUS
  <2>3. /\ next[Len(told) + 1] = e
        /\ DOMAIN next = 1 .. Len(told) + 1 /\ DOMAIN told = 1 .. Len(told) /\ Len(told) \in Nat
        /\ \A j \in 1 .. Len(told) : next[j] = told[j]
    BY <1>1, <2>1, <2>2, AppendedEvent
  <2>4. i \in DOMAIN next /\ next[i] = ServerEvent("close", <<"peer", TRUE>>)
    BY <2>1, <2>2
  <2>5. CASE i = Len(told) + 1
    <3>1. e = ServerEvent("close", <<"peer", TRUE>>)
      BY ONLY <2>3, <2>4, <2>5
    <3>2. e.data = <<"peer", TRUE>>
      BY ONLY <3>1 DEF ServerEvent
    <3>. QED BY <3>2
  <2>6. CASE i # Len(told) + 1
    <3>1. i \in DOMAIN told /\ told[i] = ServerEvent("close", <<"peer", TRUE>>)
      BY <2>3, <2>4, <2>6
    <3>2. ToldClose(v.told, <<"peer", TRUE>>)
      BY <2>1, <3>1 DEF ToldClose
    <3>. QED BY <3>2 DEF Up
  <2>. QED BY <2>5, <2>6
<1>. QED BY <1>2, <1>3, <1>4, <1>5 DEF Up

\* The request of a WebSocket: what is there of it, and then the reply's turn.
LEMMA UpAccepted ==
  ASSUME NEW v \in Servers, NEW u \in Clients, NEW n \in Links, ~v.ws, v.recv # <<>>, v.header = <<>>,
         v.told = <<>>, ~v.closeRcvd, v.frag = <<>>, Up(v, u, n.server)
  PROVE  /\ v.recv[1].frame.op = "upgrade"
         /\ \A v2 \in Servers :
              /\ v2.ws /\ v2.header = <<>> /\ Len(v.recv) >= 2
              /\ v2.recv = SubSeq(v.recv, 3, Len(v.recv)) /\ ~v2.closeRcvd /\ v2.frag = <<>>
              /\ v2.told = <<ServerEvent("connection", <<>>)>>
              => Up(v2, u, n.server)
<1>1. UpRead(v) = 0
  BY DEF UpRead
<1>2. v.recv[1].frame.op = "upgrade"
  <2>1. PICK a \in Seq(UpUnits) : a = v.recv
    BY ServerFields
  <2>2. PICK b \in Seq(UpUnits) : b = Queued(n.server) \o n.server.in
    BY UpstreamOf
  <2>3. PICK all : all = a \o b
    OBVIOUS
  <2>4. Len(all) \in Nat /\ Len(all) >= 1 /\ all[1] = a[1] /\ DOMAIN all = 1 .. Len(all)
    <3>1. Len(a) \in Nat /\ Len(b) \in Nat /\ Len(a) >= 1
      BY <2>1
    <3>2. all \in Seq(UpUnits) /\ Len(all) = Len(a) + Len(b)
      BY <2>3
    <3>3. all[1] = a[1]
      BY <2>3, <3>1
    <3>. QED BY <3>1, <3>2, <3>3
  <2>5. Follows(all, "upgrade", u.sent, 0)
    BY <1>1, <2>1, <2>2, <2>3, UpstreamOf DEF Up
  <2>6. 1 \in DOMAIN all /\ 0 + 1 = 1
    BY <2>4
  <2>7. all[1] = UnitOf("upgrade", u.sent, 1)
    BY ONLY <2>5, <2>6 DEF Follows
  <2>8. a[1] = [frame |-> Frame("upgrade", 0, TRUE), half |-> 1]
    BY <2>4, <2>7, FirstUnits
  <2>9. PICK f : f = Frame("upgrade", 0, TRUE)
    OBVIOUS
  <2>10. f.op = "upgrade"
    BY <2>9 DEF Frame
  <2>11. a[1].frame = f
    BY ONLY <2>8, <2>9
  <2>. QED BY <2>1, <2>10, <2>11
<1>3. ASSUME NEW v2 \in Servers, v2.ws, v2.header = <<>>, Len(v.recv) >= 2,
             v2.recv = SubSeq(v.recv, 3, Len(v.recv)), ~v2.closeRcvd, v2.frag = <<>>,
             v2.told = <<ServerEvent("connection", <<>>)>>
      PROVE  Up(v2, u, n.server)
  <2>1. PICK e : e = ServerEvent("connection", <<>>)
    OBVIOUS
  <2>2. e.type = "connection"
    BY <2>1 DEF ServerEvent
  <2>3. PICK told : told = <<e>>
    OBVIOUS
  <2>4. DOMAIN told = {1} /\ told[1] = e
    BY <2>3
  <2>5. Messages(told) = {}
    BY <2>2, <2>4 DEF Messages
  <2>6. Served(v2) = 0
    BY <1>3, <2>1, <2>3, <2>5, FS_EmptySet DEF Served
  <2>7. UpRead(v2) = UpRead(v) + 2
    BY <1>1, <1>3, <2>6 DEF UpRead
  <2>8. AsSent(v2.told, u.sent)
    BY <1>3, <2>1, <2>3, <2>5 DEF AsSent
  <2>9. ~ToldClose(v2.told, <<"peer", TRUE>>)
    <3>1. PICK g : g = ServerEvent("close", <<"peer", TRUE>>)
      OBVIOUS
    <3>2. g.type = "close"
      BY <3>1 DEF ServerEvent
    <3>3. \A i \in DOMAIN told : told[i] # g
      BY ONLY <2>2, <2>4, <3>2
    <3>. QED BY <1>3, <2>1, <2>3, <3>1, <3>3 DEF ToldClose
  <2>. QED BY <1>3, <2>7, <2>8, <2>9, UpTaken
<1>. QED BY <1>2, <1>3

Fed(c, units, d) ==
  /\ d.cli = c.cli /\ d.net = c.net
  /\ d.srv.header = c.srv.header /\ d.srv.recv = c.srv.recv \o units
  /\ d.srv.ws = c.srv.ws /\ d.srv.told = c.srv.told
  /\ d.srv.closeRcvd = c.srv.closeRcvd /\ d.srv.frag = c.srv.frag

LEMMA FedKept ==
  ASSUME NEW p, NEW c, Kept(p, c), c.srv.ws, c.srv.readyState # "closed",
         NEW units \in Seq(UpUnits), NEW d, d = Feed(c, units)
  PROVE  Kept(p, d) /\ Fed(c, units, d)
<1>1. c \in Conversations /\ c.srv \in Servers
  BY DEF Kept, Conversations
<1>2. c.srv.recv \o units \in Seq(UpUnits)
  <2>1. c.srv.recv \in Seq(UpUnits) /\ units \in Seq(UpUnits)
    BY <1>1, ServerFields
  <2>. QED BY ONLY <2>1, ConcatProperties
<1>3. PICK v : v = [c.srv EXCEPT !.recv = @ \o units, !.feeding = TRUE]
  OBVIOUS
<1>4. /\ v \in Servers /\ v.ws = c.srv.ws /\ v.header = c.srv.header /\ v.told = c.srv.told
      /\ v.sent = c.srv.sent /\ v.closeSent = c.srv.closeSent
      /\ v.readyState = c.srv.readyState /\ v.timer = c.srv.timer
      /\ v.failing = c.srv.failing
      /\ v.closeRcvd = c.srv.closeRcvd /\ v.frag = c.srv.frag
      /\ v.recv = c.srv.recv \o units
  BY <1>1, <1>2, <1>3 DEF Servers
<1>5. ServerOrder(c.srv, c.net.server) /\ OneCloseFrame(c.srv, c.net.client.in)
  BY DEF Kept
<1>6. v.timer => c.srv.readyState # "closed"
  BY <1>4, <1>5 DEF ServerOrder
<1>7. v.feeding => c.srv.readyState # "closed"
  OBVIOUS
<1>8. ServerOrder(v, c.net.server)
  BY <1>4, <1>5, <1>6, <1>7, OrderSame
<1>9. v.closeSent => v.readyState # "open"
  BY <1>4, <1>5 DEF OneCloseFrame
<1>10. d = [c EXCEPT !.srv = v]
  BY <1>1, <1>3 DEF Feed, Conversations
<1>11. v.sent = c.srv.sent /\ v.closeSent = c.srv.closeSent /\ v.ws = c.srv.ws /\ v \in Servers
  BY <1>4
<1>12. Kept(p, c)
  OBVIOUS
<1>13. Kept(p, d) /\ d.net = c.net /\ d.srv = v /\ d.cli = c.cli
  BY ONLY <1>8, <1>9, <1>10, <1>11, <1>12, SrvKept
<1>. QED BY <1>4, <1>13 DEF Fed

LEMMA DrainKept ==
  ASSUME NEW p, NEW c, Kept(p, c), p = "curl" => Up(c.srv, c.cli, c.net.server),
         ~c.srv.feeding, ~c.srv.failing, c.net.server.events # <<>>,
         NEW d, d = OnServerEvent([c EXCEPT !.net = TakeEvent(@, "server")],
                                  Head(c.net.server.events))
  PROVE  Kept(p, d) /\ d.cli = c.cli /\ (p = "curl" => Up(d.srv, d.cli, d.net.server))
<1>1. c \in Conversations /\ c.srv \in Servers /\ c.net \in Links /\ c.cli \in Clients
  BY DEF Kept, Conversations
<1>2. PICK m : m = TakeEvent(c.net, "server")
  OBVIOUS
<1>3. PICK e : e = Head(c.net.server.events)
  OBVIOUS
<1>4. PICK a : a = [c EXCEPT !.net = m]
  OBVIOUS
<1>5. ServerOrder(c.srv, c.net.server) /\ EventsOrdered(c.net.server)
  BY DEF Kept, ServerOrder
<1>6. /\ m \in Links /\ m.server.in = c.net.server.in /\ m.server.closed = c.net.server.closed
      /\ EventsOrdered(m.server) /\ Queued(m.server) = <<>>
      /\ e \in SocketEvents
      /\ Queued(c.net.server) = IF e.type = "data" THEN e.data ELSE <<>>
      /\ e.type = "data" => e.data # <<>>
      /\ e.type = "close" => m.server.events = <<>> /\ m.server.closed
  BY <1>1, <1>2, <1>3, <1>5, TakeOf
<1>7. Kept(p, a) /\ a.srv = c.srv /\ a.cli = c.cli /\ a.net = m /\ a.srv.readyState # "closed"
  <2>1. Kept(p, c) /\ c.net.server.events # <<>>
    OBVIOUS
  <2>2. Kept(p, a)
    BY ONLY <1>2, <1>4, <2>1, TakenKept
  <2>3. a.srv.readyState # "closed"
    BY ONLY <1>2, <1>4, <2>1, TakenKept
  <2>. QED BY <1>1, <1>4, <2>2, <2>3 DEF Conversations
<1>8. d = OnServerEvent(a, e)
  BY <1>1, <1>2, <1>3, <1>4 DEF Conversations
<1>9. PICK q \in Seq(UpUnits) : q = Queued(c.net.server)
  BY <1>1, QueuedTyped
<1>10. PICK h \in Seq(UpUnits) : h = c.srv.header
  BY <1>1, ServerFields
<1>11. PICK r \in Seq(UpUnits) : r = c.srv.recv
  BY <1>1, ServerFields
<1>12. c.srv \in Servers /\ c.cli \in Clients /\ c.net \in Links /\ m \in Links
  BY <1>1, <1>6
\* The client's stream when all that was queued is in the buffers.
<1>13. ASSUME NEW v2 \in Servers, v2.header \o v2.recv = (h \o r) \o q, v2.ws = c.srv.ws,
              v2.told = c.srv.told, v2.closeRcvd = c.srv.closeRcvd, v2.frag = c.srv.frag,
              p = "curl"
       PROVE  Up(v2, c.cli, m.server)
  <2>1. Up(c.srv, c.cli, c.net.server)
    BY <1>13
  <2>2. v2.header \o v2.recv = (c.srv.header \o c.srv.recv) \o Queued(c.net.server)
    BY ONLY <1>9, <1>10, <1>11, <1>13
  <2>3. Queued(m.server) = <<>> /\ m.server.in = c.net.server.in /\ m.server.closed = c.net.server.closed
    BY <1>6
  <2>. QED BY ONLY <1>12, <1>13, <2>1, <2>2, <2>3, UpFed
<1>14. ASSUME q = <<>>, p = "curl"
       PROVE  Up(c.srv, c.cli, m.server)
  <2>1. h \o r \in Seq(UpUnits)
    OBVIOUS
  <2>2. c.srv.header \o c.srv.recv = (h \o r) \o q
    <3>1. PICK x \in Seq(UpUnits) : x = h \o r
      BY <2>1
    <3>2. x \o <<>> = x
      OBVIOUS
    <3>. QED BY <1>10, <1>11, <1>14, <3>1, <3>2
  <2>. QED BY <1>1, <1>13, <1>14, <2>2
<1>15. CASE e.type = "data" /\ c.srv.ws
  <2>1. d = Feed(a, q)
    BY <1>6, <1>7, <1>8, <1>9, <1>15 DEF OnServerEvent, OnServerData
  <2>2. Kept(p, a) /\ a.srv.ws /\ a.srv.readyState # "closed" /\ q \in Seq(UpUnits)
    BY <1>7, <1>15
  <2>3. Kept(p, d) /\ Fed(a, q, d)
    BY ONLY <2>1, <2>2, FedKept
  <2>4. /\ d.srv.header = a.srv.header /\ d.srv.recv = a.srv.recv \o q /\ d.srv.ws = a.srv.ws
        /\ d.cli = a.cli /\ d.net = a.net
    BY <2>3 DEF Fed
  <2>5. d.srv.told = a.srv.told /\ d.srv.closeRcvd = a.srv.closeRcvd /\ d.srv.frag = a.srv.frag
    BY <2>3 DEF Fed
  <2>6. d.srv \in Servers
    BY <2>3 DEF Kept, Conversations
  <2>7. h = <<>>
    BY <1>5, <1>10, <1>15 DEF ServerOrder
  <2>8. d.srv.header \o d.srv.recv = (h \o r) \o q
    <3>1. <<>> \o r = r /\ r \o q \in Seq(UpUnits)
      OBVIOUS
    <3>2. PICK x \in Seq(UpUnits) : x = r \o q
      BY <3>1
    <3>3. <<>> \o x = x
      OBVIOUS
    <3>. QED BY <1>7, <1>10, <1>11, <2>4, <2>7, <3>1, <3>2, <3>3
  <2>9. p = "curl" => Up(d.srv, c.cli, m.server)
    BY <1>7, <1>13, <2>4, <2>5, <2>6, <2>8
  <2>. QED BY <1>7, <2>3, <2>4, <2>9
<1>16. CASE e.type = "data" /\ ~c.srv.ws
  <2>1. d = Handshake(a, q)
    BY <1>6, <1>7, <1>8, <1>9, <1>16 DEF OnServerEvent, OnServerData
  <2>2. r = <<>> /\ c.srv.told = <<>> /\ ~c.srv.closeRcvd /\ c.srv.frag = <<>>
    BY <1>5, <1>11, <1>16 DEF ServerOrder
  <2>3. PICK buf \in Seq(UpUnits) : buf = h \o q
    <3>1. h \o q \in Seq(UpUnits)
      OBVIOUS
    <3>. QED BY <3>1
  <2>4. buf # <<>>
    <3>1. Len(buf) = Len(h) + Len(q) /\ Len(h) \in Nat
      BY <2>3
    <3>2. Len(q) \in Nat /\ Len(q) >= 1
      BY <1>6, <1>9, <1>16
    <3>. QED BY <3>1, <3>2
  <2>5. (h \o r) \o q = buf /\ buf \o <<>> = buf /\ <<>> \o buf = buf
    <3>1. h \o <<>> = h /\ buf \o <<>> = buf /\ <<>> \o buf = buf
      OBVIOUS
    <3>. QED BY <2>2, <2>3, <3>1
  <2>6. PICK v1 : v1 = [c.srv EXCEPT !.header = <<>>, !.recv = buf]
    OBVIOUS
  <2>7. /\ v1 \in Servers /\ v1.header = <<>> /\ v1.recv = buf /\ v1.ws = c.srv.ws
        /\ v1.told = c.srv.told /\ v1.closeRcvd = c.srv.closeRcvd /\ v1.frag = c.srv.frag
    <3>1. <<>> \in Seq(UpUnits)
      OBVIOUS
    <3>. QED BY <1>1, <2>3, <2>6, <3>1 DEF Servers
  <2>8. p = "curl" => Up(v1, c.cli, m.server)
    <3>1. v1.header \o v1.recv = (h \o r) \o q
      BY <2>5, <2>7
    <3>. QED BY <1>13, <2>7, <3>1
  <2>9. /\ ~v1.ws /\ v1.recv # <<>> /\ v1.header = <<>> /\ v1.told = <<>> /\ ~v1.closeRcvd
        /\ v1.frag = <<>> /\ v1 \in Servers
    BY <1>16, <2>2, <2>4, <2>7
  <2>10. p = "curl" => buf[1].frame.op = "upgrade"
    <3>. SUFFICES ASSUME p = "curl" PROVE buf[1].frame.op = "upgrade"
      OBVIOUS
    <3>1. Up(v1, c.cli, m.server)
      BY <2>8
    <3>2. v1.recv[1].frame.op = "upgrade"
      BY ONLY <1>12, <2>9, <3>1, UpAccepted
    <3>. QED BY <2>7, <3>2
  <2>11. Kept(p, d) /\ d.cli = a.cli
    <3>1. Kept(p, a) /\ ~a.srv.ws /\ q \in Seq(UpUnits) /\ buf = a.srv.header \o q /\ buf # <<>>
      BY <1>7, <1>10, <1>16, <2>3, <2>4
    <3>2. Keeps(p, a, d)
      BY ONLY <2>1, <2>10, <3>1, HandshakeKept
    <3>. QED BY <3>2 DEF Keeps
  <2>12. p = "curl" => Up(d.srv, c.cli, d.net.server)
    <3>. SUFFICES ASSUME p = "curl" PROVE Up(d.srv, c.cli, d.net.server)
      OBVIOUS
    <3>1. PICK f : f = buf[1].frame
      OBVIOUS
    <3>2. f.op = "upgrade"
      BY <2>10, <3>1
    <3>3. CASE Len(buf) < 2
      <4>1. d = [a EXCEPT !.srv.header = buf]
        BY <1>7, <1>10, <2>1, <2>3, <3>1, <3>2, <3>3 DEF Handshake
      <4>2. Kept(p, a) /\ ~a.srv.ws /\ buf \in Seq(UpUnits)
        BY <1>7, <1>16
      <4>3. /\ d.net = a.net /\ d.srv.header = buf /\ d.srv.recv = a.srv.recv
            /\ d.srv.told = a.srv.told /\ d.srv.ws = a.srv.ws
            /\ d.srv.closeRcvd = a.srv.closeRcvd /\ d.srv.frag = a.srv.frag
        <5>1. PICK x : x = [c.srv EXCEPT !.header = buf]
          OBVIOUS
        <5>2. /\ x.header = buf /\ x.recv = c.srv.recv /\ x.told = c.srv.told /\ x.ws = c.srv.ws
              /\ x.closeRcvd = c.srv.closeRcvd /\ x.frag = c.srv.frag
          BY <1>1, <5>1 DEF Servers
        <5>3. d.srv = x /\ d.net = a.net
          BY <1>7, <4>1, <5>1 DEF Kept, Conversations
        <5>. QED BY <1>7, <5>2, <5>3
      <4>4. d.srv.header \o d.srv.recv = (h \o r) \o q /\ d.srv \in Servers
        BY <1>7, <1>11, <2>2, <2>5, <2>11, <4>3 DEF Kept, Conversations
      <4>5. Up(d.srv, c.cli, m.server)
        BY <1>7, <1>13, <4>3, <4>4
      <4>. QED BY <1>7, <4>3, <4>5
    <3>4. CASE ~(Len(buf) < 2)
      <4>1. PICK rest \in Seq(UpUnits) : rest = SubSeq(buf, 3, Len(buf))
        <5>1. SubSeq(buf, 3, Len(buf)) \in Seq(UpUnits)
          OBVIOUS
        <5>. QED BY <5>1
      <4>2. d = Accept([a EXCEPT !.srv.header = <<>>], rest)
        BY <1>7, <1>10, <2>1, <2>3, <3>1, <3>2, <3>4, <4>1 DEF Handshake
      <4>3. Kept(p, a) /\ ~a.srv.ws /\ rest \in Seq(UpUnits)
        BY <1>7, <1>16
      <4>0. Accepted(a, rest, d)
        BY ONLY <4>2, <4>3, AcceptKept
      <4>4. d.srv.ws /\ d.srv.header = <<>> /\ d.srv.recv = rest /\ ~d.srv.closeRcvd
        BY ONLY <4>0 DEF Accepted
      <4>5. d.srv.frag = <<>> /\ d.srv.told = <<ServerEvent("connection", <<>>)>>
        BY ONLY <4>0 DEF Accepted
      <4>6. d.net.server.in = a.net.server.in /\ d.net.server.events = a.net.server.events
            /\ d.net.server.closed = a.net.server.closed
        BY ONLY <4>0 DEF Accepted
      <4>7. PICK v2 : v2 = d.srv
        OBVIOUS
      <4>8. /\ v2 \in Servers /\ v2.ws /\ v2.header = <<>> /\ Len(v1.recv) >= 2
            /\ v2.recv = SubSeq(v1.recv, 3, Len(v1.recv)) /\ ~v2.closeRcvd /\ v2.frag = <<>>
            /\ v2.told = <<ServerEvent("connection", <<>>)>>
        <5>1. v2 \in Servers
          BY <2>11, <4>7 DEF Kept, Conversations
        <5>2. Len(buf) \in Nat
          OBVIOUS
        <5>3. Len(v1.recv) >= 2 /\ v2.recv = SubSeq(v1.recv, 3, Len(v1.recv))
          <6>1. Len(buf) >= 2
            BY <3>4, <5>2
          <6>2. v1.recv = buf /\ v2.recv = rest
            BY <2>7, <4>4, <4>7
          <6>. QED BY ONLY <4>1, <6>1, <6>2
        <5>4. v2.ws /\ v2.header = <<>> /\ ~v2.closeRcvd
          BY <4>4, <4>7
        <5>5. v2.frag = <<>> /\ v2.told = <<ServerEvent("connection", <<>>)>>
          BY <4>5, <4>7
        <5>. QED BY <5>1, <5>3, <5>4, <5>5
      <4>9. Up(v1, c.cli, m.server)
        BY <2>8
      <4>10. Up(v2, c.cli, m.server)
        BY ONLY <1>12, <2>9, <4>8, <4>9, UpAccepted
      <4>11. Queued(d.net.server) = Queued(m.server) /\ d.net.server.in = m.server.in
             /\ d.net.server.closed = m.server.closed
        BY <1>7, <4>6 DEF Queued
      <4>12. Up(v2, c.cli, d.net.server)
        BY <4>10, <4>11, UpSame
      <4>. QED BY <4>7, <4>12
    <3>. QED BY <3>3, <3>4
  <2>. QED BY <1>7, <2>11, <2>12
<1>17. CASE e.type # "data" /\ d = a
  <2>1. q = <<>>
    BY <1>6, <1>9, <1>17
  <2>. QED BY <1>7, <1>14, <1>17, <2>1
<1>18. CASE e.type = "close" /\ c.srv.ws
  <2>1. d = Finish([a EXCEPT !.clients = FALSE])
    BY <1>7, <1>8, <1>18 DEF OnServerEvent, OnServerClose
  <2>2. /\ Kept(p, a) /\ a.srv.ws /\ a.srv.readyState # "closed"
        /\ ~a.srv.feeding /\ ~a.srv.failing
        /\ a.net.server.events = <<>> /\ a.net.server.closed
    BY <1>6, <1>7, <1>18
  <2>3. Kept(p, d) /\ Finished(a, d)
    BY ONLY <2>1, <2>2, FinishKept
  <2>4. d.srv.header = a.srv.header /\ d.srv.recv = a.srv.recv /\ d.srv.ws = a.srv.ws
        /\ d.srv.closeRcvd = a.srv.closeRcvd /\ d.srv.frag = a.srv.frag
        /\ d.cli = a.cli /\ d.net = a.net
    BY <2>3 DEF Finished
  <2>5. PICK t \in Told : /\ t = ServerEvent("close", <<a.srv.code, a.srv.closeSent /\ a.srv.closeRcvd>>)
                          /\ d.srv.told = Append(a.srv.told, t)
    BY <2>3 DEF Finished
  <2>6. p = "curl" => Up(d.srv, c.cli, m.server)
    <3>. SUFFICES ASSUME p = "curl" PROVE Up(d.srv, c.cli, m.server)
      OBVIOUS
    <3>1. Up(c.srv, c.cli, m.server)
      <4>1. q = <<>>
        BY <1>6, <1>9, <1>18
      <4>. QED BY <1>14, <4>1
    <3>2. t.type = "close" /\ (t.data = <<"peer", TRUE>> => c.srv.closeRcvd)
      <4>1. t.type = "close" /\ t.data = <<a.srv.code, a.srv.closeSent /\ a.srv.closeRcvd>>
        BY ONLY <2>5 DEF ServerEvent
      <4>2. a.srv.closeRcvd \in BOOLEAN
        BY <1>1, <1>7, ServerFields
      <4>3. PICK clean : clean = (a.srv.closeSent /\ a.srv.closeRcvd)
        OBVIOUS
      <4>4. t.data = <<"peer", TRUE>> => clean = TRUE
        <5>1. t.data = <<a.srv.code, clean>>
          BY ONLY <4>1, <4>3
        <5>2. t.data[2] = clean
          BY ONLY <5>1
        <5>3. PICK x : x = <<"peer", TRUE>>
          OBVIOUS
        <5>4. x[2] = TRUE
          BY ONLY <5>3
        <5>. QED BY ONLY <5>2, <5>3, <5>4
      <4>5. clean = TRUE => a.srv.closeRcvd
        BY ONLY <4>3
      <4>. QED BY <1>7, <4>1, <4>4, <4>5
    <3>3. PICK v2 : v2 = d.srv
      OBVIOUS
    <3>4. v2 \in Servers
      BY <2>3, <3>3 DEF Kept, Conversations
    <3>5. v2.header = c.srv.header /\ v2.recv = c.srv.recv /\ v2.ws = c.srv.ws
          /\ v2.closeRcvd = c.srv.closeRcvd /\ v2.frag = c.srv.frag /\ v2.told = Append(c.srv.told, t)
      BY <1>7, <2>4, <2>5, <3>3
    <3>6. t \in Told
      OBVIOUS
    <3>7. Up(v2, c.cli, m.server)
      BY ONLY <1>12, <3>1, <3>2, <3>4, <3>5, <3>6, UpFinished
    <3>. QED BY <3>3, <3>7
  <2>. QED BY <1>7, <2>3, <2>4, <2>6
<1>19. e.type \in {"end", "error", "close", "data"}
  BY <1>6 DEF SocketEvents
<1>20. CASE e.type = "close" /\ ~c.srv.ws
  BY <1>7, <1>8, <1>17, <1>20 DEF OnServerEvent, OnServerClose
<1>21. CASE e.type \in {"end", "error"}
  BY <1>8, <1>17, <1>21 DEF OnServerEvent
<1>. QED BY <1>15, <1>16, <1>18, <1>19, <1>20, <1>21

-------------------------------------------------------------------------------
(* The server's other steps.                                                 *)

\* Units that are lost are the last.
LEMMA UpPrefix ==
  ASSUME NEW v \in Servers, NEW u \in Clients, NEW s, NEW s2, Up(v, u, s), ~s.closed,
         NEW all \in Seq(UpUnits), NEW some \in Seq(UpUnits), all = Upstream(v, s), some = Upstream(v, s2),
         Len(some) <= Len(all), \A j \in DOMAIN some : some[j] = all[j],
         s2.closed \/ Len(some) = Len(all)
  PROVE  Up(v, u, s2)
<1>1. PICK r \in Nat : r = UpRead(v)
  BY Counts
<1>2. PICK k \in Nat : k = 2 + 2 * Len(u.sent)
  BY Counts
<1>3. Len(all) \in Nat /\ Len(some) \in Nat /\ DOMAIN some = 1 .. Len(some) /\ DOMAIN all = 1 .. Len(all)
  OBVIOUS
<1>4. /\ Follows(all, "upgrade", u.sent, r) /\ r + Len(all) <= k + 2 /\ r + Len(all) >= k
      /\ u.native \in {"connecting", "open"} => r + Len(all) <= k
  BY <1>1, <1>2 DEF Up
<1>5. Follows(some, "upgrade", u.sent, r)
  <2>1. ASSUME NEW j \in DOMAIN some PROVE some[j] = UnitOf("upgrade", u.sent, r + j)
    <3>1. j \in DOMAIN all
      <4>1. Len(some) <= Len(all) /\ j \in DOMAIN some
        BY <2>1
      <4>. QED BY ONLY <1>3, <4>1
    <3>2. some[j] = all[j]
      BY <2>1
    <3>. QED BY <1>4, <3>1, <3>2 DEF Follows
  <2>. QED BY <2>1 DEF Follows
<1>6. /\ r + Len(some) <= k + 2 /\ (~s2.closed => r + Len(some) >= k)
      /\ u.native \in {"connecting", "open"} => r + Len(some) <= k
  <2>1. PICK x \in Nat : x = Len(all)
    BY <1>3
  <2>2. PICK y \in Nat : y = Len(some)
    BY <1>3
  <2>3. y <= x /\ (s2.closed \/ y = x)
    BY <2>1, <2>2
  <2>4. /\ r + x <= k + 2 /\ r + x >= k /\ (u.native \in {"connecting", "open"} => r + x <= k)
    BY <1>4, <2>1
  <2>5. r + y <= k + 2
    BY ONLY r \in Nat, k \in Nat, x \in Nat, y \in Nat, <2>3, <2>4
  <2>6. ~s2.closed => r + y >= k
    BY ONLY <2>3, <2>4
  <2>7. r + x <= k => r + y <= k
    BY ONLY r \in Nat, k \in Nat, x \in Nat, y \in Nat, <2>3
  <2>. QED BY <2>2, <2>4, <2>5, <2>6, <2>7
<1>. QED BY <1>1, <1>2, <1>5, <1>6 DEF Up

LEMMA TickKept ==
  ASSUME NEW p, NEW c, Kept(p, c), p = "curl" => Up(c.srv, c.cli, c.net.server),
         CanRead(c.net, "server"), NEW m \in Ticked(c.net, "server"),
         NEW d, d = [c EXCEPT !.net = m]
  PROVE  Kept(p, d) /\ d.cli = c.cli /\ (p = "curl" => Up(d.srv, d.cli, d.net.server))
<1>1. c \in Conversations /\ c.net \in Links /\ c.srv \in Servers /\ c.cli \in Clients
  BY DEF Kept, Conversations
<1>2. /\ m \in Links /\ m.client.in = c.net.client.in /\ m.client.closed = c.net.client.closed
      /\ Writable(m, "server") => Writable(c.net, "server")
      /\ EventsOrdered(m.server)
  BY <1>1, TickOf
<1>3. PICK k \in 0 .. Len(c.net.server.in) :
         /\ Queued(m.server) = SubSeq(c.net.server.in, 1, k)
         /\ \/ m.server.in = SubSeq(c.net.server.in, k + 1, Len(c.net.server.in))
            \/ m.server.closed /\ m.server.in = <<>>
  BY <1>1, TickOf
<1>4. d \in Conversations /\ d.net = m /\ d.srv = c.srv /\ d.cli = c.cli
  BY <1>1, <1>2, NetOf
<1>5. ~c.net.server.closed /\ c.net.server.events = <<>>
  BY DEF CanRead
<1>6. ServerOrder(c.srv, m.server)
  BY <1>2, <1>5 DEF Kept, ServerOrder
<1>7. p = "curl" => Down(d.srv, d.cli, d.net)
  <2>. SUFFICES ASSUME p = "curl" PROVE Down(d.srv, d.cli, d.net)
    OBVIOUS
  <2>1. Down(c.srv, c.cli, c.net)
    BY DEF Kept
  <2>2. Down(c.srv, c.cli, m)
    BY <1>2, <2>1, DownSame
  <2>. QED BY <1>4, <2>2
<1>8. Kept(p, d)
  BY <1>2, <1>4, <1>6, <1>7 DEF Kept
<1>9. ASSUME p = "curl" PROVE Up(c.srv, c.cli, m.server)
  <2>1. PICK b \in Seq(UpUnits) : b = c.srv.header \o c.srv.recv
    <3>1. c.srv.header \in Seq(UpUnits) /\ c.srv.recv \in Seq(UpUnits)
      BY <1>1, ServerFields
    <3>2. c.srv.header \o c.srv.recv \in Seq(UpUnits)
      BY ONLY <3>1, ConcatProperties
    <3>. QED BY <3>2
  <2>2. PICK in \in Seq(UpUnits) : in = c.net.server.in
    BY <1>1 DEF Links, Endpoints
  <2>3. PICK all : all = b \o in
    OBVIOUS
  <2>4. /\ all \in Seq(UpUnits) /\ Len(all) = Len(b) + Len(in) /\ Len(b) \in Nat /\ Len(in) \in Nat
        /\ \A j \in 1 .. Len(all) : all[j] = IF j <= Len(b) THEN b[j] ELSE in[j - Len(b)]
    BY <2>3
  <2>5. Upstream(c.srv, c.net.server) = all
    <3>1. b \o <<>> = b
      OBVIOUS
    <3>2. Queued(c.net.server) = <<>>
      BY <1>5 DEF Queued
    <3>. QED BY <2>1, <2>2, <2>3, <3>1, <3>2 DEF Upstream
  <2>6. PICK q : q = SubSeq(in, 1, k)
    OBVIOUS
  <2>7. k \in 0 .. Len(in) /\ q \in Seq(UpUnits) /\ Len(q) = k /\ \A j \in 1 .. Len(q) : q[j] = in[j]
    <3>1. k \in 0 .. Len(in)
      BY <2>2
    <3>. QED BY <2>6, <3>1
  <2>8. PICK x : x = b \o q
    OBVIOUS
  <2>9. /\ x \in Seq(UpUnits) /\ Len(x) = Len(b) + k
        /\ \A j \in 1 .. Len(x) : x[j] = IF j <= Len(b) THEN b[j] ELSE q[j - Len(b)]
    <3>1. b \in Seq(UpUnits) /\ q \in Seq(UpUnits) /\ Len(q) = k
      BY <2>7
    <3>2. x \in Seq(UpUnits)
      BY ONLY <2>8, <3>1
    <3>3. Len(x) = Len(b) + k
      <4>1. Len(x) = Len(b) + Len(q)
        BY ONLY <2>8, <3>1, ConcatProperties
      <4>. QED BY <3>1, <4>1
    <3>4. \A j \in 1 .. Len(x) : x[j] = IF j <= Len(b) THEN b[j] ELSE q[j - Len(b)]
      BY ONLY <2>8, <3>1
    <3>. QED BY <3>2, <3>3, <3>4
  <2>10. ASSUME NEW j \in 1 .. Len(x) PROVE x[j] = all[j] /\ j \in 1 .. Len(all)
    <3>1. j \in Nat /\ j >= 1 /\ j <= Len(b) + k /\ k <= Len(in) /\ Len(b) \in Nat /\ Len(in) \in Nat /\ k \in Nat
      BY <2>4, <2>7, <2>9, <2>10
    <3>2. j \in 1 .. Len(all)
      BY <2>4, <3>1
    <3>3. CASE j <= Len(b)
      BY <2>4, <2>9, <2>10, <3>2, <3>3
    <3>4. CASE ~(j <= Len(b))
      <4>1. j - Len(b) \in 1 .. k
        BY <3>1, <3>4
      <4>2. q[j - Len(b)] = in[j - Len(b)]
        BY <2>7, <4>1
      <4>. QED BY <2>4, <2>9, <2>10, <3>2, <3>4, <4>2
    <3>. QED BY <3>2, <3>3, <3>4
  <2>11. Up(c.srv, c.cli, c.net.server)
    BY <1>9
  <2>12. CASE m.server.in = SubSeq(c.net.server.in, k + 1, Len(c.net.server.in))
    <3>1. PICK rest : rest = SubSeq(in, k + 1, Len(in))
      OBVIOUS
    <3>2. /\ rest \in Seq(UpUnits) /\ Len(rest) = Len(in) - k
          /\ \A j \in 1 .. Len(rest) : rest[j] = in[j + k]
      BY <2>4, <2>7, <3>1
    <3>3. PICK y : y = x \o rest
      OBVIOUS
    <3>4. /\ y \in Seq(UpUnits) /\ Len(y) = Len(x) + Len(rest)
          /\ \A j \in 1 .. Len(y) : y[j] = IF j <= Len(x) THEN x[j] ELSE rest[j - Len(x)]
      <4>1. x \in Seq(UpUnits) /\ rest \in Seq(UpUnits)
        BY <2>9, <3>2
      <4>. QED BY ONLY <3>3, <4>1
    <3>5. Len(y) = Len(all)
      BY <2>4, <2>7, <2>9, <3>2, <3>4
    <3>6. ASSUME NEW j \in 1 .. Len(y) PROVE y[j] = all[j]
      <4>1. j \in Nat /\ j \in 1 .. Len(all) /\ k \in Nat /\ k <= Len(in) /\ Len(x) = Len(b) + k
        BY <2>7, <2>9, <3>5
      <4>2. CASE j <= Len(x)
        <5>1. j \in 1 .. Len(x)
          BY <2>4, <4>1, <4>2
        <5>. QED BY <2>10, <3>4, <4>2, <5>1
      <4>3. CASE ~(j <= Len(x))
        <5>1. /\ ~(j <= Len(b)) /\ j - Len(x) \in 1 .. Len(rest) /\ (j - Len(x)) + k = j - Len(b)
          BY <2>4, <3>2, <4>1, <4>3
        <5>2. y[j] = rest[j - Len(x)] /\ rest[j - Len(x)] = in[(j - Len(x)) + k]
          BY <3>2, <3>4, <4>3, <5>1
        <5>3. all[j] = in[j - Len(b)]
          BY <2>4, <4>1, <5>1
        <5>. QED BY <5>1, <5>2, <5>3
      <4>. QED BY <4>2, <4>3
    <3>7. Upstream(c.srv, m.server) = y
      BY <1>3, <2>1, <2>2, <2>6, <2>8, <2>12, <3>1, <3>3 DEF Upstream
    <3>8. /\ all \in Seq(UpUnits) /\ y \in Seq(UpUnits) /\ Len(y) <= Len(all)
          /\ \A j \in DOMAIN y : y[j] = all[j]
      BY <2>4, <3>4, <3>5, <3>6
    <3>9. c.srv \in Servers /\ c.cli \in Clients /\ ~c.net.server.closed
          /\ (m.server.closed \/ Len(y) = Len(all))
      BY <1>1, <1>5, <3>5
    <3>10. all = Upstream(c.srv, c.net.server) /\ y = Upstream(c.srv, m.server)
      BY <2>5, <3>7
    <3>. QED BY ONLY <2>11, <3>8, <3>9, <3>10, UpPrefix, SMTT(60)
  <2>13. CASE m.server.closed /\ m.server.in = <<>>
    <3>1. x \o <<>> = x
      BY <2>9
    <3>2. Upstream(c.srv, m.server) = x
      BY <1>3, <2>1, <2>2, <2>6, <2>8, <2>13, <3>1 DEF Upstream
    <3>3. /\ all \in Seq(UpUnits) /\ x \in Seq(UpUnits) /\ Len(x) <= Len(all)
          /\ \A j \in DOMAIN x : x[j] = all[j]
      BY <2>4, <2>7, <2>9, <2>10
    <3>. QED BY <1>1, <1>5, <2>5, <2>11, <2>13, <3>2, <3>3, UpPrefix
  <2>. QED BY <1>3, <2>12, <2>13
<1>. QED BY <1>4, <1>8, <1>9

LEMMA TimeoutKept ==
  ASSUME NEW p, NEW c, Kept(p, c), p = "curl" => Up(c.srv, c.cli, c.net.server), c.srv.timer,
         NEW d, d = CloseTimeout(c)
  PROVE  Kept(p, d) /\ d.cli = c.cli /\ (p = "curl" => Up(d.srv, d.cli, d.net.server))
<1>1. c \in Conversations /\ c.net \in Links /\ c.srv \in Servers /\ c.cli \in Clients
  BY DEF Kept, Conversations
<1>2. ServerOrder(c.srv, c.net.server) /\ OneCloseFrame(c.srv, c.net.client.in) /\ c.srv.ws
  BY <1>1 DEF Kept, ServerOrder, Servers
<1>3. PICK v : v = [c.srv EXCEPT !.timer = FALSE]
  OBVIOUS
<1>4. /\ v \in Servers /\ v.ws = c.srv.ws /\ v.header = c.srv.header /\ v.told = c.srv.told
      /\ v.sent = c.srv.sent /\ v.closeSent = c.srv.closeSent
      /\ v.readyState = c.srv.readyState /\ v.timer = FALSE /\ v.feeding = c.srv.feeding /\ v.failing = c.srv.failing
      /\ v.closeRcvd = c.srv.closeRcvd /\ v.frag = c.srv.frag /\ v.recv = c.srv.recv
  BY <1>1, <1>3 DEF Servers
<1>5. ServerOrder(v, c.net.server)
  BY <1>2, <1>4 DEF ServerOrder
<1>6. PICK a : a = [c EXCEPT !.srv = v]
  OBVIOUS
<1>7. Kept(p, a) /\ a.net = c.net /\ a.srv = v /\ a.cli = c.cli
  <2>1. v.closeSent => v.readyState # "open"
    BY <1>2, <1>4 DEF OneCloseFrame
  <2>2. v.sent = c.srv.sent /\ v.closeSent = c.srv.closeSent /\ v.ws = c.srv.ws /\ v \in Servers
    BY <1>4
  <2>3. Kept(p, c)
    OBVIOUS
  <2>. QED BY ONLY <1>5, <1>6, <2>1, <2>2, <2>3, SrvKept
<1>8. PICK m : m = SocketDestroy(c.net, "server")
  OBVIOUS
<1>9. Ends(c.net, m)
  BY <1>1, <1>8, DestroyEnds
<1>10. d = [a EXCEPT !.net = m]
  BY <1>1, <1>3, <1>6, <1>8 DEF CloseTimeout, Conversations
<1>11. Kept(p, d)
  <2>1. Ends(a.net, m)
    BY <1>7, <1>9
  <2>2. Kept(p, a)
    BY <1>7
  <2>. QED BY ONLY <1>10, <2>1, <2>2, EndsKept
<1>12. d.net = m /\ d.srv = v /\ d.cli = c.cli
  BY <1>7, <1>10 DEF Kept, Conversations
<1>13. p = "curl" => Up(v, c.cli, m.server)
  <2>. SUFFICES ASSUME p = "curl" PROVE Up(v, c.cli, m.server)
    OBVIOUS
  <2>1. Up(c.srv, c.cli, c.net.server)
    OBVIOUS
  <2>2. Up(v, c.cli, c.net.server)
    BY <1>4, <2>1, UpSame
  <2>3. v \in Servers /\ c.cli \in Clients /\ c.net \in Links
    BY <1>1, <1>4
  <2>. QED BY ONLY <1>5, <1>9, <2>2, <2>3, EndsUp
<1>. QED BY <1>11, <1>12, <1>13

KeptUp(p, c) ==
  /\ Kept(p, c)
  /\ p = "curl" => Up(c.srv, c.cli, c.net.server)

\* v is the server old, closing from now on.
NowClosing(old, v) ==
  /\ v \in Servers /\ v.ws = old.ws /\ v.header = old.header /\ v.told = old.told
  /\ v.sent = old.sent /\ v.closeSent = old.closeSent /\ v.readyState = "closing"
  /\ v.closeRcvd = old.closeRcvd /\ v.frag = old.frag /\ v.recv = old.recv
  /\ v.failing => old.failing

\* The server's socket is closing, which changes nothing of what it has received,
\* and sends its close frame if it has not.
LEMMA ClosingKept ==
  ASSUME NEW p, NEW c, KeptUp(p, c), c.srv.ws, c.srv.readyState # "closed",
         NEW v, NowClosing(c.srv, v),
         NEW d, d = SendClose([c EXCEPT !.srv = v])
  PROVE  KeptUp(p, d) /\ d.cli = c.cli /\ d.srv = [v EXCEPT !.closeSent = TRUE]
<1>1. Kept(p, c)
  BY DEF KeptUp
<1>2. p = "curl" => Up(c.srv, c.cli, c.net.server)
  BY DEF KeptUp
<1>3. /\ v \in Servers /\ v.ws = c.srv.ws /\ v.header = c.srv.header /\ v.told = c.srv.told
       /\ v.sent = c.srv.sent /\ v.closeSent = c.srv.closeSent /\ v.readyState = "closing"
       /\ v.closeRcvd = c.srv.closeRcvd /\ v.frag = c.srv.frag /\ v.recv = c.srv.recv
       /\ (v.failing => c.srv.failing)
  BY DEF NowClosing
<1>4. c \in Conversations /\ c.net \in Links /\ c.srv \in Servers /\ c.cli \in Clients
  BY ONLY <1>1 DEF Kept, Conversations
<1>5. ServerOrder(c.srv, c.net.server)
  BY ONLY <1>1 DEF Kept
<1>6. ServerOrder(v, c.net.server)
  BY <1>5, <1>3, OrderSame
<1>7. PICK a : a = [c EXCEPT !.srv = v]
  OBVIOUS
<1>8. Kept(p, a) /\ a.net = c.net /\ a.srv = v /\ a.cli = c.cli
  <2>1. v.closeSent => v.readyState # "open"
    BY <1>3
  <2>2. v.sent = c.srv.sent /\ v.closeSent = c.srv.closeSent /\ v.ws = c.srv.ws /\ v \in Servers
    BY <1>3
  <2>3. Kept(p, c)
    BY ONLY <1>1
  <2>. QED BY ONLY <1>6, <1>7, <2>1, <2>2, <2>3, SrvKept
<1>9. d = SendClose(a)
  BY <1>7
<1>10. Kept(p, a) /\ a.srv.ws /\ a.srv.readyState # "open"
  BY <1>3, <1>8
<1>11. /\ Kept(p, d) /\ d.cli = a.cli /\ d.srv = [a.srv EXCEPT !.closeSent = TRUE]
       /\ d.net.server.in = a.net.server.in /\ d.net.server.events = a.net.server.events
       /\ d.net.server.closed = a.net.server.closed
  BY ONLY <1>9, <1>10, SendCloseKept
<1>12. PICK v2 : v2 = [v EXCEPT !.closeSent = TRUE]
  OBVIOUS
<1>13. /\ v2.ws = v.ws /\ v2.header = v.header /\ v2.told = v.told
       /\ v2.closeRcvd = v.closeRcvd /\ v2.frag = v.frag /\ v2.recv = v.recv
  <2>1. v \in Servers
    BY <1>3
  <2>. QED BY ONLY <1>12, <2>1 DEF Servers
<1>14. p = "curl" => Up(v2, c.cli, d.net.server)
  <2>. SUFFICES ASSUME p = "curl" PROVE Up(v2, c.cli, d.net.server)
    OBVIOUS
  <2>1. Up(c.srv, c.cli, c.net.server)
    BY <1>2
  <2>2. Queued(d.net.server) = Queued(c.net.server) /\ d.net.server.in = c.net.server.in
        /\ d.net.server.closed = c.net.server.closed
    BY <1>8, <1>11 DEF Queued
  <2>3. /\ v2.ws = c.srv.ws /\ v2.header = c.srv.header /\ v2.told = c.srv.told
        /\ v2.closeRcvd = c.srv.closeRcvd /\ v2.frag = c.srv.frag /\ v2.recv = c.srv.recv
    BY <1>3, <1>13
  <2>4. PICK old, u, s, s2 : old = c.srv /\ u = c.cli /\ s = c.net.server /\ s2 = d.net.server
    OBVIOUS
  <2>5. Up(old, u, s) /\ u.sent = u.sent /\ u.native = u.native
    BY <2>1, <2>4
  <2>6. s2.in = s.in /\ Queued(s2) = Queued(s) /\ s2.closed = s.closed
    BY <2>2, <2>4
  <2>7. v2.header = old.header /\ v2.recv = old.recv /\ v2.ws = old.ws /\ v2.told = old.told
    BY <2>3, <2>4
  <2>8. v2.closeRcvd = old.closeRcvd /\ v2.frag = old.frag
    BY <2>3, <2>4
  <2>9. Up(v2, u, s2)
    BY ONLY <2>5, <2>6, <2>7, <2>8, UpSame
  <2>. QED BY <2>4, <2>9
<1>15. d.srv = v2
  BY <1>8, <1>11, <1>12
<1>. QED BY <1>8, <1>11, <1>12, <1>14, <1>15 DEF KeptUp

\* The socket is ended, by what keeps the order as well.
LEMMA EndedKept ==
  ASSUME NEW p, NEW c, Kept(p, c), p = "curl" => Up(c.srv, c.cli, c.net.server),
         NEW d, d = EndSocket(c)
  PROVE  Kept(p, d) /\ d.cli = c.cli /\ (p = "curl" => Up(d.srv, d.cli, d.net.server))
<1>1. Kept(p, c) /\ c.net \in Links /\ c.srv \in Servers /\ c.cli \in Clients
  BY DEF Kept, Conversations
<1>2. Kept(p, d) /\ d.cli = c.cli /\ d.srv = c.srv /\ Ends(c.net, d.net)
  BY ONLY <1>1, d = EndSocket(c), EndSocketKept
<1>3. ServerOrder(c.srv, c.net.server)
  BY <1>1 DEF Kept
<1>4. p = "curl" => Up(c.srv, c.cli, d.net.server)
  BY <1>1, <1>2, <1>3, EndsUp
<1>. QED BY <1>2, <1>4

LEMMA StartCloseKept ==
  ASSUME NEW p, NEW c, Kept(p, c), p = "curl" => Up(c.srv, c.cli, c.net.server),
         c.srv.readyState = "open", NEW d, d = StartClose(c, "own")
  PROVE  Kept(p, d) /\ d.cli = c.cli /\ (p = "curl" => Up(d.srv, d.cli, d.net.server))
<1>1. c \in Conversations /\ c.net \in Links /\ c.srv \in Servers /\ c.cli \in Clients
  BY DEF Kept, Conversations
<1>2. c.srv.ws /\ c.srv.readyState # "closed" /\ Kept(p, c)
      /\ (p = "curl" => Up(c.srv, c.cli, c.net.server))
  BY <1>1 DEF Kept, ServerOrder, Servers
<1>3. PICK v : v = [c.srv EXCEPT !.readyState = "closing", !.code = "own", !.initiated = TRUE]
  OBVIOUS
<1>4. /\ v \in Servers /\ v.ws = c.srv.ws /\ v.header = c.srv.header /\ v.told = c.srv.told
      /\ v.sent = c.srv.sent /\ v.closeSent = c.srv.closeSent /\ v.readyState = "closing"
      /\ v.closeRcvd = c.srv.closeRcvd /\ v.frag = c.srv.frag /\ v.recv = c.srv.recv
      /\ (v.failing => c.srv.failing)
  BY <1>1, <1>3 DEF Servers, Codes
<1>5. PICK b : b = SendClose([c EXCEPT !.srv = v])
  OBVIOUS
<1>6. /\ Kept(p, b) /\ b.cli = c.cli /\ b.srv = [v EXCEPT !.closeSent = TRUE]
      /\ p = "curl" => Up(b.srv, b.cli, b.net.server)
  <2>1. KeptUp(p, c)
    BY <1>2 DEF KeptUp
  <2>2. c.srv.ws /\ c.srv.readyState # "closed"
    BY <1>2
  <2>3. NowClosing(c.srv, v)
    BY <1>4 DEF NowClosing
  <2>4. KeptUp(p, b) /\ b.cli = c.cli /\ b.srv = [v EXCEPT !.closeSent = TRUE]
    BY ONLY <1>5, <2>1, <2>2, <2>3, ClosingKept
  <2>. QED BY <2>4 DEF KeptUp
<1>7. d = IF c.srv.closeRcvd THEN EndSocket(b) ELSE [b EXCEPT !.srv.timer = TRUE]
  BY <1>1, <1>3, <1>5 DEF StartClose, Conversations
<1>8. CASE c.srv.closeRcvd
  <2>1. d = EndSocket(b)
    BY <1>7, <1>8
  <2>. QED BY <1>6, <2>1, EndedKept
<1>9. CASE ~c.srv.closeRcvd
  <2>1. b \in Conversations /\ b.srv \in Servers /\ ServerOrder(b.srv, b.net.server)
        /\ OneCloseFrame(b.srv, b.net.client.in)
    BY <1>6 DEF Kept, Conversations
  <2>2. PICK x : x = [b.srv EXCEPT !.timer = TRUE]
    OBVIOUS
  <2>3. /\ x \in Servers /\ x.ws = b.srv.ws /\ x.header = b.srv.header /\ x.told = b.srv.told
        /\ x.sent = b.srv.sent /\ x.closeSent = b.srv.closeSent /\ x.readyState = b.srv.readyState
        /\ x.closeRcvd = b.srv.closeRcvd /\ x.frag = b.srv.frag /\ x.recv = b.srv.recv
        /\ (x.failing => b.srv.failing)
    BY <2>1, <2>2 DEF Servers
  <2>4. b.srv.ws /\ b.srv.readyState = "closing"
    BY <1>2, <1>4, <1>6 DEF Servers
  <2>5. ServerOrder(x, b.net.server)
    BY <2>1, <2>3, <2>4, OrderSame
  <2>6. d = [b EXCEPT !.srv = x]
    BY <1>7, <1>9, <2>1, <2>2 DEF Conversations
  <2>7. x.closeSent => x.readyState # "open"
    BY <2>3, <2>4
  <2>8. x \in Servers /\ x.sent = b.srv.sent /\ x.closeSent = b.srv.closeSent /\ x.ws = b.srv.ws
    BY <2>3
  <2>0. Kept(p, b)
    BY <1>6
  <2>9. Kept(p, d) /\ d.net = b.net /\ d.srv = x /\ d.cli = b.cli
    BY ONLY <2>0, <2>5, <2>6, <2>7, <2>8, SrvKept
  <2>10. p = "curl" => Up(x, b.cli, b.net.server)
    <3>. SUFFICES ASSUME p = "curl" PROVE Up(x, b.cli, b.net.server)
      OBVIOUS
    <3>1. Up(b.srv, b.cli, b.net.server)
      BY <1>6
    <3>. QED BY <2>3, <3>1, UpSame
  <2>. QED BY <1>6, <2>9, <2>10
<1>. QED BY <1>8, <1>9

\* What is left of _fail after the listeners of its 'error'.
LEMMA AfterErrorKept ==
  ASSUME NEW p, NEW c, Kept(p, c), p = "curl" => Up(c.srv, c.cli, c.net.server),
         c.srv.failing, NEW d, d = AfterError(c)
  PROVE  Kept(p, d) /\ d.cli = c.cli /\ (p = "curl" => Up(d.srv, d.cli, d.net.server))
<1>1. c \in Conversations /\ c.srv \in Servers
  BY DEF Kept, Conversations
<1>2. c.srv.ws /\ c.srv.readyState # "closed" /\ Kept(p, c)
      /\ (p = "curl" => Up(c.srv, c.cli, c.net.server))
  BY <1>1 DEF Kept, ServerOrder
<1>3. PICK v : v = [c.srv EXCEPT !.failing = FALSE, !.readyState = "closing", !.code = "failed"]
  OBVIOUS
<1>4. /\ v \in Servers /\ v.ws = c.srv.ws /\ v.header = c.srv.header /\ v.told = c.srv.told
      /\ v.sent = c.srv.sent /\ v.closeSent = c.srv.closeSent /\ v.readyState = "closing"
      /\ v.closeRcvd = c.srv.closeRcvd /\ v.frag = c.srv.frag /\ v.recv = c.srv.recv
      /\ (v.failing => c.srv.failing)
  BY <1>1, <1>3 DEF Servers, Codes
<1>5. PICK b : b = SendClose([c EXCEPT !.srv = v])
  OBVIOUS
<1>6. /\ Kept(p, b) /\ b.cli = c.cli
      /\ p = "curl" => Up(b.srv, b.cli, b.net.server)
  <2>1. KeptUp(p, c)
    BY <1>2 DEF KeptUp
  <2>2. c.srv.ws /\ c.srv.readyState # "closed"
    BY <1>2
  <2>3. NowClosing(c.srv, v)
    BY <1>4 DEF NowClosing
  <2>4. KeptUp(p, b) /\ b.cli = c.cli /\ b.srv = [v EXCEPT !.closeSent = TRUE]
    BY ONLY <1>5, <2>1, <2>2, <2>3, ClosingKept
  <2>. QED BY <2>4 DEF KeptUp
<1>7. d = EndSocket(b)
  BY <1>1, <1>3, <1>5 DEF AfterError, Conversations
<1>. QED BY <1>6, <1>7, EndedKept

\* A message of the server.
LEMMA MessageDown ==
  ASSUME NEW v \in Servers, NEW v2 \in Servers, NEW u \in Clients, NEW l \in Links, NEW l2,
         Down(v, u, l), v.ws, ~v.closeSent, NEW piece \in 1 .. MaxDown,
         Writable(l, "server"), v2.sent = Append(v.sent, piece), ~v2.closeSent, v2.ws,
         Live(u) => ~l.client.closed,
         l2.client.in = IF ~l.client.closed
                        THEN l.client.in \o Units(Frame("data", piece, TRUE)) ELSE l.client.in
  PROVE  Down(v2, u, l2)
<1>1. v.sent \in Seq(1 .. MaxDown) /\ Len(v.sent) \in Nat /\ DOMAIN v.sent = 1 .. Len(v.sent)
  BY ServerFields
<1>2. PICK sent \in Seq(1 .. MaxDown) : sent = v.sent
  BY <1>1
<1>3. PICK more : more = Append(sent, piece)
  OBVIOUS
<1>4. /\ more \in Seq(1 .. MaxDown) /\ Len(more) = Len(sent) + 1 /\ Len(sent) \in Nat
      /\ DOMAIN sent = 1 .. Len(sent) /\ DOMAIN more = 1 .. Len(more)
      /\ \A i \in 1 .. Len(sent) : more[i] = sent[i]
  BY <1>3
<1>5. \A i \in DOMAIN sent : i \in DOMAIN more /\ more[i] = sent[i]
  <2>1. Len(sent) <= Len(more)
    BY ONLY <1>4
  <2>. QED BY ONLY <1>4, <2>1
<1>6. v2.sent = more
  BY <1>2, <1>3
<1>7. AsSent(u.told, more)
  BY <1>2, <1>5 DEF Down, AsSent
<1>8. \A i \in DOMAIN u.inbox :
        LET n == Cardinality(Messages(u.told)) + i
        IN  n \in DOMAIN more /\ u.inbox[i] = <<more[n]>>
  BY <1>2, <1>5 DEF Down
<1>9. Taken(u) <= Len(more) /\ Taken(u) \in Nat
  <2>1. Taken(u) <= Len(sent) /\ Taken(u) \in Nat
    BY <1>2, Counts DEF Down
  <2>. QED BY <1>4, <2>1
<1>10. u.code # "peer" /\ ~ToldClose(u.told, <<"peer">>)
  BY DEF Down
<1>11. ASSUME Live(u), NEW n \in Nat, DownFrom(v, u, l, n)
       PROVE  DownFrom(v2, u, l2, n)
  <2>1. PICK wire \in Seq(DownUnits) : wire = l.client.in
    BY DEF Links, Endpoints
  <2>2. PICK f : f = Frame("data", piece, TRUE)
    OBVIOUS
  <2>3. PICK next : next = wire \o Units(f)
    OBVIOUS
  <2>4. l2.client.in = next
    BY <1>11, <2>1, <2>2, <2>3
  <2>5. PICK k \in Nat : k = Len(wire)
    BY <2>1
  <2>6. Len(next) = k + 2
    <3>1. wire \in Seq(DownUnits)
      OBVIOUS
    <3>2. Len(wire \o Units(f)) = Len(wire) + 2
      BY ONLY <3>1, TwoMore
    <3>. QED BY <2>3, <2>5, <3>2
  <2>7. n + k = 2 + 2 * Len(sent)
    <3>1. n + k <= 2 + 2 * Len(sent)
      BY <1>2, <1>11, <2>1, <2>5 DEF DownFrom
    <3>2. n + k >= 2 + 2 * Len(sent)
      BY <1>2, <1>11, <2>1, <2>5 DEF DownFrom
    <3>3. 2 + 2 * Len(sent) \in Nat /\ n + k \in Nat
      BY <1>4
    <3>. QED BY ONLY <3>1, <3>2, <3>3
  <2>8. Follows(next, "101", more, n)
    <3>1. Follows(wire, "101", sent, n) /\ n + Len(wire) = 2 + 2 * Len(sent)
      BY <1>2, <1>11, <2>1, <2>5, <2>7 DEF DownFrom
    <3>2. wire \in Seq(DownUnits) /\ sent \in Seq(1 .. MaxDown) /\ piece \in 1 .. MaxDown /\ n \in Nat
      BY <1>11
    <3>3. Follows(wire \o Units(Frame("data", piece, TRUE)), "101", Append(sent, piece), n)
      BY ONLY <3>1, <3>2, FollowsData
    <3>. QED BY <1>3, <2>2, <2>3, <3>3
  <2>9. n = DownRead(u)
    BY <1>11 DEF DownFrom
  <2>10. u.partial # <<>> => Taken(u) + 1 \in DOMAIN more /\ u.partial = <<more[Taken(u) + 1]>>
    BY <1>2, <1>5, <1>11 DEF DownFrom
  <2>11. /\ n + Len(next) <= 2 + 2 * Len(more) /\ n + Len(next) >= 2 + 2 * Len(more)
         /\ n + Len(next) <= 2 + 2 * Len(more) + 2
    <3>1. Len(more) = Len(sent) + 1 /\ Len(sent) \in Nat
      BY <1>4
    <3>. QED BY ONLY n \in Nat, k \in Nat, <2>6, <2>7, <3>1
  <2>. QED BY <1>6, <2>4, <2>8, <2>9, <2>10, <2>11 DEF DownFrom
<1>. QED BY <1>6, <1>7, <1>8, <1>9, <1>10, <1>11 DEF Down

LEMMA ServerSendKept ==
  ASSUME NEW p, NEW c, Kept(p, c), p = "curl" => Up(c.srv, c.cli, c.net.server),
         c.srv.readyState = "open", NEW piece \in 1 .. MaxDown, NEW d, d = ServerSend(c, piece)
  PROVE  Kept(p, d) /\ d.cli = c.cli /\ (p = "curl" => Up(d.srv, d.cli, d.net.server))
<1>1. c \in Conversations /\ c.net \in Links /\ c.srv \in Servers /\ c.cli \in Clients
  BY DEF Kept, Conversations
<1>2. /\ ServerOrder(c.srv, c.net.server) /\ OneCloseFrame(c.srv, c.net.client.in) /\ c.srv.ws
      /\ ~c.srv.closeSent
  BY <1>1 DEF Kept, ServerOrder, OneCloseFrame, Servers
<1>3. p = "curl" => /\ Down(c.srv, c.cli, c.net)
                    /\ c.net.client.closed => c.cli.native \in {"closed", "gone"}
  BY DEF Kept
<1>4. p = "curl" => (Live(c.cli) => ~c.net.client.closed)
  BY <1>3 DEF Live
<1>5. PICK f \in DownFrames : f = Frame("data", piece, TRUE)
  BY DEF DownFrames
<1>6. f.op = "data"
  BY <1>5 DEF Frame
<1>7. PICK units \in Seq(DownUnits) : units = Units(f)
  BY UnitsDown
<1>8. PICK m : m = SocketWrite(c.net, "server", units)
  OBVIOUS
<1>9. /\ m \in Links /\ m.client.closed = c.net.client.closed
      /\ Writable(m, "server") = Writable(c.net, "server")
      /\ m.server.in = c.net.server.in /\ m.server.events = c.net.server.events
      /\ m.server.closed = c.net.server.closed
      /\ m.client.in = IF Writable(c.net, "server") /\ ~c.net.client.closed
                       THEN c.net.client.in \o units ELSE c.net.client.in
  <2>1. c.net \in Links /\ units \in Seq(DownUnits)
    BY <1>1
  <2>. QED BY ONLY <1>8, <2>1, WriteOnly
<1>10. CASE ~Writable(c.net, "server")
  <2>1. m = c.net
    BY <1>8, <1>10 DEF SocketWrite
  <2>2. d = c
    BY <1>1, <1>5, <1>7, <1>8, <1>10, <2>1 DEF ServerSend, WriteFrame, Conversations, Servers
  <2>. QED BY <2>2
<1>11. CASE Writable(c.net, "server")
  <2>1. PICK v : v = [c.srv EXCEPT !.sent = Append(@, piece)]
    OBVIOUS
  <2>2. Append(c.srv.sent, piece) \in Seq(1 .. MaxDown)
    BY <1>1, ServerFields
  <2>3. /\ v \in Servers /\ v.ws = c.srv.ws /\ v.header = c.srv.header /\ v.told = c.srv.told
        /\ v.sent = Append(c.srv.sent, piece) /\ v.closeSent = c.srv.closeSent
        /\ v.readyState = c.srv.readyState /\ v.timer = c.srv.timer /\ v.feeding = c.srv.feeding /\ v.failing = c.srv.failing
        /\ v.closeRcvd = c.srv.closeRcvd /\ v.frag = c.srv.frag /\ v.recv = c.srv.recv
    BY <1>1, <2>1, <2>2 DEF Servers
  <2>4. d = [[c EXCEPT !.net = m] EXCEPT !.srv = v]
    BY <1>1, <1>5, <1>7, <1>8, <1>11, <2>1 DEF ServerSend, WriteFrame, Conversations, Servers
  <2>5. d \in Conversations /\ d.net = m /\ d.srv = v /\ d.cli = c.cli
    BY <1>1, <1>9, <2>3, <2>4 DEF Conversations
  <2>6. ServerOrder(v, m.server)
    BY <1>2, <1>9, <2>3 DEF ServerOrder, EventsOrdered
  <2>7. OneCloseFrame(v, m.client.in)
    <3>1. PICK wire \in Seq(DownUnits) : wire = c.net.client.in
      BY <1>1 DEF Links, Endpoints
    <3>2. \A i \in DOMAIN wire : wire[i].frame.op # "close"
      BY <1>2, <3>1 DEF OneCloseFrame
    <3>3. PICK next : next = wire \o Units(f)
      OBVIOUS
    <3>4. /\ \A i \in 1 .. Len(wire) : next[i] = wire[i]
          /\ next[Len(wire) + 1] = [frame |-> f, half |-> 1]
          /\ next[Len(wire) + 2] = [frame |-> f, half |-> 2]
          /\ DOMAIN next = 1 .. Len(wire) + 2 /\ DOMAIN wire = 1 .. Len(wire) /\ Len(wire) \in Nat
      BY ONLY <3>3, wire \in Seq(DownUnits), TwoMore
    <3>5. \A i \in DOMAIN next : next[i].frame.op # "close"
      <4>1. \A i \in DOMAIN next : i \in DOMAIN wire \/ i = Len(wire) + 1 \/ i = Len(wire) + 2
        <5>1. PICK k \in Nat : k = Len(wire)
          BY <3>4
        <5>2. DOMAIN next = 1 .. k + 2 /\ DOMAIN wire = 1 .. k
          BY <3>4, <5>1
        <5>3. \A i \in 1 .. k + 2 : i \in 1 .. k \/ i = k + 1 \/ i = k + 2
          OBVIOUS
        <5>. QED BY ONLY <5>1, <5>2, <5>3
      <4>. QED BY <1>6, <3>2, <3>4, <4>1
    <3>. QED BY <1>2, <1>7, <1>9, <2>3, <3>1, <3>2, <3>3, <3>5 DEF OneCloseFrame
  <2>8. p = "curl" => Down(v, c.cli, m)
    <3>. SUFFICES ASSUME p = "curl" PROVE Down(v, c.cli, m)
      OBVIOUS
    <3>6. Live(c.cli) => ~c.net.client.closed
      BY <1>4
    <3>1. c.srv \in Servers /\ v \in Servers /\ c.cli \in Clients /\ c.net \in Links
      BY <1>1, <2>3
    <3>2. Down(c.srv, c.cli, c.net) /\ c.srv.ws /\ ~c.srv.closeSent /\ Writable(c.net, "server")
      BY <1>2, <1>3, <1>11
    <3>3. v.sent = Append(c.srv.sent, piece) /\ ~v.closeSent /\ v.ws
      BY <1>2, <2>3
    <3>4. m.client.in = IF ~c.net.client.closed
                        THEN c.net.client.in \o Units(Frame("data", piece, TRUE)) ELSE c.net.client.in
      BY <1>5, <1>7, <1>9, <1>11
    <3>5. piece \in 1 .. MaxDown
      OBVIOUS
    <3>. QED BY ONLY <3>6, <3>1, <3>2, <3>3, <3>4, <3>5, MessageDown
  <2>9. p = "curl" => Up(v, c.cli, m.server)
    <3>. SUFFICES ASSUME p = "curl" PROVE Up(v, c.cli, m.server)
      OBVIOUS
    <3>2. Up(c.srv, c.cli, c.net.server)
      OBVIOUS
    <3>1. Queued(m.server) = Queued(c.net.server)
      BY <1>9 DEF Queued
    <3>. QED BY <1>9, <2>3, <3>1, <3>2, UpSame
  <2>. QED BY <1>2, <1>3, <1>9, <2>5, <2>6, <2>7, <2>8, <2>9 DEF Kept
<1>. QED BY <1>10, <1>11

-------------------------------------------------------------------------------
(* The client's steps.                                                       *)

LEMMA ClientMoves ==
  ASSUME NEW p, p = "curl", NEW c, Kept(p, c), NEW d \in Conversations, d.srv = c.srv,
         d.net.server.events = c.net.server.events, d.net.server.closed = c.net.server.closed,
         OneCloseFrame(d.srv, d.net.client.in), ClientOrder(d.cli),
         d.net.client.closed => d.cli.native \in {"closed", "gone"},
         Down(d.srv, d.cli, d.net)
  PROVE  Kept(p, d)
<1>1. ServerOrder(d.srv, d.net.server)
  BY DEF Kept, ServerOrder, EventsOrdered
<1>. QED BY <1>1 DEF Kept

\* What the client changes of its own.
LEMMA UpClient ==
  ASSUME NEW v, NEW u, NEW u2, NEW s, NEW s2, Up(v, u, s), u2.sent = u.sent,
         u2.native \in {"connecting", "open"} => u.native \in {"connecting", "open"},
         s2.in = s.in, s2.events = s.events, s2.closed = s.closed
  PROVE  Up(v, u2, s2)
<1>1. Upstream(v, s2) = Upstream(v, s)
  BY DEF Upstream, Queued
<1>. QED BY <1>1 DEF Up

LEMMA DownView ==
  ASSUME NEW v, NEW u, NEW u2, NEW l, NEW l2, Down(v, u, l),
         u2.told = u.told, u2.inbox = u.inbox, u2.code = "peer" <=> u.code = "peer",
         u.native = "gone" => u2.native = "gone",
         Live(u2) => /\ Live(u) /\ (u2.native = "connecting" <=> u.native = "connecting")
                     /\ u2.partial = u.partial /\ l2.client.in = l.client.in
                     /\ (Writable(l2, "server") => Writable(l, "server"))
  PROVE  Down(v, u2, l2)
<1>1. Taken(u2) = Taken(u)
  BY DEF Taken
<1>2. ASSUME Live(u2), NEW n \in Nat, DownFrom(v, u, l, n)
      PROVE  DownFrom(v, u2, l2, n)
  <2>1. DownRead(u2) = DownRead(u)
    BY <1>1, <1>2 DEF DownRead
  <2>. QED BY <1>1, <1>2, <2>1 DEF DownFrom
<1>. QED BY <1>1, <1>2 DEF Down

\* An event that is no message.
LEMMA TellDown ==
  ASSUME NEW v, NEW u \in Clients, NEW l, Down(v, u, l), NEW e \in Told, e.type # "message",
         e = ServerEvent("close", <<"peer">>) => u.code = "peer" /\ u.inbox = <<>> /\ u.native = "gone",
         NEW u2, u2.told = Append(u.told, e), u2.inbox = u.inbox, u2.code = u.code,
         u2.native = u.native, u2.partial = u.partial
  PROVE  Down(v, u2, l)
<1>1. u.told \in Seq(Told)
  BY ClientFields
<1>2. Messages(u2.told) = Messages(u.told)
  BY <1>1, OthersAppended
<1>3. Taken(u2) = Taken(u) /\ DownRead(u2) = DownRead(u) /\ (Live(u2) <=> Live(u))
  BY <1>2 DEF Taken, DownRead, Live
<1>4. AsSent(u2.told, v.sent)
  <2>1. AsSent(u.told, v.sent)
    BY DEF Down
  <2>. QED BY <1>1, <2>1, AsSentQuiet
<1>5. \A n \in Nat : DownFrom(v, u, l, n) => DownFrom(v, u2, l, n)
  BY <1>3 DEF DownFrom
<1>6. ToldClose(u2.told, <<"peer">>) => u2.code = "peer" /\ u2.inbox = <<>> /\ u2.native = "gone"
  <2>1. PICK told : told = Append(u.told, e)
    OBVIOUS
  <2>2. \A i \in DOMAIN told : IF i \in DOMAIN u.told THEN told[i] = u.told[i] ELSE told[i] = e
    BY <1>1, <2>1
  <2>. QED BY <2>1, <2>2 DEF Down, ToldClose
<1>. QED BY <1>2, <1>3, <1>4, <1>5, <1>6 DEF Down

\* The start of the wire taken.
LEMMA CloseRest ==
  ASSUME NEW v, NEW wire \in Seq(DownUnits), OneCloseFrame(v, wire), NEW k \in Nat, k <= Len(wire)
  PROVE  OneCloseFrame(v, SubSeq(wire, k + 1, Len(wire)))
<1>1. PICK rest : rest = SubSeq(wire, k + 1, Len(wire))
  OBVIOUS
<1>2. /\ rest \in Seq(DownUnits) /\ Len(rest) = Len(wire) - k /\ Len(wire) \in Nat
      /\ DOMAIN rest = 1 .. Len(rest) /\ DOMAIN wire = 1 .. Len(wire)
      /\ \A i \in 1 .. Len(rest) : rest[i] = wire[i + k]
  BY <1>1
<1>3. ASSUME NEW i \in DOMAIN rest, rest[i].frame.op = "close"
      PROVE  v.closeSent /\ i >= Len(rest) - 1
  <2>1. i + k \in DOMAIN wire /\ wire[i + k].frame.op = "close" /\ i \in Nat
    BY <1>2, <1>3
  <2>2. v.closeSent /\ i + k >= Len(wire) - 1
    BY <2>1 DEF OneCloseFrame
  <2>. QED BY <1>2, <2>1, <2>2
<1>. QED BY <1>1, <1>3 DEF OneCloseFrame

\* All that holds of a conversation.
Holds(p, c) == Kept(p, c) /\ (p = "curl" => Up(c.srv, c.cli, c.net.server))

LEMMA HoldsSame ==
  ASSUME NEW p, NEW c, Holds(p, c), NEW d \in Conversations,
         d.net = c.net, d.srv = c.srv, d.cli = c.cli
  PROVE  Holds(p, d)
BY DEF Holds, Kept

LEMMA CliHolds ==
  ASSUME NEW p, p = "curl", NEW c, Holds(p, c), NEW u \in Clients, ClientOrder(u),
         Down(c.srv, u, c.net), u.sent = c.cli.sent,
         u.native \in {"connecting", "open"} => c.cli.native \in {"connecting", "open"},
         c.cli.native \in {"closed", "gone"} => u.native \in {"closed", "gone"},
         NEW d, d = [c EXCEPT !.cli = u]
  PROVE  Holds(p, d)
<1>1. c \in Conversations
  BY DEF Holds, Kept
<1>2. d \in Conversations /\ d.net = c.net /\ d.srv = c.srv /\ d.cli = u
  BY <1>1, CliOf
<1>3. OneCloseFrame(c.srv, c.net.client.in) /\ (c.net.client.closed => c.cli.native \in {"closed", "gone"})
  BY DEF Holds, Kept
<1>4. Kept(p, c) /\ Up(c.srv, c.cli, c.net.server)
  BY DEF Holds
<1>5. Kept(p, d)
  BY <1>2, <1>3, <1>4, ClientMoves
<1>6. Up(c.srv, u, c.net.server)
  BY <1>4, UpClient
<1>. QED BY <1>2, <1>5, <1>6 DEF Holds

\* curl_easy_cleanup of a connection that is done with.
LEMMA CleanupHolds ==
  ASSUME NEW p, p = "curl", NEW c, Holds(p, c), c.cli.native \in {"closed", "gone"},
         NEW d, d = Cleanup(c)
  PROVE  Holds(p, d)
<1>1. c \in Conversations /\ c.net \in Links
  BY DEF Holds, Kept, Conversations
<1>2. CASE c.net.client.closed
  BY <1>2 DEF Cleanup
<1>3. CASE ~c.net.client.closed
  <2>1. PICK m : m = CloseHandle(c.net, "client")
    OBVIOUS
  <2>2. /\ m \in Links /\ m.client.in = <<>> /\ m.client.closed
        /\ m.server.events = c.net.server.events /\ m.server.closed = c.net.server.closed
        /\ m.server.in = c.net.server.in
    BY <1>1, <2>1, HangUpOf
  <2>3. d = [c EXCEPT !.net = m]
    BY <1>3, <2>1 DEF Cleanup
  <2>4. d \in Conversations /\ d.net = m /\ d.srv = c.srv /\ d.cli = c.cli
    BY <1>1, <2>2, <2>3, NetOf
  <2>5. Kept(p, c) /\ Up(c.srv, c.cli, c.net.server) /\ Down(c.srv, c.cli, c.net) /\ ClientOrder(c.cli)
    BY DEF Holds, Kept
  <2>6. OneCloseFrame(c.srv, <<>>)
    BY <2>5 DEF Kept, OneCloseFrame
  <2>7. ~Live(c.cli)
    BY DEF Live
  <2>8. Down(c.srv, c.cli, m)
    BY <2>5, <2>7 DEF Down
  <2>9. Kept(p, d)
    BY <2>2, <2>4, <2>5, <2>6, <2>8, ClientMoves
  <2>10. Up(c.srv, c.cli, m.server)
    BY <2>2, <2>5, UpClient
  <2>. QED BY <2>4, <2>9, <2>10 DEF Holds
<1>. QED BY <1>2, <1>3

LEMMA CleanupFields ==
  ASSUME NEW c \in Conversations, NEW d, d = Cleanup(c)
  PROVE  d \in Conversations /\ d.cli = c.cli /\ d.srv = c.srv
<1>1. c.net \in Links
  BY DEF Conversations
<1>2. CASE c.net.client.closed
  BY <1>2 DEF Cleanup
<1>3. CASE ~c.net.client.closed
  <2>1. PICK m : m = CloseHandle(c.net, "client")
    OBVIOUS
  <2>2. m \in Links
    BY <1>1, <2>1, HangUpOf
  <2>3. d = [c EXCEPT !.net = m]
    BY <1>3, <2>1 DEF Cleanup
  <2>. QED BY <2>2, <2>3, NetOf
<1>. QED BY <1>2, <1>3

LEMMA GotoHolds ==
  ASSUME NEW p, p = "curl", NEW c, Holds(p, c), NEW pc \in {"idle", "drain", "poll", "drain again"},
         NEW d, d = Goto(c, pc)
  PROVE  Holds(p, d)
<1>1. c \in Conversations /\ c.cli \in Clients
  BY DEF Holds, Kept, Conversations
<1>2. PICK u : u = [c.cli EXCEPT !.pc = pc]
  OBVIOUS
<1>3. /\ u \in Clients /\ u.told = c.cli.told /\ u.inbox = c.cli.inbox /\ u.code = c.cli.code
      /\ u.native = c.cli.native /\ u.partial = c.cli.partial /\ u.sent = c.cli.sent
      /\ u.promise = c.cli.promise /\ u.readyState = c.cli.readyState
      /\ u.established = c.cli.established /\ u.error = c.cli.error
  BY <1>1, <1>2 DEF Clients
<1>4. ClientOrder(c.cli) /\ Down(c.srv, c.cli, c.net)
  BY DEF Holds, Kept
<1>5. ClientOrder(u)
  BY <1>3, <1>4 DEF ClientOrder
<1>6. Down(c.srv, u, c.net)
  BY <1>3, <1>4, DownView DEF Live
<1>7. d = [c EXCEPT !.cli = u]
  BY <1>1, <1>2 DEF Goto, Conversations
<1>. QED BY <1>3, <1>5, <1>6, <1>7, CliHolds

LEMMA UpgradeFailsHolds ==
  ASSUME NEW p, p = "curl", NEW c, Holds(p, c), c.cli.native = "connecting",
         NEW d, d = UpgradeFails(c)
  PROVE  Holds(p, d)
<1>1. c \in Conversations /\ c.cli \in Clients
  BY DEF Holds, Kept, Conversations
<1>2. PICK u : u = [c.cli EXCEPT !.native = "closed", !.promise = "rejected", !.error = TRUE]
  OBVIOUS
<1>3. /\ u \in Clients /\ u.told = c.cli.told /\ u.inbox = c.cli.inbox /\ u.code = c.cli.code
      /\ u.native = "closed" /\ u.partial = c.cli.partial /\ u.sent = c.cli.sent
      /\ u.established = c.cli.established
  BY <1>1, <1>2 DEF Clients
<1>4. ClientOrder(c.cli) /\ Down(c.srv, c.cli, c.net)
  BY DEF Holds, Kept
<1>5. ClientOrder(u)
  BY <1>1, <1>3, <1>4 DEF ClientOrder
<1>6. Down(c.srv, u, c.net)
  BY <1>3, <1>4, DownView DEF Live
<1>7. PICK a : a = [c EXCEPT !.cli = u]
  OBVIOUS
<1>8. Holds(p, a) /\ a.cli = u
  <2>1. Holds(p, a)
    BY <1>3, <1>5, <1>6, <1>7, CliHolds
  <2>. QED BY <1>1, <1>3, <1>7, <2>1, CliOf
<1>9. d = Cleanup(a)
  BY <1>1, <1>2, <1>7 DEF UpgradeFails, Conversations
<1>. QED BY <1>3, <1>8, <1>9, CleanupHolds

\* The reply to the upgrade, of which both halves have come.
LEMMA UpgradedDown ==
  ASSUME NEW v \in Servers, NEW u \in Clients, NEW u2, NEW l \in Links, NEW l2, Down(v, u, l),
         u.native = "connecting", u.inbox = <<>>, u.partial = <<>>, u.told = <<>>,
         u2.native = "open", u2.told = <<>>, u2.inbox = <<>>, u2.partial = <<>>,
         u2.code = u.code, Len(l.client.in) >= 2,
         l2.client.in = SubSeq(l.client.in, 3, Len(l.client.in)),
         Writable(l2, "server") => Writable(l, "server")
  PROVE  Down(v, u2, l2)
<1>1. PICK wire \in Seq(DownUnits) : wire = l.client.in
  BY DEF Links, Endpoints
<1>2. PICK n \in Nat : DownFrom(v, u, l, n)
  BY DEF Down, Live
<1>3. DownRead(u) = 0
  BY DEF DownRead
<1>4. n = 0
  BY <1>2, <1>3 DEF DownFrom
<1>5. Messages(<<>>) = {} /\ Cardinality({}) = 0
  BY FS_EmptySet DEF Messages
<1>6. Taken(u2) = 0
  <2>1. Len(<<>>) = 0 /\ 0 + 0 = 0
    OBVIOUS
  <2>. QED BY <1>5, <2>1 DEF Taken
<1>7. DownRead(u2) = 2
  BY <1>6 DEF DownRead
<1>8. PICK rest : rest = SubSeq(wire, 2 + 1, Len(wire))
  OBVIOUS
<1>9. /\ Follows(rest, "101", v.sent, n + 2) /\ Len(rest) = Len(wire) - 2
  <2>0. PICK first, sent : first = "101" /\ sent = v.sent
    OBVIOUS
  <2>1. PICK k \in Nat : k = 2
    OBVIOUS
  <2>2. Follows(wire, first, sent, n) /\ k <= Len(wire)
    BY <1>1, <1>2, <2>0, <2>1 DEF DownFrom
  <2>3. wire \in Seq(DownUnits) /\ n \in Nat /\ k \in Nat
    OBVIOUS
  <2>4. /\ Follows(SubSeq(wire, k + 1, Len(wire)), first, sent, n + k)
        /\ Len(SubSeq(wire, k + 1, Len(wire))) = Len(wire) - k
    BY ONLY <2>2, <2>3, FollowsRest
  <2>. QED BY <1>8, <2>0, <2>1, <2>4
<1>10. l2.client.in = rest
  <2>1. 2 + 1 = 3
    OBVIOUS
  <2>. QED BY <1>1, <1>8, <2>1
<1>11. n + 2 = 2 /\ Len(wire) \in Nat /\ Len(v.sent) \in Nat /\ Len(wire) >= 2
  <2>1. Len(v.sent) \in Nat
    BY Counts
  <2>. QED BY <1>1, <1>4, <2>1
<1>12. wire # <<>>
  BY <1>11
<1>13. DownFrom(v, u2, l2, 2)
  <2>1. 2 + Len(rest) = n + Len(wire)
    BY <1>4, <1>9, <1>11
  <2>2. v.ws
    BY <1>1, <1>2, <1>12 DEF DownFrom
  <2>3. /\ n + Len(wire) <= 2 + 2 * Len(v.sent) + 2
        /\ ~v.closeSent => n + Len(wire) <= 2 + 2 * Len(v.sent)
        /\ n + Len(wire) >= 2 + 2 * Len(v.sent)
    BY <1>1, <1>2, <1>12 DEF DownFrom
  <2>4. Follows(rest, "101", v.sent, 2)
    BY <1>9, <1>11
  <2>. QED BY <1>7, <1>10, <2>1, <2>2, <2>3, <2>4 DEF DownFrom
<1>14. AsSent(u2.told, v.sent) /\ ~ToldClose(u2.told, <<"peer">>)
  BY <1>5 DEF AsSent, ToldClose
<1>15. u2.code # "peer"
  BY DEF Down, Live
<1>. QED BY <1>6, <1>11, <1>13, <1>14, <1>15 DEF Down

LEMMA UpgradedHolds ==
  ASSUME NEW p, p = "curl", NEW c, Holds(p, c), c.cli.native = "connecting", HasReply(c),
         NEW d, d = Upgraded(c)
  PROVE  Holds(p, d)
<1>1. c \in Conversations /\ c.net \in Links /\ c.srv \in Servers /\ c.cli \in Clients
  BY DEF Holds, Kept, Conversations
<1>2. PICK u : u = [c.cli EXCEPT !.native = "open", !.promise = "resolved", !.established = TRUE]
  OBVIOUS
<1>3. /\ u \in Clients /\ u.told = c.cli.told /\ u.inbox = c.cli.inbox /\ u.code = c.cli.code
      /\ u.native = "open" /\ u.partial = c.cli.partial /\ u.sent = c.cli.sent
      /\ u.established = TRUE /\ u.promise = "resolved"
  BY <1>1, <1>2 DEF Clients
<1>4. ClientOrder(c.cli) /\ Down(c.srv, c.cli, c.net) /\ OneCloseFrame(c.srv, c.net.client.in)
  BY DEF Holds, Kept
<1>5. c.cli.told = <<>> /\ c.cli.inbox = <<>> /\ c.cli.partial = <<>>
  BY <1>4 DEF ClientOrder
<1>6. ClientOrder(u)
  BY <1>3, <1>5 DEF ClientOrder
<1>7. PICK wire \in Seq(DownUnits) : wire = c.net.client.in
  BY <1>1 DEF Links, Endpoints
<1>8. PICK rest : rest = SubSeq(wire, 3, Len(wire))
  OBVIOUS
<1>9. rest \in Seq(DownUnits)
  BY <1>8
<1>10. PICK m : m = [c.net EXCEPT !.client.in = rest]
  OBVIOUS
<1>11. /\ m \in Links /\ m.client.in = rest /\ m.client.closed = c.net.client.closed
       /\ m.server = c.net.server
  BY <1>1, <1>9, <1>10 DEF Links, Endpoints
<1>12. d = [[c EXCEPT !.cli = u] EXCEPT !.net = m]
  BY <1>1, <1>2, <1>7, <1>8, <1>10 DEF Upgraded, Conversations, Links, Endpoints
<1>13. d \in Conversations /\ d.net = m /\ d.srv = c.srv /\ d.cli = u
  BY <1>1, <1>3, <1>11, <1>12 DEF Conversations
<1>14. OneCloseFrame(c.srv, rest)
  <2>1. 2 + 1 = 3
    OBVIOUS
  <2>2. OneCloseFrame(c.srv, SubSeq(wire, 2 + 1, Len(wire)))
    <3>1. wire \in Seq(DownUnits) /\ OneCloseFrame(c.srv, wire) /\ 2 \in Nat /\ 2 <= Len(wire)
      BY <1>4, <1>7 DEF HasReply
    <3>. QED BY ONLY <3>1, CloseRest
  <2>. QED BY ONLY <1>8, <2>1, <2>2
<1>15. Down(c.srv, u, m)
  <2>1. c.srv \in Servers /\ c.cli \in Clients /\ c.net \in Links /\ Down(c.srv, c.cli, c.net)
    BY <1>1, <1>4
  <2>2. Len(c.net.client.in) >= 2
    BY DEF HasReply
  <2>3. m.client.in = SubSeq(c.net.client.in, 3, Len(c.net.client.in))
    BY <1>7, <1>8, <1>11
  <2>4. Writable(m, "server") => Writable(c.net, "server")
    BY <1>11 DEF Writable
  <2>5. /\ c.cli.native = "connecting" /\ u.native = "open" /\ u.told = <<>> /\ u.inbox = <<>>
        /\ u.partial = <<>> /\ u.code = c.cli.code
    BY <1>3, <1>5
  <2>. QED BY ONLY <1>5, <2>1, <2>2, <2>3, <2>4, <2>5, UpgradedDown
<1>16. ~c.net.client.closed
  BY DEF Holds, Kept
<1>17. Kept(p, c) /\ Up(c.srv, c.cli, c.net.server)
  BY DEF Holds
<1>18. Kept(p, d)
  BY <1>6, <1>11, <1>13, <1>14, <1>15, <1>16, <1>17, ClientMoves
<1>19. Up(c.srv, u, m.server)
  BY <1>3, <1>11, <1>17, UpClient
<1>. QED BY <1>13, <1>18, <1>19 DEF Holds

LEMMA PerformHolds ==
  ASSUME NEW p, p = "curl", NEW c, Holds(p, c), NEW d \in Performed(c)
  PROVE  Holds(p, d)
<1>1. \/ d = c
      \/ c.cli.native = "connecting" /\ d = UpgradeFails(c)
      \/ c.cli.native = "connecting" /\ HasReply(c) /\ d = Upgraded(c)
  BY DEF Performed
<1>. QED BY <1>1, UpgradeFailsHolds, UpgradedHolds

\* What was received is told.
LEMMA TakeDown ==
  ASSUME NEW v, NEW u \in Clients, NEW u2, NEW l, Down(v, u, l), u.inbox # <<>>,
         u.native # "gone", u2.told = Append(u.told, ServerEvent("message", Head(u.inbox))),
         ServerEvent("message", Head(u.inbox)) \in Told,
         u2.inbox = Tail(u.inbox), u2.code = u.code, u2.native = u.native, u2.partial = u.partial
  PROVE  Down(v, u2, l)
<1>1. PICK told \in Seq(Told) : told = u.told
  BY ClientFields
<1>2. PICK inbox \in Seq(Seq(Nat)) : inbox = u.inbox
  BY ClientFields
<1>3. PICK e \in Told : e = ServerEvent("message", Head(inbox))
  BY <1>2
<1>4. e.type = "message" /\ e.data = Head(inbox)
  BY <1>3 DEF ServerEvent
<1>5. PICK k : k = Cardinality(Messages(told))
  OBVIOUS
<1>6. k \in Nat
  BY <1>1, <1>5, MessagesFinite
<1>7. \A i \in DOMAIN inbox : k + i \in DOMAIN v.sent /\ inbox[i] = <<v.sent[k + i]>>
  BY <1>1, <1>2, <1>5 DEF Down
<1>8. PICK rest : rest = Tail(inbox)
  OBVIOUS
<1>9. /\ Len(rest) + 1 = Len(inbox) /\ rest \in Seq(Seq(Nat)) /\ 1 \in DOMAIN inbox
      /\ Head(inbox) = inbox[1] /\ Len(rest) \in Nat /\ Len(inbox) \in Nat
      /\ \A i \in DOMAIN rest : i + 1 \in DOMAIN inbox /\ rest[i] = inbox[i + 1] /\ i \in Nat
  BY <1>2, <1>8
<1>10. PICK n \in Nat : n = k + 1
  BY <1>6
<1>11. PICK sent : sent = v.sent
  OBVIOUS
<1>12. n \in DOMAIN sent /\ e.data = <<sent[n]>>
  BY <1>4, <1>7, <1>9, <1>10, <1>11
<1>13. PICK next : next = Append(told, e)
  OBVIOUS
<1>14. u2.told = next /\ u2.inbox = rest
  BY <1>1, <1>2, <1>3, <1>8, <1>13
<1>15. AsSent(Append(told, e), sent)
  <2>1. AsSent(told, sent)
    BY <1>1, <1>11 DEF Down
  <2>2. n = Cardinality(Messages(told)) + 1
    BY <1>5, <1>10
  <2>3. told \in Seq(Told) /\ e \in Told
    OBVIOUS
  <2>. QED BY ONLY <1>4, <1>12, <2>1, <2>2, <2>3, AsSentNext
<1>16. Cardinality(Messages(Append(told, e))) = Cardinality(Messages(told)) + 1
  <2>1. told \in Seq(Told) /\ e \in Told
    OBVIOUS
  <2>. QED BY ONLY <1>4, <2>1, MessagesAppended
<1>17. Cardinality(Messages(u2.told)) = n
  BY <1>5, <1>10, <1>13, <1>14, <1>16
<1>18. Taken(u2) = Taken(u)
  <2>1. n + Len(rest) = k + Len(inbox)
    BY <1>6, <1>9, <1>10
  <2>. QED BY <1>1, <1>2, <1>5, <1>14, <1>17, <2>1 DEF Taken
<1>19. \A i \in DOMAIN rest : n + i \in DOMAIN sent /\ rest[i] = <<sent[n + i]>>
  <2>1. \A i \in DOMAIN rest : n + i = k + (i + 1)
    BY <1>6, <1>9, <1>10
  <2>. QED BY <1>7, <1>9, <1>11, <2>1
<1>20. DownRead(u2) = DownRead(u) /\ (Live(u2) <=> Live(u))
  BY <1>18 DEF DownRead, Live
<1>21. \A m \in Nat : DownFrom(v, u, l, m) => DownFrom(v, u2, l, m)
  BY <1>18, <1>20 DEF DownFrom
<1>22. ~ToldClose(u2.told, <<"peer">>)
  <2>1. ~ToldClose(told, <<"peer">>)
    BY <1>1 DEF Down
  <2>2. \A i \in DOMAIN next : IF i \in DOMAIN told THEN next[i] = told[i] ELSE next[i] = e
    BY <1>13
  <2>3. e # ServerEvent("close", <<"peer">>)
    BY <1>4 DEF ServerEvent
  <2>. QED BY <1>14, <2>1, <2>2, <2>3 DEF ToldClose
<1>. QED BY <1>11, <1>13, <1>14, <1>15, <1>17, <1>18, <1>19, <1>20, <1>21, <1>22 DEF Down

\* Told before its end, in any order with its opening but once.
LEMMA TellClientOrder ==
  ASSUME NEW u \in Clients, ClientOrder(u), u.native \notin {"connecting", "gone"},
         NEW e \in Told, e.type \in {"message", "error"}, u.established \/ e.type # "message",
         NEW u2, u2.told = Append(u.told, e), u2.native = u.native, u2.promise = u.promise,
         u2.readyState = u.readyState, u2.established = u.established, u2.code = u.code,
         u.established \/ u2.inbox = u.inbox
  PROVE  ClientOrder(u2)
<1>1. PICK told \in Seq(Told) : told = u.told
  BY ClientFields
<1>2. PICK next : next = Append(told, e)
  OBVIOUS
<1>3. /\ DOMAIN told = 1 .. Len(told) /\ DOMAIN next = 1 .. Len(told) + 1
      /\ next[Len(told) + 1] = e /\ \A i \in 1 .. Len(told) : next[i] = told[i]
  BY <1>2, AppendedEvent
<1>4. \A i \in DOMAIN next : (i \in DOMAIN told /\ next[i] = told[i]) \/ next[i] = e
  BY <1>3
<1>5. CASE u.established
  <2>1. \A i \in DOMAIN told : told[i].type # "close"
    BY <1>1, <1>5 DEF ClientOrder
  <2>2. \A i \in DOMAIN next : next[i].type # "close"
    BY <1>4, <2>1
  <2>3. \A i, j \in DOMAIN next : next[i].type = "open" /\ next[j].type = "open" => i = j
    <3>1. \A i \in DOMAIN next : next[i].type = "open" => i \in DOMAIN told /\ told[i].type = "open"
      BY <1>4
    <3>. QED BY <1>1, <1>5, <3>1 DEF ClientOrder
  <2>4. u2.promise = "resolved" => \A i \in DOMAIN next : next[i].type # "open"
    BY <1>1, <1>4, <1>5 DEF ClientOrder
  <2>. QED BY <1>1, <1>2, <1>5, <2>2, <2>3, <2>4 DEF ClientOrder
<1>6. CASE ~u.established
  <2>1. Messages(Append(told, e)) = Messages(told)
    <3>1. told \in Seq(Told) /\ e \in Told /\ e.type # "message"
      BY <1>6
    <3>. QED BY ONLY <3>1, OthersAppended
  <2>. QED BY <1>1, <1>6, <2>1 DEF ClientOrder
<1>. QED BY <1>5, <1>6

LEMMA CloseToldHolds ==
  ASSUME NEW p, p = "curl", NEW c, Holds(p, c), c.cli.native = "closed", c.cli.inbox = <<>>,
         NEW d, d = TellClient(Cleanup([c EXCEPT !.cli.native = "gone", !.cli.readyState = "closed",
                                                 !.cli.id = FALSE]), "close", <<c.cli.code>>)
  PROVE  Holds(p, d)
<1>1. c \in Conversations /\ c.cli \in Clients /\ c.srv \in Servers
  BY DEF Holds, Kept, Conversations
<1>2. ClientOrder(c.cli) /\ Down(c.srv, c.cli, c.net)
  BY DEF Holds, Kept
<1>3. PICK e : e = ServerEvent("close", <<c.cli.code>>)
  OBVIOUS
<1>4. /\ e \in Told /\ e.type = "close"
      /\ e = ServerEvent("close", <<"peer">>) => c.cli.code = "peer"
  <2>1. c.cli.code \in Codes
    BY <1>1 DEF Clients
  <2>. QED BY <1>3, <2>1 DEF ServerEvent, Told, Data
<1>5. PICK u : u = [c.cli EXCEPT !.native = "gone", !.readyState = "closed", !.id = FALSE]
  OBVIOUS
<1>6. /\ u \in Clients /\ u.told = c.cli.told /\ u.inbox = c.cli.inbox /\ u.code = c.cli.code
      /\ u.native = "gone" /\ u.readyState = "closed" /\ u.partial = c.cli.partial
      /\ u.sent = c.cli.sent /\ u.established = c.cli.established /\ u.promise = c.cli.promise
  BY <1>1, <1>5 DEF Clients
<1>7. Down(c.srv, u, c.net)
  BY <1>2, <1>6, DownView DEF Live
<1>8. PICK u2 : u2 = [u EXCEPT !.told = Append(@, e)]
  OBVIOUS
<1>9. /\ u2 \in Clients /\ u2.told = Append(c.cli.told, e) /\ u2.inbox = u.inbox /\ u2.code = u.code
      /\ u2.native = "gone" /\ u2.readyState = "closed" /\ u2.partial = u.partial
      /\ u2.sent = u.sent /\ u2.established = u.established /\ u2.promise = u.promise
  <2>1. Append(u.told, e) \in Seq(Told)
    BY <1>4, <1>6, ClientFields
  <2>. QED BY <1>6, <1>8, <2>1 DEF Clients
<1>10. Down(c.srv, u2, c.net)
  <2>1. e = ServerEvent("close", <<"peer">>) => u.code = "peer" /\ u.inbox = <<>> /\ u.native = "gone"
    BY <1>4, <1>6
  <2>2. /\ u2.told = Append(u.told, e) /\ u2.inbox = u.inbox /\ u2.code = u.code
        /\ u2.native = u.native /\ u2.partial = u.partial
    BY <1>6, <1>9
  <2>3. u \in Clients /\ e \in Told /\ e.type # "message"
    BY <1>4, <1>6
  <2>. QED BY ONLY <1>7, <2>1, <2>2, <2>3, TellDown
<1>11. ClientOrder(u2)
  <2>1. PICK told \in Seq(Told) : told = c.cli.told
    BY <1>1, ClientFields
  <2>2. PICK next : next = Append(told, e)
    OBVIOUS
  <2>3. /\ DOMAIN told = 1 .. Len(told) /\ DOMAIN next = 1 .. Len(told) + 1 /\ Len(next) = Len(told) + 1
        /\ next[Len(told) + 1] = e /\ \A i \in 1 .. Len(told) : next[i] = told[i]
    BY <1>4, <2>2, AppendedEvent
  <2>4. \A i \in DOMAIN next : \/ i \in DOMAIN told /\ next[i] = told[i]
                               \/ next[i] = e /\ i = Len(next)
    BY <2>3
  <2>5. CASE u2.established
    <3>1. \A i \in DOMAIN told : told[i].type # "close"
      BY <1>2, <1>6, <1>9, <2>1, <2>5 DEF ClientOrder
    <3>2. \A i \in DOMAIN next : next[i].type = "close" => i = Len(next)
      BY <2>4, <3>1
    <3>3. \A i \in DOMAIN next : next[i].type = "open" => i \in DOMAIN told /\ told[i].type = "open"
      BY <1>4, <2>4
    <3>4. /\ \A i, j \in DOMAIN told : told[i].type = "open" /\ told[j].type = "open" => i = j
          /\ u2.promise = "resolved" => \A i \in DOMAIN told : told[i].type # "open"
          /\ u2.promise \in {"resolved", "done"}
      BY <1>2, <1>6, <1>9, <2>1, <2>5 DEF ClientOrder
    <3>5. u2.told = next
      BY <1>9, <2>1, <2>2
    <3>. QED BY <1>9, <2>5, <3>2, <3>3, <3>4, <3>5 DEF ClientOrder
  <2>6. CASE ~u2.established
    <3>1. Messages(Append(told, e)) = Messages(told)
      <4>1. told \in Seq(Told) /\ e \in Told /\ e.type # "message"
        BY <1>4
      <4>. QED BY ONLY <4>1, OthersAppended
    <3>2. u2.told = Append(told, e)
      BY <1>9, <2>1
    <3>3. Messages(told) = {} /\ u2.inbox = <<>> /\ u2.code # "peer"
      BY <1>2, <1>6, <1>9, <2>1, <2>6 DEF ClientOrder
    <3>. QED BY <1>9, <2>6, <3>1, <3>2, <3>3 DEF ClientOrder
  <2>. QED BY <2>5, <2>6
<1>12. PICK a : a = [c EXCEPT !.cli = u2]
  OBVIOUS
<1>13. Holds(p, a)
  BY <1>6, <1>9, <1>10, <1>11, <1>12, CliHolds
<1>14. d = Cleanup(a)
  <2>1. [c EXCEPT !.cli.native = "gone", !.cli.readyState = "closed", !.cli.id = FALSE]
          = [c EXCEPT !.cli = u]
    BY <1>1, <1>5 DEF Conversations
  <2>2. PICK b : b = [c EXCEPT !.cli = u]
    OBVIOUS
  <2>3. b \in Conversations /\ b.net = c.net /\ b.cli = u /\ a.net = c.net
    BY <1>1, <1>6, <1>9, <1>12, <2>2, CliOf
  <2>4. d = [Cleanup(b) EXCEPT !.cli.told = Append(@, e)]
    BY <1>3, <2>1, <2>2 DEF TellClient
  <2>5. CASE c.net.client.closed
    <3>1. Cleanup(b) = b /\ Cleanup(a) = a
      BY <2>3, <2>5 DEF Cleanup
    <3>2. [b EXCEPT !.cli.told = Append(@, e)] = a
      BY <1>1, <1>8, <1>12, <2>2 DEF Conversations
    <3>. QED BY <2>4, <3>1, <3>2
  <2>6. CASE ~c.net.client.closed
    <3>1. PICK m : m = CloseHandle(c.net, "client")
      OBVIOUS
    <3>2. Cleanup(b) = [b EXCEPT !.net = m] /\ Cleanup(a) = [a EXCEPT !.net = m]
      BY <2>3, <2>6, <3>1 DEF Cleanup
    <3>3. [[b EXCEPT !.net = m] EXCEPT !.cli.told = Append(@, e)] = [a EXCEPT !.net = m]
      BY <1>1, <1>8, <1>12, <2>2 DEF Conversations
    <3>. QED BY <2>4, <3>2, <3>3
  <2>. QED BY <2>5, <2>6
<1>15. a.cli.native = "gone"
  BY <1>1, <1>9, <1>12 DEF Conversations
<1>. QED BY <1>13, <1>14, <1>15, CleanupHolds

LEMMA MessageTakenHolds ==
  ASSUME NEW p, p = "curl", NEW c, Holds(p, c), c.cli.native # "gone", c.cli.inbox # <<>>,
         NEW d, d = TellClient([c EXCEPT !.cli.inbox = Tail(@)], "message", Head(c.cli.inbox))
  PROVE  Holds(p, d)
<1>1. c \in Conversations /\ c.cli \in Clients /\ c.srv \in Servers
  BY DEF Holds, Kept, Conversations
<1>2. ClientOrder(c.cli) /\ Down(c.srv, c.cli, c.net)
  BY DEF Holds, Kept
<1>3. c.cli.native # "connecting" /\ c.cli.established
  BY <1>1, <1>2 DEF ClientOrder, Clients
<1>4. PICK e : e = ServerEvent("message", Head(c.cli.inbox))
  OBVIOUS
<1>5. PICK inbox \in Seq(Seq(Nat)) : inbox = c.cli.inbox
  BY <1>1, ClientFields
<1>6. Head(inbox) \in Seq(Nat) /\ Tail(inbox) \in Seq(Seq(Nat))
  BY <1>5
<1>7. e \in Told /\ e.type = "message"
  BY <1>4, <1>5, <1>6 DEF ServerEvent, Told, Data
<1>8. PICK u : u = [c.cli EXCEPT !.inbox = Tail(@), !.told = Append(@, e)]
  OBVIOUS
<1>9. /\ u \in Clients /\ u.told = Append(c.cli.told, e) /\ u.inbox = Tail(c.cli.inbox)
      /\ u.code = c.cli.code /\ u.native = c.cli.native /\ u.partial = c.cli.partial
      /\ u.sent = c.cli.sent /\ u.established = c.cli.established /\ u.promise = c.cli.promise
      /\ u.readyState = c.cli.readyState
  <2>1. Append(c.cli.told, e) \in Seq(Told)
    BY <1>1, <1>7, ClientFields
  <2>. QED BY <1>1, <1>5, <1>6, <1>8, <2>1 DEF Clients
<1>10. ClientOrder(u)
  <2>1. c.cli.native \notin {"connecting", "gone"} /\ e.type \in {"message", "error"}
    BY <1>3, <1>7
  <2>. QED BY <1>1, <1>2, <1>3, <1>7, <1>9, <2>1, TellClientOrder
<1>11. Down(c.srv, u, c.net)
  <2>1. /\ u.told = Append(c.cli.told, ServerEvent("message", Head(c.cli.inbox)))
        /\ ServerEvent("message", Head(c.cli.inbox)) \in Told
    BY <1>4, <1>7, <1>9
  <2>2. c.cli.inbox # <<>> /\ c.cli.native # "gone" /\ c.cli \in Clients
    BY <1>1
  <2>3. u.inbox = Tail(c.cli.inbox) /\ u.code = c.cli.code /\ u.native = c.cli.native
        /\ u.partial = c.cli.partial /\ Down(c.srv, c.cli, c.net)
    BY <1>2, <1>9
  <2>. QED BY ONLY <2>1, <2>2, <2>3, TakeDown
<1>12. d = [c EXCEPT !.cli = u]
  BY <1>1, <1>4, <1>8 DEF TellClient, Conversations, Clients
<1>. QED BY <1>9, <1>10, <1>11, <1>12, CliHolds

LEMMA ErrorTakenHolds ==
  ASSUME NEW p, p = "curl", NEW c, Holds(p, c), c.cli.native # "gone", c.cli.error,
         NEW d, d = TellClient([c EXCEPT !.cli.error = FALSE], "error", <<>>)
  PROVE  Holds(p, d)
<1>1. c \in Conversations /\ c.cli \in Clients /\ c.srv \in Servers
  BY DEF Holds, Kept, Conversations
<1>2. ClientOrder(c.cli) /\ Down(c.srv, c.cli, c.net)
  BY DEF Holds, Kept
<1>3. c.cli.native # "connecting"
  BY <1>1, <1>2 DEF ClientOrder, Clients
<1>4. PICK e : e = ServerEvent("error", <<>>)
  OBVIOUS
<1>5. e \in Told /\ e.type = "error" /\ e # ServerEvent("close", <<"peer">>)
  BY <1>4 DEF ServerEvent, Told, Data
<1>6. PICK u : u = [c.cli EXCEPT !.error = FALSE, !.told = Append(@, e)]
  OBVIOUS
<1>7. /\ u \in Clients /\ u.told = Append(c.cli.told, e) /\ u.inbox = c.cli.inbox
      /\ u.code = c.cli.code /\ u.native = c.cli.native /\ u.partial = c.cli.partial
      /\ u.sent = c.cli.sent /\ u.established = c.cli.established /\ u.promise = c.cli.promise
      /\ u.readyState = c.cli.readyState
  <2>1. Append(c.cli.told, e) \in Seq(Told)
    BY <1>1, <1>5, ClientFields
  <2>. QED BY <1>1, <1>6, <2>1 DEF Clients
<1>8. ClientOrder(u)
  <2>1. c.cli.native \notin {"connecting", "gone"} /\ e.type \in {"message", "error"} /\ e.type # "message"
    BY <1>3, <1>5
  <2>. QED BY <1>1, <1>2, <1>5, <1>7, <2>1, TellClientOrder
<1>9. Down(c.srv, u, c.net)
  BY <1>1, <1>2, <1>5, <1>7, TellDown
<1>10. d = [c EXCEPT !.cli = u]
  BY <1>1, <1>4, <1>6 DEF TellClient, Conversations, Clients
<1>. QED BY <1>7, <1>8, <1>9, <1>10, CliHolds

LEMMA WsRecvHolds ==
  ASSUME NEW p, p = "curl", NEW c, Holds(p, c), HasEvent(c), NEW d, d = WsRecv(c)
  PROVE  Holds(p, d)
<1>1. c.cli.native # "gone"
  BY DEF HasEvent
<1>2. CASE c.cli.inbox # <<>>
  BY <1>1, <1>2, MessageTakenHolds DEF WsRecv
<1>3. CASE c.cli.inbox = <<>> /\ c.cli.error
  BY <1>1, <1>3, ErrorTakenHolds DEF WsRecv
<1>4. CASE c.cli.inbox = <<>> /\ ~c.cli.error
  <2>1. c.cli.native = "closed"
    BY <1>4 DEF HasEvent
  <2>. QED BY <1>4, <2>1, CloseToldHolds DEF WsRecv
<1>. QED BY <1>2, <1>3, <1>4

\* The next unit of the wire taken.
LEMMA TailOf ==
  ASSUME NEW U, NEW units \in Seq(U), units # <<>>
  PROVE  /\ Tail(units) \in Seq(U) /\ Len(Tail(units)) + 1 = Len(units) /\ Len(units) \in Nat
         /\ Head(units) = units[1] /\ 1 \in DOMAIN units
         /\ Len(Tail(units)) \in Nat
         /\ \A i \in DOMAIN Tail(units) : i \in Nat /\ i + 1 \in DOMAIN units /\ Tail(units)[i] = units[i + 1]
OBVIOUS

LEMMA CloseTail ==
  ASSUME NEW v, NEW wire \in Seq(DownUnits), wire # <<>>, OneCloseFrame(v, wire)
  PROVE  OneCloseFrame(v, Tail(wire))
<1>1. PICK rest \in Seq(DownUnits) : rest = Tail(wire)
  BY TailOf
<1>2. /\ Len(rest) + 1 = Len(wire) /\ Len(rest) \in Nat
      /\ \A i \in DOMAIN rest : i \in Nat /\ i + 1 \in DOMAIN wire /\ rest[i] = wire[i + 1]
  BY <1>1, TailOf
<1>3. ASSUME NEW i \in DOMAIN rest, rest[i].frame.op = "close"
      PROVE  v.closeSent /\ i >= Len(rest) - 1
  <2>1. i \in Nat /\ i + 1 \in DOMAIN wire /\ wire[i + 1].frame.op = "close"
    BY <1>2, <1>3
  <2>2. v.closeSent /\ i + 1 >= Len(wire) - 1
    BY <2>1 DEF OneCloseFrame
  <2>. QED BY <1>2, <2>1, <2>2
<1>. QED BY <1>1, <1>3 DEF OneCloseFrame

LEMMA NextUnit ==
  ASSUME NEW v \in Servers, NEW u \in Clients, NEW l \in Links, l.client.in # <<>>,
         u.native \in {"open", "closing"}, NEW n \in Nat, DownFrom(v, u, l, n)
  PROVE  /\ DownRead(u) = 2 + 2 * Taken(u) + Len(u.partial)
         /\ Head(l.client.in) = UnitOf("101", v.sent, n + 1)
         /\ n + Len(l.client.in) >= 2 + 2 * Len(v.sent) /\ v.ws
<1>1. l.client.in \in Seq(DownUnits)
  BY DEF Links, Endpoints
<1>2. Head(l.client.in) = l.client.in[1] /\ 1 \in DOMAIN l.client.in
  BY <1>1, TailOf
<1>. QED BY <1>2 DEF DownFrom, Follows, DownRead

LEMMA UnitTaken ==
  ASSUME NEW v \in Servers, NEW u \in Clients, NEW l \in Links, l.client.in # <<>>,
         u.native \in {"open", "closing"}, NEW n \in Nat, DownFrom(v, u, l, n),
         NEW u2, u2.native \in {"open", "closing"},
         \/ DownRead(u2) = n + 1
         \/ /\ n + 1 = 2 + 2 * Len(v.sent) + 1 /\ v.closeSent /\ Taken(u2) = Len(v.sent)
            /\ u2.partial = <<>>,
         u2.partial # <<>> => Taken(u2) + 1 \in DOMAIN v.sent /\ u2.partial = <<v.sent[Taken(u2) + 1]>>,
         NEW l2, l2.client.in = Tail(l.client.in), Writable(l2, "server") => Writable(l, "server")
  PROVE  DownFrom(v, u2, l2, n + 1)
<1>1. PICK wire \in Seq(DownUnits) : wire = l.client.in
  BY DEF Links, Endpoints
<1>2. PICK rest : rest = Tail(wire)
  OBVIOUS
<1>3. /\ Len(rest) + 1 = Len(wire) /\ Len(rest) \in Nat /\ Len(wire) \in Nat
      /\ \A i \in DOMAIN rest : i \in Nat /\ i + 1 \in DOMAIN wire /\ rest[i] = wire[i + 1]
  <2>1. wire \in Seq(DownUnits) /\ wire # <<>>
    BY <1>1
  <2>. QED BY <1>2, <2>1, TailOf
<1>4. Follows(rest, "101", v.sent, n + 1)
  <2>1. ASSUME NEW j \in DOMAIN rest PROVE rest[j] = UnitOf("101", v.sent, n + 1 + j)
    <3>1. j \in Nat /\ j + 1 \in DOMAIN wire /\ rest[j] = wire[j + 1]
      BY <1>3, <2>1
    <3>2. n + (j + 1) = n + 1 + j
      BY <3>1
    <3>3. wire[j + 1] = UnitOf("101", v.sent, n + (j + 1))
      BY <1>1, <3>1 DEF DownFrom, Follows
    <3>. QED BY <3>1, <3>2, <3>3
  <2>. QED BY <2>1 DEF Follows
<1>5. n + 1 + Len(rest) = n + Len(wire)
  BY <1>3
<1>6. /\ n + Len(wire) <= 2 + 2 * Len(v.sent) + 2
      /\ ~v.closeSent => n + Len(wire) <= 2 + 2 * Len(v.sent)
      /\ n + Len(wire) >= 2 + 2 * Len(v.sent) /\ v.ws
  BY <1>1, NextUnit DEF DownFrom
<1>7. l2.client.in = rest
  BY <1>1, <1>2
<1>. QED BY <1>4, <1>5, <1>6, <1>7 DEF DownFrom

\* Which unit the n-th is, to a WebSocket that has taken those before it.
NextIs(v, u, n, unit) ==
  \/ /\ unit = [frame |-> Frame("close", 0, TRUE), half |-> 2]
     /\ Taken(u) = Len(v.sent) /\ v.closeSent
  \/ /\ unit = [frame |-> Frame("close", 0, TRUE), half |-> 1]
     /\ Taken(u) = Len(v.sent) /\ u.partial = <<>> /\ n + 1 = 2 + 2 * Len(v.sent) + 1
  \/ /\ Taken(u) + 1 \in DOMAIN v.sent /\ u.partial = <<>> /\ n + 1 = 2 + 2 * Taken(u) + 1
     /\ unit = [frame |-> Frame("data", v.sent[Taken(u) + 1], TRUE), half |-> 1]
  \/ /\ Taken(u) + 1 \in DOMAIN v.sent /\ u.partial = <<v.sent[Taken(u) + 1]>>
     /\ n + 1 = 2 + 2 * Taken(u) + 2
     /\ unit = [frame |-> Frame("data", v.sent[Taken(u) + 1], TRUE), half |-> 2]

LEMMA WhichUnit ==
  ASSUME NEW v \in Servers, NEW u \in Clients, NEW l \in Links, l.client.in # <<>>,
         u.native \in {"open", "closing"}, Taken(u) <= Len(v.sent),
         NEW n \in Nat, DownFrom(v, u, l, n), NEW unit, unit = Head(l.client.in)
  PROVE  NextIs(v, u, n, unit)
<1>1. PICK sent \in Seq(1 .. MaxDown) : sent = v.sent
  BY ServerFields
<1>2. PICK t \in Nat : t = Taken(u)
  BY Counts
<1>3. t <= Len(sent) /\ Len(sent) \in Nat /\ DOMAIN sent = 1 .. Len(sent)
  BY <1>1, <1>2
<1>4. PICK first : first = "101"
  OBVIOUS
<1>5. unit = UnitOf(first, sent, n + 1) /\ DownRead(u) = 2 + 2 * t + Len(u.partial)
  BY <1>1, <1>2, <1>4, NextUnit
<1>6. CASE n = 2 + 2 * Len(sent) + 1 /\ t = Len(sent) /\ v.closeSent
  <2>1. PICK k \in Nat : k = Len(sent) + 1
    BY <1>3
  <2>2. n + 1 = 2 * k + 2 /\ k > Len(sent)
    BY <1>3, <1>6, <2>1
  <2>3. UnitOf(first, sent, 2 * k + 2) = [frame |-> Frame("close", 0, TRUE), half |-> 2]
    <3>1. Len(sent) \in Nat /\ k \in Nat
      BY <1>3
    <3>. QED BY ONLY <2>2, <3>1, CloseUnits
  <2>. QED BY <1>1, <1>2, <1>5, <1>6, <2>2, <2>3 DEF NextIs
<1>7. CASE n = DownRead(u) /\ u.partial = <<>>
  <2>1. n = 2 + 2 * t
    <3>1. Len(<<>>) = 0
      OBVIOUS
    <3>. QED BY <1>5, <1>7, <3>1
  <2>2. PICK k \in Nat : k = t + 1
    OBVIOUS
  <2>3. n + 1 = 2 * k + 1 /\ n + 1 = 2 + 2 * t + 1
    BY <2>1, <2>2
  <2>4. CASE t = Len(sent)
    <3>1. Len(sent) \in Nat /\ k \in Nat /\ k > Len(sent)
      BY <1>3, <2>2, <2>4
    <3>2. UnitOf(first, sent, 2 * k + 1) = [frame |-> Frame("close", 0, TRUE), half |-> 1]
      BY ONLY <3>1, CloseUnits
    <3>. QED BY <1>1, <1>2, <1>5, <1>7, <2>3, <2>4, <3>2 DEF NextIs
  <2>5. CASE t # Len(sent)
    <3>1. Len(sent) \in Nat /\ k \in 1 .. Len(sent)
      <4>1. t \in Nat /\ k = t + 1 /\ t <= Len(sent) /\ Len(sent) \in Nat /\ t # Len(sent)
        BY <1>3, <2>2, <2>5
      <4>. QED BY ONLY <4>1
    <3>2. UnitOf(first, sent, 2 * k + 1) = [frame |-> Frame("data", sent[k], TRUE), half |-> 1]
      BY ONLY <3>1, DataUnits
    <3>. QED BY <1>1, <1>2, <1>3, <1>5, <1>7, <2>2, <2>3, <3>1, <3>2 DEF NextIs
  <2>. QED BY <2>4, <2>5
<1>8. CASE n = DownRead(u) /\ u.partial # <<>>
  <2>1. t + 1 \in DOMAIN sent /\ u.partial = <<sent[t + 1]>>
    BY <1>1, <1>2, <1>8 DEF DownFrom
  <2>2. n = 2 + 2 * t + 1
    <3>1. Len(<<sent[t + 1]>>) = 1
      OBVIOUS
    <3>. QED BY <1>5, <1>8, <2>1, <3>1
  <2>3. PICK k \in Nat : k = t + 1
    OBVIOUS
  <2>4. n + 1 = 2 * k + 2 /\ n + 1 = 2 + 2 * t + 2
    BY <2>2, <2>3
  <2>5. Len(sent) \in Nat /\ k \in 1 .. Len(sent)
    BY <1>3, <2>1, <2>3
  <2>6. UnitOf(first, sent, 2 * k + 2) = [frame |-> Frame("data", sent[k], TRUE), half |-> 2]
    BY ONLY <2>5, DataUnits
  <2>. QED BY <1>1, <1>2, <1>5, <2>1, <2>3, <2>4, <2>6 DEF NextIs
<1>9. n = DownRead(u) \/ (n = 2 + 2 * Len(sent) + 1 /\ t = Len(sent) /\ v.closeSent)
  BY <1>1, <1>2 DEF DownFrom
<1>. QED BY <1>6, <1>7, <1>8, <1>9

\* What the WebSocket's end is after a unit.
Received(u, u2) ==
  /\ u2 \in Clients /\ u2.told = u.told /\ u2.sent = u.sent /\ u2.promise = u.promise
  /\ u2.readyState = u.readyState /\ u2.established = u.established
  /\ u2.native \in {u.native, "closed"}
Receives(u, unit, u2) ==
  \A b \in Conversations : b.cli = u => RecvUnit(b, unit) = [b EXCEPT !.cli = u2]

LEMMA ReceivedHolds ==
  ASSUME NEW p, p = "curl", NEW c, Holds(p, c), c.cli.native \in {"open", "closing"},
         c.net.client.in # <<>>, NEW u, Received(c.cli, u),
         NEW m, m = [c.net EXCEPT !.client.in = Tail(@)], Down(c.srv, u, m),
         NEW d, d = [[c EXCEPT !.net = m] EXCEPT !.cli = u]
  PROVE  Holds(p, d)
<1>1. c \in Conversations /\ c.net \in Links /\ c.cli \in Clients /\ c.net.client.in \in Seq(DownUnits)
  BY DEF Holds, Kept, Conversations, Links, Endpoints
<1>2. /\ m \in Links /\ m.client.in = Tail(c.net.client.in) /\ m.client.closed = c.net.client.closed
      /\ m.server = c.net.server
  <2>1. Tail(c.net.client.in) \in Seq(DownUnits)
    BY <1>1, TailOf
  <2>. QED BY <1>1, <2>1 DEF Links, Endpoints
<1>3. d \in Conversations /\ d.net = m /\ d.srv = c.srv /\ d.cli = u
  BY <1>1, <1>2 DEF Received, Conversations
<1>4. Kept(p, c) /\ Up(c.srv, c.cli, c.net.server) /\ ClientOrder(c.cli)
      /\ OneCloseFrame(c.srv, c.net.client.in)
  BY DEF Holds, Kept
<1>6. OneCloseFrame(c.srv, m.client.in)
  BY <1>1, <1>2, <1>4, CloseTail
<1>7. ~c.net.client.closed
  BY <1>4 DEF Kept
<1>8. ClientOrder(u)
  <2>1. c.cli.established
    BY <1>4 DEF ClientOrder
  <2>2. \A i \in DOMAIN c.cli.told : c.cli.told[i].type # "close"
    BY <1>4, <2>1 DEF ClientOrder
  <2>3. u.native # "connecting" /\ u.told = c.cli.told /\ u.established = c.cli.established
        /\ u.promise = c.cli.promise
    BY DEF Received
  <2>. QED BY <1>4, <2>1, <2>2, <2>3 DEF ClientOrder
<1>9. Kept(p, d)
  BY <1>2, <1>3, <1>4, <1>6, <1>7, <1>8, ClientMoves
<1>10. Up(c.srv, u, m.server)
  <2>1. u.native \in {"connecting", "open"} => c.cli.native \in {"connecting", "open"}
    BY DEF Received
  <2>. QED BY <1>2, <1>4, <2>1, UpClient DEF Received
<1>. QED BY <1>3, <1>9, <1>10 DEF Holds

LEMMA RecvDown ==
  ASSUME NEW v \in Servers, NEW u \in Clients, NEW l \in Links, Down(v, u, l),
         OneCloseFrame(v, l.client.in), l.client.in # <<>>, u.native \in {"open", "closing"},
         NEW m, m.client.in = Tail(l.client.in), Writable(m, "server") => Writable(l, "server"),
         NEW unit, unit = Head(l.client.in)
  PROVE  \E u2 : Received(u, u2) /\ Down(v, u2, m) /\ Receives(u, unit, u2)
<1>1. PICK n \in Nat : DownFrom(v, u, l, n)
  BY DEF Down, Live
<1>2. PICK t \in Nat : t = Taken(u)
  BY Counts
<1>3. PICK sent \in Seq(1 .. MaxDown) : sent = v.sent
  BY ServerFields
<1>4. t <= Len(sent) /\ Len(sent) \in Nat /\ DOMAIN sent = 1 .. Len(sent)
  BY <1>2, <1>3 DEF Down
<1>5. \/ /\ unit = [frame |-> Frame("close", 0, TRUE), half |-> 2]
         /\ t = Len(sent) /\ v.closeSent
      \/ /\ unit = [frame |-> Frame("close", 0, TRUE), half |-> 1]
         /\ t = Len(sent) /\ u.partial = <<>> /\ n + 1 = 2 + 2 * Len(sent) + 1
      \/ /\ t + 1 \in DOMAIN sent /\ u.partial = <<>> /\ n + 1 = 2 + 2 * t + 1
         /\ unit = [frame |-> Frame("data", sent[t + 1], TRUE), half |-> 1]
      \/ /\ t + 1 \in DOMAIN sent /\ u.partial = <<sent[t + 1]>> /\ n + 1 = 2 + 2 * t + 2
         /\ unit = [frame |-> Frame("data", sent[t + 1], TRUE), half |-> 2]
  <2>1. Taken(u) <= Len(v.sent)
    BY <1>2, <1>3, <1>4
  <2>2. v \in Servers /\ u \in Clients /\ l \in Links /\ n \in Nat /\ unit = Head(l.client.in)
    OBVIOUS
  <2>3. l.client.in # <<>> /\ u.native \in {"open", "closing"}
    OBVIOUS
  <2>4. NextIs(v, u, n, unit)
    BY ONLY <1>1, <2>1, <2>2, <2>3, WhichUnit
  <2>. QED BY ONLY <1>2, <1>3, <2>4 DEF NextIs
<1>6. u.code # "peer" /\ ~ToldClose(u.told, <<"peer">>)
  BY DEF Down, Live
<1>7. CASE /\ unit = [frame |-> Frame("close", 0, TRUE), half |-> 2]
           /\ t = Len(sent) /\ v.closeSent
  <2>1. PICK u2 : u2 = [u EXCEPT !.native = "closed", !.code = "peer"]
    OBVIOUS
  <2>2. /\ Received(u, u2) /\ u2.told = u.told /\ u2.native = "closed" /\ u2.inbox = u.inbox
        /\ u2.code = "peer"
    BY <2>1 DEF Clients, Codes, Received
  <2>3. Taken(u2) = Taken(u) /\ ~Live(u2)
    BY <2>2 DEF Taken, Live
  <2>4. Down(v, u2, m)
    BY <1>2, <1>3, <1>6, <1>7, <2>2, <2>3 DEF Down
  <2>5. unit.frame.op = "close" /\ unit.half = 2
    BY <1>7 DEF Frame
  <2>6. Receives(u, unit, u2)
    BY <2>1, <2>5 DEF Receives, RecvUnit, Conversations
  <2>. QED BY <2>2, <2>4, <2>6
<1>8. CASE /\ unit = [frame |-> Frame("close", 0, TRUE), half |-> 1]
           /\ t = Len(sent) /\ u.partial = <<>> /\ n + 1 = 2 + 2 * Len(sent) + 1
  <2>1. unit.frame.op = "close" /\ unit.half = 1
    BY <1>8 DEF Frame
  <2>2. v.closeSent
    <3>1. l.client.in \in Seq(DownUnits)
      BY DEF Links, Endpoints
    <3>. QED BY <2>1, <3>1, TailOf DEF OneCloseFrame
  <2>3. DownFrom(v, u, m, n + 1)
    <3>1. n + 1 = 2 + 2 * Len(v.sent) + 1 /\ Taken(u) = Len(v.sent)
      BY <1>2, <1>3, <1>8
    <3>. QED BY <1>1, <1>8, <2>2, <3>1, UnitTaken
  <2>4. Down(v, u, m)
    <3>1. n + 1 \in Nat
      OBVIOUS
    <3>. QED BY <2>3, <3>1 DEF Down
  <2>5. Receives(u, unit, u)
    BY <2>1 DEF Receives, RecvUnit, Conversations
  <2>. QED BY <2>4, <2>5 DEF Received
<1>9. CASE /\ t + 1 \in DOMAIN sent /\ u.partial = <<>> /\ n + 1 = 2 + 2 * t + 1
           /\ unit = [frame |-> Frame("data", sent[t + 1], TRUE), half |-> 1]
  <2>1. PICK i : i = t + 1
    OBVIOUS
  <2>2. PICK piece \in 1 .. MaxDown : piece = sent[i]
    <3>1. i \in DOMAIN sent /\ sent \in Seq(1 .. MaxDown)
      BY <1>9, <2>1
    <3>2. sent[i] \in 1 .. MaxDown
      BY ONLY <1>4, <3>1, ElementOfSeq
    <3>. QED BY <3>2
  <2>3. PICK u2 : u2 = [u EXCEPT !.partial = <<piece>>]
    OBVIOUS
  <2>4. /\ Received(u, u2) /\ u2.told = u.told /\ u2.native = u.native /\ u2.inbox = u.inbox
        /\ u2.code = u.code /\ u2.partial = <<piece>>
    <3>1. <<piece>> \in Seq(Nat)
      <4>1. piece \in Nat
        OBVIOUS
      <4>. QED BY <4>1
    <3>. QED BY <2>3, <3>1 DEF Clients, Received
  <2>5. Taken(u2) = t
    BY <1>2, <2>4 DEF Taken
  <2>6. DownRead(u2) = n + 1
    <3>1. Len(<<piece>>) = 1
      OBVIOUS
    <3>. QED BY <1>9, <2>4, <2>5, <3>1 DEF DownRead
  <2>7. DownFrom(v, u2, m, n + 1)
    <3>1. Taken(u2) + 1 \in DOMAIN v.sent /\ u2.partial = <<v.sent[Taken(u2) + 1]>>
      BY <1>3, <1>9, <2>1, <2>2, <2>4, <2>5
    <3>2. u2.native \in {"open", "closing"}
      BY <2>4
    <3>. QED BY <1>1, <2>6, <3>1, <3>2, UnitTaken
  <2>8. Down(v, u2, m)
    <3>1. n + 1 \in Nat /\ Taken(u2) <= Len(v.sent)
      BY <1>3, <1>4, <2>5
    <3>. QED BY <1>6, <2>4, <2>7, <3>1 DEF Down
  <2>9. unit.frame.op = "data" /\ unit.half = 1 /\ unit.frame.piece = piece
    BY <1>9, <2>1, <2>2 DEF Frame
  <2>10. Receives(u, unit, u2)
    <3>1. \A b : RecvUnit(b, unit) = [b EXCEPT !.cli.partial = <<piece>>]
      BY ONLY <2>9 DEF RecvUnit
    <3>. QED BY <2>3, <3>1 DEF Receives, Conversations
  <2>. QED BY <2>4, <2>8, <2>10
<1>10. CASE /\ t + 1 \in DOMAIN sent /\ u.partial = <<sent[t + 1]>> /\ n + 1 = 2 + 2 * t + 2
            /\ unit = [frame |-> Frame("data", sent[t + 1], TRUE), half |-> 2]
  <2>1. PICK part \in Seq(Nat) : part = u.partial
    BY ClientFields
  <2>2. PICK inbox \in Seq(Seq(Nat)) : inbox = u.inbox
    BY ClientFields
  <2>3. PICK more : more = Append(inbox, part)
    OBVIOUS
  <2>4. /\ more \in Seq(Seq(Nat)) /\ Len(more) = Len(inbox) + 1 /\ Len(inbox) \in Nat
        /\ \A i \in DOMAIN more : \/ i \in DOMAIN inbox /\ more[i] = inbox[i]
                                  \/ i = Len(inbox) + 1 /\ more[i] = part
    BY <2>3
  <2>5. PICK u2 : u2 = [u EXCEPT !.inbox = more, !.partial = <<>>]
    OBVIOUS
  <2>6. /\ Received(u, u2) /\ u2.told = u.told /\ u2.native = u.native /\ u2.inbox = more
        /\ u2.code = u.code /\ u2.partial = <<>>
    <3>1. <<>> \in Seq(Nat)
      OBVIOUS
    <3>. QED BY <2>4, <2>5, <3>1 DEF Clients, Received
  <2>7. PICK k \in Nat : k = Cardinality(Messages(u.told))
    BY Counts
  <2>8. t = k + Len(inbox) /\ Taken(u2) = k + Len(more)
    BY <1>2, <2>2, <2>6, <2>7 DEF Taken
  <2>9. Taken(u2) = t + 1
    BY <2>4, <2>8
  <2>10. DownRead(u2) = n + 1
    <3>1. Len(<<>>) = 0
      OBVIOUS
    <3>2. DownRead(u2) = 2 + 2 * (t + 1) + 0
      BY <2>6, <2>9, <3>1 DEF DownRead
    <3>3. n + 1 = 2 + 2 * t + 2
      BY <1>10
    <3>. QED BY <3>2, <3>3
  <2>11. DownFrom(v, u2, m, n + 1)
    <3>1. u2.native \in {"open", "closing"} /\ u2.partial = <<>>
      BY <2>6
    <3>. QED BY <1>1, <2>10, <3>1, UnitTaken
  <2>12. \A i \in DOMAIN u2.inbox : k + i \in DOMAIN v.sent /\ u2.inbox[i] = <<v.sent[k + i]>>
    <3>1. \A i \in DOMAIN inbox : k + i \in DOMAIN sent /\ inbox[i] = <<sent[k + i]>>
      BY <1>3, <2>2, <2>7 DEF Down
    <3>2. k + (Len(inbox) + 1) = t + 1
      BY <2>4, <2>8
    <3>. QED BY <1>3, <1>10, <2>1, <2>4, <2>6, <3>1, <3>2
  <2>13. Down(v, u2, m)
    <3>1. n + 1 \in Nat /\ Taken(u2) <= Len(v.sent)
      BY <1>3, <1>4, <1>10, <2>9
    <3>. QED BY <1>6, <2>6, <2>7, <2>11, <2>12, <3>1 DEF Down
  <2>14. unit.frame.op = "data" /\ unit.half = 2
    BY <1>10 DEF Frame
  <2>15. Receives(u, unit, u2)
    <3>1. \A b : RecvUnit(b, unit)
                   = [b EXCEPT !.cli.inbox = Append(@, b.cli.partial), !.cli.partial = <<>>]
      BY ONLY <2>14 DEF RecvUnit
    <3>2. Append(u.inbox, u.partial) = more
      BY <2>1, <2>2, <2>3
    <3>3. ASSUME NEW b \in Conversations, b.cli = u
          PROVE  RecvUnit(b, unit) = [b EXCEPT !.cli = u2]
      <4>1. RecvUnit(b, unit)
              = [b EXCEPT !.cli = [b.cli EXCEPT !.inbox = Append(@, b.cli.partial), !.partial = <<>>]]
        BY <3>1, <3>3 DEF Conversations
      <4>2. [b.cli EXCEPT !.inbox = Append(@, b.cli.partial), !.partial = <<>>] = u2
        BY <2>5, <3>2, <3>3
      <4>. QED BY <4>1, <4>2
    <3>. QED BY <3>3 DEF Receives
  <2>. QED BY <2>6, <2>13, <2>15
<1>. QED BY <1>5, <1>7, <1>8, <1>9, <1>10

LEMMA RecvFailsHolds ==
  ASSUME NEW p, p = "curl", NEW c, Holds(p, c), c.cli.native \in {"open", "closing"},
         NEW d, d = RecvFails(c)
  PROVE  Holds(p, d)
<1>1. c \in Conversations /\ c.cli \in Clients
  BY DEF Holds, Kept, Conversations
<1>2. ClientOrder(c.cli) /\ Down(c.srv, c.cli, c.net)
  BY DEF Holds, Kept
<1>3. PICK code : code = IF c.cli.code = "none" THEN "cut" ELSE c.cli.code
  OBVIOUS
<1>4. c.cli.code # "peer" /\ code # "peer" /\ code \in Codes
  BY <1>1, <1>2, <1>3 DEF Down, Live, Clients, Codes
<1>5. PICK u : u = [c.cli EXCEPT !.native = "closed", !.error = TRUE, !.code = code]
  OBVIOUS
<1>6. /\ u \in Clients /\ u.told = c.cli.told /\ u.inbox = c.cli.inbox /\ u.code = code
      /\ u.native = "closed" /\ u.sent = c.cli.sent /\ u.established = c.cli.established
      /\ u.promise = c.cli.promise /\ u.readyState = c.cli.readyState
  BY <1>1, <1>4, <1>5 DEF Clients
<1>7. ClientOrder(u)
  <2>1. c.cli.established
    BY <1>2 DEF ClientOrder
  <2>2. \A i \in DOMAIN c.cli.told : c.cli.told[i].type # "close"
    BY <1>2, <2>1 DEF ClientOrder
  <2>. QED BY <1>2, <1>6, <2>1, <2>2 DEF ClientOrder
<1>8. Down(c.srv, u, c.net)
  BY <1>2, <1>4, <1>6, DownView DEF Live
<1>9. d = [c EXCEPT !.cli = u]
  BY <1>1, <1>3, <1>5 DEF RecvFails, Conversations, Clients
<1>. QED BY <1>6, <1>7, <1>8, <1>9, CliHolds

LEMMA RecvUnitHolds ==
  ASSUME NEW p, p = "curl", NEW c, Holds(p, c), c.cli.native \in {"open", "closing"},
         c.net.client.in # <<>>,
         NEW d, d = RecvUnit([c EXCEPT !.net.client.in = Tail(@)], Head(c.net.client.in))
  PROVE  Holds(p, d)
<1>1. c \in Conversations /\ c.net \in Links /\ c.cli \in Clients /\ c.srv \in Servers
      /\ c.net.client.in \in Seq(DownUnits)
  BY DEF Holds, Kept, Conversations, Links, Endpoints
<1>2. Down(c.srv, c.cli, c.net) /\ OneCloseFrame(c.srv, c.net.client.in)
  BY DEF Holds, Kept
<1>3. PICK m : m = [c.net EXCEPT !.client.in = Tail(@)]
  OBVIOUS
<1>4. m \in Links /\ m.client.in = Tail(c.net.client.in) /\ Writable(m, "server") = Writable(c.net, "server")
  <2>1. Tail(c.net.client.in) \in Seq(DownUnits)
    BY <1>1, TailOf
  <2>. QED BY <1>1, <1>3, <2>1 DEF Links, Endpoints, Writable
<1>5. PICK unit : unit = Head(c.net.client.in)
  OBVIOUS
<1>6. PICK u : Received(c.cli, u) /\ Down(c.srv, u, m) /\ Receives(c.cli, unit, u)
  BY <1>1, <1>2, <1>4, <1>5, RecvDown
<1>7. PICK b : b = [c EXCEPT !.net = m]
  OBVIOUS
<1>8. b \in Conversations /\ b.cli = c.cli
  BY <1>1, <1>4, <1>7, NetOf
<1>9. d = [b EXCEPT !.cli = u]
  <2>1. [c EXCEPT !.net.client.in = Tail(@)] = b
    BY <1>1, <1>3, <1>7 DEF Conversations, Links, Endpoints
  <2>. QED BY <1>5, <1>6, <1>8, <2>1 DEF Receives
<1>10. d = [[c EXCEPT !.net = m] EXCEPT !.cli = u]
  BY <1>7, <1>9
<1>. QED BY <1>3, <1>6, <1>10, ReceivedHolds

LEMMA PollHolds ==
  ASSUME NEW p, p = "curl", NEW c, Holds(p, c), Polls(c), NEW d \in Polled(c)
  PROVE  Holds(p, d)
<1>1. c.cli.native \in {"open", "closing"}
  BY DEF Polls
<1>2. \/ d = RecvFails(c)
      \/ /\ c.net.client.in # <<>>
         /\ d = RecvUnit([c EXCEPT !.net.client.in = Tail(@)], Head(c.net.client.in))
  BY DEF Polled
<1>. QED BY <1>1, <1>2, RecvFailsHolds, RecvUnitHolds

LEMMA ReapHolds ==
  ASSUME NEW p, p = "curl", NEW c, Holds(p, c), NEW d, d = Reap(c)
  PROVE  Holds(p, d)
<1>1. c \in Conversations /\ c.cli \in Clients
  BY DEF Holds, Kept, Conversations
<1>2. ClientOrder(c.cli) /\ Down(c.srv, c.cli, c.net)
  BY DEF Holds, Kept
<1>3. CASE c.cli.native # "closed" \/ c.cli.inbox # <<>>
  BY <1>3 DEF Reap
<1>4. ASSUME c.cli.native = "closed", c.cli.inbox = <<>>, NEW u \in Clients, u.told = c.cli.told,
             u.inbox = c.cli.inbox, u.code = c.cli.code, u.native \in {"closed", "gone"},
             u.sent = c.cli.sent, u.established = c.cli.established,
             u.promise = c.cli.promise, u.readyState = c.cli.readyState,
             NEW a, a = [c EXCEPT !.cli = u]
      PROVE  Holds(p, a)
  <2>1. ClientOrder(u)
    <3>1. c.cli.established => \A i \in DOMAIN c.cli.told : c.cli.told[i].type # "close"
      BY <1>2, <1>4 DEF ClientOrder
    <3>2. u.native \notin {"connecting", "open", "closing"}
      BY <1>4
    <3>. QED BY <1>2, <1>4, <3>1, <3>2 DEF ClientOrder
  <2>2. Down(c.srv, u, c.net)
    BY <1>2, <1>4, DownView DEF Live
  <2>. QED BY <1>4, <2>1, <2>2, CliHolds
<1>5. CASE c.cli.native = "closed" /\ c.cli.inbox = <<>> /\ c.cli.closedSweeps # 1
  <2>0. PICK k \in Nat : k = c.cli.closedSweeps + 1
    <3>1. c.cli.closedSweeps \in Nat
      BY <1>1 DEF Clients
    <3>. QED BY <3>1
  <2>1. PICK u : u = [c.cli EXCEPT !.closedSweeps = k]
    OBVIOUS
  <2>2. /\ u \in Clients /\ u.told = c.cli.told /\ u.inbox = c.cli.inbox /\ u.code = c.cli.code
        /\ u.native = c.cli.native /\ u.sent = c.cli.sent /\ u.established = c.cli.established
        /\ u.promise = c.cli.promise /\ u.readyState = c.cli.readyState
    BY <1>1, <2>1 DEF Clients
  <2>3. d = [c EXCEPT !.cli = u]
    BY <1>1, <1>5, <2>0, <2>1 DEF Reap, Conversations
  <2>. QED BY <1>4, <1>5, <2>2, <2>3
<1>6. CASE c.cli.native = "closed" /\ c.cli.inbox = <<>> /\ c.cli.closedSweeps = 1
  <2>1. PICK u : u = [c.cli EXCEPT !.native = "gone"]
    OBVIOUS
  <2>2. /\ u \in Clients /\ u.told = c.cli.told /\ u.inbox = c.cli.inbox /\ u.code = c.cli.code
        /\ u.native = "gone" /\ u.sent = c.cli.sent /\ u.established = c.cli.established
        /\ u.promise = c.cli.promise /\ u.readyState = c.cli.readyState
    BY <1>1, <2>1 DEF Clients
  <2>3. PICK a : a = [c EXCEPT !.cli = u]
    OBVIOUS
  <2>4. Holds(p, a)
    BY <1>4, <1>6, <2>2, <2>3
  <2>5. a.cli.native \in {"closed", "gone"}
    BY <1>1, <2>2, <2>3, CliOf
  <2>6. d = Cleanup(a)
    BY <1>1, <1>6, <2>1, <2>3 DEF Reap, Conversations
  <2>. QED BY <2>4, <2>5, <2>6, CleanupHolds
<1>. QED BY <1>3, <1>5, <1>6

LEMMA OpenedHolds ==
  ASSUME NEW p, p = "curl", NEW c, Holds(p, c), c.cli.promise = "resolved",
         NEW d, d = Opened([c EXCEPT !.cli.promise = "done"])
  PROVE  Holds(p, d)
<1>1. c \in Conversations /\ c.cli \in Clients
  BY DEF Holds, Kept, Conversations
<1>2. ClientOrder(c.cli) /\ Down(c.srv, c.cli, c.net)
  BY DEF Holds, Kept
<1>3. c.cli.native # "connecting"
  BY <1>2 DEF ClientOrder
<1>4. PICK u : u = [c.cli EXCEPT !.promise = "done"]
  OBVIOUS
<1>5. /\ u \in Clients /\ u.told = c.cli.told /\ u.inbox = c.cli.inbox /\ u.code = c.cli.code
      /\ u.native = c.cli.native /\ u.partial = c.cli.partial /\ u.promise = "done"
      /\ u.sent = c.cli.sent /\ u.established = c.cli.established
      /\ u.readyState = c.cli.readyState
  BY <1>1, <1>4 DEF Clients
<1>6. Down(c.srv, u, c.net)
  BY <1>2, <1>5, DownView DEF Live
<1>7. PICK b : b = [c EXCEPT !.cli = u]
  OBVIOUS
<1>8. [c EXCEPT !.cli.promise = "done"] = b /\ b.cli = u
  BY <1>1, <1>4, <1>7 DEF Conversations
<1>9. CASE u.readyState # "connecting"
  <2>1. ClientOrder(u)
    BY <1>2, <1>3, <1>5 DEF ClientOrder
  <2>2. d = b
    BY <1>8, <1>9 DEF Opened
  <2>. QED BY <1>5, <1>6, <1>7, <2>1, <2>2, CliHolds
<1>10. CASE u.readyState = "connecting"
  <2>1. PICK e : e = ServerEvent("open", <<>>)
    OBVIOUS
  <2>2. e \in Told /\ e.type = "open" /\ e # ServerEvent("close", <<"peer">>)
    BY <2>1 DEF ServerEvent, Told, Data
  <2>3. PICK u2 : u2 = [u EXCEPT !.readyState = "open", !.told = Append(@, e)]
    OBVIOUS
  <2>4. /\ u2 \in Clients /\ u2.told = Append(u.told, e) /\ u2.inbox = u.inbox /\ u2.code = u.code
        /\ u2.native = u.native /\ u2.partial = u.partial /\ u2.promise = "done"
        /\ u2.sent = u.sent /\ u2.established = u.established /\ u2.readyState = "open"
    <3>1. Append(u.told, e) \in Seq(Told)
      BY <1>5, <2>2, ClientFields
    <3>. QED BY <1>5, <2>3, <3>1 DEF Clients
  <2>5. Down(c.srv, u2, c.net)
    <3>1. u \in Clients /\ e \in Told /\ e.type # "message"
      BY <1>5, <2>2
    <3>2. e = ServerEvent("close", <<"peer">>) => u.code = "peer" /\ u.inbox = <<>> /\ u.native = "gone"
      BY <2>2
    <3>. QED BY ONLY <1>6, <2>4, <3>1, <3>2, TellDown
  <2>6. ClientOrder(u2)
    <3>1. PICK told \in Seq(Told) : told = c.cli.told
      BY <1>1, ClientFields
    <3>2. PICK next : next = Append(told, e)
      OBVIOUS
    <3>3. /\ DOMAIN told = 1 .. Len(told) /\ DOMAIN next = 1 .. Len(told) + 1
          /\ next[Len(told) + 1] = e /\ \A i \in 1 .. Len(told) : next[i] = told[i]
      BY <2>2, <3>2, AppendedEvent
    <3>4. \A i \in DOMAIN next : \/ i \in DOMAIN told /\ next[i] = told[i]
                                 \/ next[i] = e /\ i = Len(told) + 1
      BY <3>3
    <3>5. u2.told = next
      BY <1>5, <2>4, <3>1, <3>2
    <3>6. CASE u2.established
      <4>1. c.cli.established
        BY <1>5, <2>4, <3>6
      <4>2. \A i \in DOMAIN told : told[i].type # "close" /\ told[i].type # "open"
        BY <1>2, <1>5, <1>10, <3>1, <4>1 DEF ClientOrder
      <4>3. \A i \in DOMAIN next : next[i].type # "close"
        BY <2>2, <3>4, <4>2
      <4>4. \A i, j \in DOMAIN next : next[i].type = "open" /\ next[j].type = "open" => i = j
        BY <3>4, <4>2
      <4>. QED BY <1>3, <1>5, <2>4, <3>5, <3>6, <4>3, <4>4 DEF ClientOrder
    <3>7. CASE ~u2.established
      <4>1. ~c.cli.established
        BY <1>5, <2>4, <3>7
      <4>2. Messages(Append(told, e)) = Messages(told)
        <5>1. told \in Seq(Told) /\ e \in Told /\ e.type # "message"
          BY <2>2
        <5>. QED BY ONLY <5>1, OthersAppended
      <4>3. /\ Messages(told) = {} /\ u2.inbox = <<>> /\ u2.code # "peer"
            /\ u2.native \notin {"connecting", "open", "closing"}
        BY <1>2, <1>3, <1>5, <2>4, <3>1, <4>1 DEF ClientOrder
      <4>. QED BY <3>2, <3>5, <3>7, <4>2, <4>3 DEF ClientOrder
    <3>. QED BY <3>6, <3>7
  <2>7. d = [c EXCEPT !.cli = u2]
    <3>1. d = TellClient([b EXCEPT !.cli.readyState = "open"], "open", <<>>)
      BY <1>8, <1>10 DEF Opened
    <3>2. [b EXCEPT !.cli.readyState = "open"] = [c EXCEPT !.cli = [u EXCEPT !.readyState = "open"]]
      BY <1>1, <1>7 DEF Conversations
    <3>3. PICK x : x = [u EXCEPT !.readyState = "open"]
      OBVIOUS
    <3>4. [x EXCEPT !.told = Append(@, e)] = u2
      BY <1>5, <2>3, <3>3 DEF Clients
    <3>5. TellClient([c EXCEPT !.cli = x], "open", <<>>) = [c EXCEPT !.cli = u2]
      BY <1>1, <2>1, <3>4 DEF TellClient, Conversations
    <3>. QED BY <3>1, <3>2, <3>3, <3>5
  <2>8. /\ u2.sent = c.cli.sent
        /\ u2.native \in {"connecting", "open"} => c.cli.native \in {"connecting", "open"}
        /\ c.cli.native \in {"closed", "gone"} => u2.native \in {"closed", "gone"}
    BY <1>5, <2>4
  <2>9. u2 \in Clients /\ p = "curl" /\ Holds(p, c)
    BY <2>4
  <2>. QED BY ONLY <2>5, <2>6, <2>7, <2>8, <2>9, CliHolds
<1>. QED BY <1>9, <1>10

LEMMA ConnectFailedHolds ==
  ASSUME NEW p, p = "curl", NEW c, Holds(p, c), c.cli.promise = "rejected",
         NEW d, d = ConnectFailed([c EXCEPT !.cli.promise = "done"])
  PROVE  Holds(p, d)
<1>1. c \in Conversations /\ c.cli \in Clients
  BY DEF Holds, Kept, Conversations
<1>2. ClientOrder(c.cli) /\ Down(c.srv, c.cli, c.net)
  BY DEF Holds, Kept
<1>3. c.cli.native # "connecting" /\ ~c.cli.established
  BY <1>1, <1>2 DEF ClientOrder, Clients
<1>4. PICK e : e = ServerEvent("error", <<>>)
  OBVIOUS
<1>5. PICK f : f = ServerEvent("close", <<"none">>)
  OBVIOUS
<1>6. /\ e \in Told /\ e.type # "message" /\ e # ServerEvent("close", <<"peer">>)
      /\ f \in Told /\ f.type # "message" /\ f # ServerEvent("close", <<"peer">>)
  <2>1. e \in Told /\ e.type = "error"
    BY <1>4 DEF ServerEvent, Told, Data
  <2>2. f \in Told /\ f.type = "close"
    BY <1>5 DEF ServerEvent, Told, Data, Codes
  <2>3. e # ServerEvent("close", <<"peer">>)
    BY <2>1 DEF ServerEvent
  <2>4. f # ServerEvent("close", <<"peer">>)
    <3>1. f.data = <<"none">>
      BY <1>5 DEF ServerEvent
    <3>2. <<"none">> # <<"peer">>
      OBVIOUS
    <3>. QED BY <3>1, <3>2 DEF ServerEvent
  <2>. QED BY <2>1, <2>2, <2>3, <2>4
<1>7. PICK u : u = [c.cli EXCEPT !.promise = "done", !.readyState = "closed"]
  OBVIOUS
<1>8. /\ u \in Clients /\ u.told = c.cli.told /\ u.inbox = c.cli.inbox /\ u.code = c.cli.code
      /\ u.native = c.cli.native /\ u.partial = c.cli.partial
      /\ u.sent = c.cli.sent /\ u.established = c.cli.established
  BY <1>1, <1>7 DEF Clients
<1>9. Down(c.srv, u, c.net)
  BY <1>2, <1>8, DownView DEF Live
<1>10. PICK u1 : u1 = [u EXCEPT !.told = Append(@, e)]
  OBVIOUS
<1>11. /\ u1 \in Clients /\ u1.told = Append(u.told, e) /\ u1.inbox = u.inbox /\ u1.code = u.code
       /\ u1.native = u.native /\ u1.partial = u.partial
       /\ u1.sent = u.sent /\ u1.established = u.established
  <2>1. Append(u.told, e) \in Seq(Told)
    BY <1>6, <1>8, ClientFields
  <2>. QED BY <1>8, <1>10, <2>1 DEF Clients
<1>12. Down(c.srv, u1, c.net)
  <2>1. e = ServerEvent("close", <<"peer">>) => u.code = "peer" /\ u.inbox = <<>> /\ u.native = "gone"
    BY <1>6
  <2>2. u \in Clients /\ e \in Told /\ e.type # "message"
    BY <1>6, <1>8
  <2>. QED BY ONLY <1>9, <1>11, <2>1, <2>2, TellDown
<1>13. PICK u2 : u2 = [u1 EXCEPT !.told = Append(@, f)]
  OBVIOUS
<1>14. /\ u2 \in Clients /\ u2.told = Append(u1.told, f) /\ u2.inbox = u1.inbox /\ u2.code = u1.code
       /\ u2.native = u1.native /\ u2.partial = u1.partial
       /\ u2.sent = u1.sent /\ u2.established = u1.established
  <2>1. Append(u1.told, f) \in Seq(Told)
    <3>1. u1.told \in Seq(Told)
      BY ONLY <1>11, ClientFields
    <3>. QED BY ONLY <1>6, <3>1
  <2>. QED BY <1>11, <1>13, <2>1 DEF Clients
<1>15. Down(c.srv, u2, c.net)
  <2>1. f = ServerEvent("close", <<"peer">>) => u1.code = "peer" /\ u1.inbox = <<>> /\ u1.native = "gone"
    BY <1>6
  <2>2. u1 \in Clients /\ f \in Told /\ f.type # "message"
    BY <1>6, <1>11
  <2>. QED BY ONLY <1>12, <1>14, <2>1, <2>2, TellDown
<1>16. ClientOrder(u2)
  <2>1. Messages(u2.told) = Messages(c.cli.told)
    <3>1. Messages(Append(u.told, e)) = Messages(u.told)
      <4>1. u.told \in Seq(Told) /\ e \in Told /\ e.type # "message"
        BY <1>6, <1>8, ClientFields
      <4>. QED BY ONLY <4>1, OthersAppended
    <3>2. Messages(Append(u1.told, f)) = Messages(u1.told)
      <4>1. u1.told \in Seq(Told) /\ f \in Told /\ f.type # "message"
        BY <1>6, <1>11, ClientFields
      <4>. QED BY ONLY <4>1, OthersAppended
    <3>. QED BY <1>8, <1>11, <1>14, <3>1, <3>2
  <2>. QED BY <1>2, <1>3, <1>8, <1>11, <1>14, <2>1 DEF ClientOrder
<1>17. d = [c EXCEPT !.cli = u2]
  <2>1. [[c EXCEPT !.cli.promise = "done"] EXCEPT !.cli.readyState = "closed"] = [c EXCEPT !.cli = u]
    BY <1>1, <1>7 DEF Conversations, Clients
  <2>2. TellClient([c EXCEPT !.cli = u], "error", <<>>) = [c EXCEPT !.cli = u1]
    BY <1>1, <1>4, <1>10 DEF TellClient, Conversations
  <2>3. TellClient([c EXCEPT !.cli = u1], "close", <<"none">>) = [c EXCEPT !.cli = u2]
    BY <1>1, <1>5, <1>13 DEF TellClient, Conversations
  <2>. QED BY <2>1, <2>2, <2>3 DEF ConnectFailed
<1>18. /\ u2.sent = c.cli.sent
       /\ u2.native \in {"connecting", "open"} => c.cli.native \in {"connecting", "open"}
       /\ c.cli.native \in {"closed", "gone"} => u2.native \in {"closed", "gone"}
  BY <1>8, <1>11, <1>14
<1>19. u2 \in Clients /\ p = "curl" /\ Holds(p, c)
  BY <1>14
<1>. QED BY ONLY <1>15, <1>16, <1>17, <1>18, <1>19, CliHolds

LEMMA ReactionHolds ==
  ASSUME NEW p, p = "curl", NEW c, Holds(p, c), c.cli.promise \in {"resolved", "rejected"},
         NEW d, d = Reaction(c)
  PROVE  Holds(p, d)
<1>1. CASE c.cli.promise = "resolved"
  BY <1>1, OpenedHolds DEF Reaction
<1>2. CASE c.cli.promise = "rejected"
  BY <1>2, ConnectFailedHolds DEF Reaction
<1>. QED BY <1>1, <1>2

\* What the client sends now comes after all it has sent.
LEMMA UpstreamMore ==
  ASSUME NEW v \in Servers, NEW t, NEW x \in Seq(UpUnits), NEW s,
         t.in \in Seq(UpUnits), Queued(t) \in Seq(UpUnits),
         s.events = t.events, s.in = t.in \o x
  PROVE  Upstream(v, s) = Upstream(v, t) \o x
<1>1. PICK h \in Seq(UpUnits) : h = v.header \o v.recv \o Queued(t)
  <2>1. v.header \in Seq(UpUnits) /\ v.recv \in Seq(UpUnits)
    BY ServerFields
  <2>2. v.header \o v.recv \o Queued(t) \in Seq(UpUnits)
    BY <2>1
  <2>. QED BY <2>2
<1>2. PICK i \in Seq(UpUnits) : i = t.in
  OBVIOUS
<1>3. Upstream(v, t) = h \o i /\ Upstream(v, s) = h \o (i \o x)
  BY <1>1, <1>2 DEF Upstream, Queued
<1>4. h \o (i \o x) = (h \o i) \o x
  <2>1. h \in Seq(UpUnits) /\ i \in Seq(UpUnits) /\ x \in Seq(UpUnits)
    OBVIOUS
  <2>. QED BY ONLY <2>1, ConcatAssociative
<1>. QED BY <1>3, <1>4

LEMMA UpData ==
  ASSUME NEW v \in Servers, NEW u \in Clients, NEW n \in Links, Up(v, u, n.server),
         u.native = "open", NEW piece \in 1 .. MaxUp, NEW s, s.events = n.server.events,
         s.closed = n.server.closed,
         s.in = IF n.server.closed THEN n.server.in
                ELSE n.server.in \o Units(Frame("data", piece, TRUE)),
         NEW u2, u2.native = "open", u2.sent = Append(u.sent, piece)
  PROVE  Up(v, u2, s)
<1>1. PICK sent \in Seq(1 .. MaxUp) : sent = u.sent
  BY ClientFields
<1>2. PICK more : more = Append(sent, piece)
  OBVIOUS
<1>3. /\ Len(more) = Len(sent) + 1 /\ Len(sent) \in Nat /\ u2.sent = more
  BY <1>1, <1>2
<1>4. PICK r \in Nat : r = UpRead(v)
  BY Counts
<1>5. PICK all : all = Upstream(v, n.server)
  OBVIOUS
<1>6. PICK x \in Seq(UpUnits) : x = Units(Frame("data", piece, TRUE))
  BY UnitsUp DEF UpFrames
<1>7. all \in Seq(UpUnits)
  <2>1. v.header \in Seq(UpUnits) /\ v.recv \in Seq(UpUnits) /\ Queued(n.server) \in Seq(UpUnits)
        /\ n.server.in \in Seq(UpUnits)
    BY ServerFields, QueuedTyped DEF Links, Endpoints
  <2>. QED BY <1>5, <2>1 DEF Upstream
<1>8. Len(all) \in Nat
  BY <1>7
<1>9. /\ Follows(all, "upgrade", sent, r) /\ r + Len(all) <= 2 + 2 * Len(sent)
      /\ ~n.server.closed => r + Len(all) >= 2 + 2 * Len(sent)
      /\ ~v.closeRcvd /\ v.frag = <<>> /\ AsSent(v.told, sent)
      /\ ~ToldClose(v.told, <<"peer", TRUE>>)
  BY <1>1, <1>4, <1>5 DEF Up
<1>10. AsSent(v.told, more)
  BY <1>2, <1>9, AsSentMore
<1>11. PICK first : first = "upgrade"
  OBVIOUS
<1>12. CASE n.server.closed
  <2>1. Upstream(v, s) = all
    BY <1>5, <1>12 DEF Upstream, Queued
  <2>2. Follows(all, first, more, r)
    <3>1. all \in Seq(UpUnits) /\ sent \in Seq(1 .. MaxUp) /\ piece \in 1 .. MaxUp /\ r \in Nat
      BY <1>7
    <3>2. Follows(all, first, sent, r) /\ r + Len(all) <= 2 + 2 * Len(sent)
      BY <1>9, <1>11
    <3>3. Follows(all, first, Append(sent, piece), r)
      BY ONLY <3>1, <3>2, FollowsStill
    <3>. QED BY <1>2, <3>3
  <2>3. r + Len(all) <= 2 + 2 * Len(more) /\ r + Len(all) <= 2 + 2 * Len(more) + 2
    <3>1. r \in Nat /\ Len(all) \in Nat /\ Len(more) = Len(sent) + 1 /\ Len(sent) \in Nat
          /\ r + Len(all) <= 2 + 2 * Len(sent)
      BY <1>3, <1>8, <1>9
    <3>. QED BY ONLY <3>1
  <2>. QED BY <1>3, <1>4, <1>9, <1>10, <1>11, <1>12, <2>1, <2>2, <2>3 DEF Up
<1>13. CASE ~n.server.closed
  <2>1. Upstream(v, s) = all \o x
    <3>1. PICK t : t = n.server
      OBVIOUS
    <3>2. /\ v \in Servers /\ x \in Seq(UpUnits) /\ t.in \in Seq(UpUnits) /\ Queued(t) \in Seq(UpUnits)
          /\ s.events = t.events /\ s.in = t.in \o x
      BY <1>5, <1>6, <1>13, <3>1, QueuedTyped DEF Links, Endpoints
    <3>3. Upstream(v, s) = Upstream(v, t) \o x
      BY ONLY <3>2, UpstreamMore
    <3>. QED BY <1>5, <3>1, <3>3
  <2>2. r + Len(all) = 2 + 2 * Len(sent)
    <3>1. r \in Nat /\ Len(all) \in Nat /\ Len(sent) \in Nat
          /\ r + Len(all) <= 2 + 2 * Len(sent) /\ r + Len(all) >= 2 + 2 * Len(sent)
      BY <1>3, <1>8, <1>9, <1>13
    <3>. QED BY ONLY <3>1
  <2>3. PICK next : next = all \o x
    OBVIOUS
  <2>4. Follows(next, first, more, r)
    <3>1. all \in Seq(UpUnits) /\ sent \in Seq(1 .. MaxUp) /\ piece \in 1 .. MaxUp /\ r \in Nat
      BY <1>7
    <3>2. Follows(all, first, sent, r)
      BY <1>9, <1>11
    <3>3. Follows(all \o Units(Frame("data", piece, TRUE)), first, Append(sent, piece), r)
      BY ONLY <2>2, <3>1, <3>2, FollowsData
    <3>. QED BY <1>2, <1>6, <2>3, <3>3
  <2>5. Len(next) = Len(all) + 2
    <3>1. PICK f : f = Frame("data", piece, TRUE)
      OBVIOUS
    <3>2. Len(all \o Units(f)) = Len(all) + 2
      BY ONLY <1>7, TwoMore
    <3>. QED BY <1>6, <2>3, <3>1, <3>2
  <2>6. /\ r + Len(next) <= 2 + 2 * Len(more) /\ r + Len(next) <= 2 + 2 * Len(more) + 2
        /\ r + Len(next) >= 2 + 2 * Len(more)
    <3>1. r \in Nat /\ Len(all) \in Nat /\ Len(more) = Len(sent) + 1 /\ Len(sent) \in Nat
      BY <1>3, <1>8
    <3>. QED BY ONLY <2>2, <2>5, <3>1
  <2>. QED BY <1>3, <1>4, <1>9, <1>10, <1>11, <1>13, <2>1, <2>3, <2>4, <2>6 DEF Up
<1>. QED BY <1>12, <1>13

LEMMA UpClose ==
  ASSUME NEW v \in Servers, NEW u \in Clients, NEW n \in Links, Up(v, u, n.server),
         u.native = "open", NEW s, s.events = n.server.events, s.closed = n.server.closed,
         s.in = IF n.server.closed THEN n.server.in
                ELSE n.server.in \o Units(Frame("close", 0, TRUE)),
         NEW u2, u2.native = "closing", u2.sent = u.sent
  PROVE  Up(v, u2, s)
<1>1. PICK sent \in Seq(1 .. MaxUp) : sent = u.sent
  BY ClientFields
<1>2. Len(sent) \in Nat
  OBVIOUS
<1>3. PICK r \in Nat : r = UpRead(v)
  BY Counts
<1>4. PICK all : all = Upstream(v, n.server)
  OBVIOUS
<1>5. PICK x \in Seq(UpUnits) : x = Units(Frame("close", 0, TRUE))
  BY UnitsUp DEF UpFrames, RawFrames
<1>6. all \in Seq(UpUnits)
  <2>1. v.header \in Seq(UpUnits) /\ v.recv \in Seq(UpUnits) /\ Queued(n.server) \in Seq(UpUnits)
        /\ n.server.in \in Seq(UpUnits)
    BY ServerFields, QueuedTyped DEF Links, Endpoints
  <2>. QED BY <1>4, <2>1 DEF Upstream
<1>7. Len(all) \in Nat
  BY <1>6
<1>8. /\ Follows(all, "upgrade", sent, r) /\ r + Len(all) <= 2 + 2 * Len(sent)
      /\ ~n.server.closed => r + Len(all) >= 2 + 2 * Len(sent)
      /\ ~v.closeRcvd /\ v.frag = <<>> /\ AsSent(v.told, sent)
      /\ ~ToldClose(v.told, <<"peer", TRUE>>)
  BY <1>1, <1>3, <1>4 DEF Up
<1>9. PICK first : first = "upgrade"
  OBVIOUS
<1>10. CASE n.server.closed
  <2>1. Upstream(v, s) = all
    BY <1>4, <1>10 DEF Upstream, Queued
  <2>2. r + Len(all) <= 2 + 2 * Len(sent) + 2
    <3>1. r \in Nat /\ Len(all) \in Nat /\ Len(sent) \in Nat /\ r + Len(all) <= 2 + 2 * Len(sent)
      BY <1>2, <1>7, <1>8
    <3>. QED BY ONLY <3>1
  <2>. QED BY <1>1, <1>3, <1>8, <1>10, <2>1, <2>2 DEF Up
<1>11. CASE ~n.server.closed
  <2>1. Upstream(v, s) = all \o x
    <3>1. PICK t : t = n.server
      OBVIOUS
    <3>2. /\ v \in Servers /\ x \in Seq(UpUnits) /\ t.in \in Seq(UpUnits) /\ Queued(t) \in Seq(UpUnits)
          /\ s.events = t.events /\ s.in = t.in \o x
      BY <1>4, <1>5, <1>11, <3>1, QueuedTyped DEF Links, Endpoints
    <3>3. Upstream(v, s) = Upstream(v, t) \o x
      BY ONLY <3>2, UpstreamMore
    <3>. QED BY <1>4, <3>1, <3>3
  <2>2. r + Len(all) = 2 + 2 * Len(sent)
    <3>1. r \in Nat /\ Len(all) \in Nat /\ Len(sent) \in Nat
          /\ r + Len(all) <= 2 + 2 * Len(sent) /\ r + Len(all) >= 2 + 2 * Len(sent)
      BY <1>2, <1>7, <1>8, <1>11
    <3>. QED BY ONLY <3>1
  <2>3. PICK next : next = all \o x
    OBVIOUS
  <2>4. Follows(next, first, sent, r)
    <3>1. all \in Seq(UpUnits) /\ sent \in Seq(1 .. MaxUp) /\ r \in Nat
      BY <1>6
    <3>2. Follows(all, first, sent, r)
      BY <1>8, <1>9
    <3>3. Follows(all \o Units(Frame("close", 0, TRUE)), first, sent, r)
      BY ONLY <2>2, <3>1, <3>2, FollowsClose
    <3>. QED BY <1>5, <2>3, <3>3
  <2>5. Len(next) = Len(all) + 2
    <3>1. PICK f : f = Frame("close", 0, TRUE)
      OBVIOUS
    <3>2. Len(all \o Units(f)) = Len(all) + 2
      BY ONLY <1>6, TwoMore
    <3>. QED BY <1>5, <2>3, <3>1, <3>2
  <2>6. /\ r + Len(next) <= 2 + 2 * Len(sent) + 2
        /\ r + Len(next) >= 2 + 2 * Len(sent)
    <3>1. r \in Nat /\ Len(all) \in Nat /\ Len(sent) \in Nat
      BY <1>2, <1>7
    <3>. QED BY ONLY <2>2, <2>5, <3>1
  <2>. QED BY <1>1, <1>3, <1>8, <1>9, <1>11, <2>1, <2>3, <2>4, <2>6 DEF Up
<1>. QED BY <1>10, <1>11

LEMMA ClientSendHolds ==
  ASSUME NEW p, p = "curl", NEW c, Holds(p, c), c.cli.readyState = "open",
         NEW piece \in 1 .. MaxUp, NEW d, d = ClientSend(c, piece)
  PROVE  Holds(p, d)
<1>1. c \in Conversations /\ c.net \in Links /\ c.cli \in Clients /\ c.srv \in Servers
  BY DEF Holds, Kept, Conversations
<1>2. /\ Kept(p, c) /\ ClientOrder(c.cli) /\ Down(c.srv, c.cli, c.net)
      /\ OneCloseFrame(c.srv, c.net.client.in) /\ Up(c.srv, c.cli, c.net.server)
      /\ (c.net.client.closed => c.cli.native \in {"closed", "gone"})
  BY DEF Holds, Kept
<1>3. CASE c.cli.native # "open"
  BY <1>3 DEF ClientSend, WsSend
<1>4. CASE c.cli.native = "open"
  <2>1. PICK units \in Seq(UpUnits) : units = Units(Frame("data", piece, TRUE))
    BY UnitsUp DEF UpFrames
  <2>2. PICK m : m = Reaches(c.net, "client", units)
    OBVIOUS
  <2>3. /\ m \in Links /\ m.client.in = c.net.client.in /\ m.client.closed = c.net.client.closed
        /\ Writable(m, "server") = Writable(c.net, "server")
        /\ m.server.events = c.net.server.events /\ m.server.closed = c.net.server.closed
        /\ m.server.in = IF c.net.server.closed THEN c.net.server.in ELSE c.net.server.in \o units
    BY <1>1, <2>2, TransmitOf
  <2>4. PICK u : u = [c.cli EXCEPT !.sent = Append(@, piece)]
    OBVIOUS
  <2>5. /\ u \in Clients /\ u.told = c.cli.told /\ u.inbox = c.cli.inbox /\ u.code = c.cli.code
        /\ u.native = c.cli.native /\ u.partial = c.cli.partial /\ u.promise = c.cli.promise
        /\ u.sent = Append(c.cli.sent, piece) /\ u.established = c.cli.established
        /\ u.readyState = c.cli.readyState
    <3>1. Append(c.cli.sent, piece) \in Seq(1 .. MaxUp)
      BY <1>1, ClientFields
    <3>. QED BY <1>1, <2>4, <3>1 DEF Clients
  <2>6. d = [[c EXCEPT !.net = m] EXCEPT !.cli = u]
    <3>1. ~c.net.client.closed
      BY <1>2, <1>4
    <3>2. Transmit(c, Frame("data", piece, TRUE)) = [c EXCEPT !.net = m]
      BY <2>1, <2>2, <3>1 DEF Transmit
    <3>. QED BY <1>1, <1>4, <2>4, <3>2 DEF ClientSend, WsSend, Conversations
  <2>7. d \in Conversations /\ d.net = m /\ d.srv = c.srv /\ d.cli = u
    BY <1>1, <2>3, <2>5, <2>6 DEF Conversations
  <2>8. ClientOrder(u)
    BY <1>2, <1>4, <2>5 DEF ClientOrder
  <2>9. Down(c.srv, u, m)
    BY <1>2, <2>3, <2>5, DownView DEF Live
  <2>10. Kept(p, d)
    BY <1>2, <2>3, <2>5, <2>7, <2>8, <2>9, ClientMoves
  <2>11. PICK s : s = m.server
    OBVIOUS
  <2>12. Up(c.srv, u, s)
    <3>1. PICK n : n = c.net
      OBVIOUS
    <3>2. /\ c.srv \in Servers /\ c.cli \in Clients /\ n \in Links /\ Up(c.srv, c.cli, n.server)
          /\ c.cli.native = "open" /\ piece \in 1 .. MaxUp
      BY <1>1, <1>2, <1>4, <3>1
    <3>3. /\ s.events = n.server.events /\ s.closed = n.server.closed
          /\ s.in = IF n.server.closed THEN n.server.in
                    ELSE n.server.in \o Units(Frame("data", piece, TRUE))
      BY <2>1, <2>3, <2>11, <3>1
    <3>4. u.native = "open" /\ u.sent = Append(c.cli.sent, piece)
      BY <1>4, <2>5
    <3>. QED BY ONLY <3>2, <3>3, <3>4, UpData
  <2>. QED BY <2>7, <2>10, <2>11, <2>12 DEF Holds
<1>. QED BY <1>3, <1>4

\* __brokit_ws_close.
LEMMA WsCloseHolds ==
  ASSUME NEW p, p = "curl", NEW c, Holds(p, c), NEW d, d = WsClose(c)
  PROVE  /\ Holds(p, d) /\ d.cli.readyState = c.cli.readyState
         /\ d.cli.native # "connecting"
<1>1. c \in Conversations /\ c.net \in Links /\ c.cli \in Clients /\ c.srv \in Servers
  BY DEF Holds, Kept, Conversations
<1>2. /\ Kept(p, c) /\ ClientOrder(c.cli) /\ Down(c.srv, c.cli, c.net)
      /\ OneCloseFrame(c.srv, c.net.client.in) /\ Up(c.srv, c.cli, c.net.server)
      /\ (c.net.client.closed => c.cli.native \in {"closed", "gone"})
  BY DEF Holds, Kept
<1>3. CASE c.cli.native = "connecting"
  <2>1. PICK u : u = [c.cli EXCEPT !.native = "gone", !.promise = "dropped"]
    OBVIOUS
  <2>2. /\ u \in Clients /\ u.told = c.cli.told /\ u.inbox = c.cli.inbox /\ u.code = c.cli.code
        /\ u.native = "gone" /\ u.partial = c.cli.partial /\ u.sent = c.cli.sent
        /\ u.established = c.cli.established /\ u.readyState = c.cli.readyState
    BY <1>1, <2>1 DEF Clients
  <2>3. ClientOrder(u)
    BY <1>1, <1>2, <1>3, <2>2 DEF ClientOrder
  <2>4. Down(c.srv, u, c.net)
    BY <1>2, <2>2, DownView DEF Live
  <2>5. PICK a : a = [c EXCEPT !.cli = u]
    OBVIOUS
  <2>6. Holds(p, a) /\ a.cli = u /\ a \in Conversations
    <3>1. Holds(p, a)
      BY <2>2, <2>3, <2>4, <2>5, CliHolds
    <3>. QED BY <1>1, <2>2, <2>5, <3>1, CliOf
  <2>7. d = Cleanup(a)
    BY <1>1, <1>3, <2>1, <2>5 DEF WsClose, Conversations
  <2>8. Holds(p, d)
    BY <2>2, <2>6, <2>7, CleanupHolds
  <2>9. d.cli = u
    BY <2>6, <2>7, CleanupFields
  <2>. QED BY <2>2, <2>8, <2>9
<1>4. CASE c.cli.native = "open"
  <2>1. PICK units \in Seq(UpUnits) : units = Units(Frame("close", 0, TRUE))
    BY UnitsUp DEF UpFrames, RawFrames
  <2>2. PICK m : m = Reaches(c.net, "client", units)
    OBVIOUS
  <2>3. /\ m \in Links /\ m.client.in = c.net.client.in /\ m.client.closed = c.net.client.closed
        /\ Writable(m, "server") = Writable(c.net, "server")
        /\ m.server.events = c.net.server.events /\ m.server.closed = c.net.server.closed
        /\ m.server.in = IF c.net.server.closed THEN c.net.server.in ELSE c.net.server.in \o units
    BY <1>1, <2>2, TransmitOf
  <2>4. PICK u : u = [c.cli EXCEPT !.native = "closing", !.code = "own"]
    OBVIOUS
  <2>5. /\ u \in Clients /\ u.told = c.cli.told /\ u.inbox = c.cli.inbox /\ u.code = "own"
        /\ u.native = "closing" /\ u.partial = c.cli.partial /\ u.promise = c.cli.promise
        /\ u.sent = c.cli.sent /\ u.established = c.cli.established
        /\ u.readyState = c.cli.readyState
    BY <1>1, <2>4 DEF Clients, Codes
  <2>6. d = [[c EXCEPT !.net = m] EXCEPT !.cli = u]
    <3>1. ~c.net.client.closed
      BY <1>2, <1>4
    <3>2. Transmit(c, Frame("close", 0, TRUE)) = [c EXCEPT !.net = m]
      BY <2>1, <2>2, <3>1 DEF Transmit
    <3>. QED BY <1>1, <1>4, <2>4, <3>2 DEF WsClose, Conversations
  <2>7. d \in Conversations /\ d.net = m /\ d.srv = c.srv /\ d.cli = u
    BY <1>1, <2>3, <2>5, <2>6 DEF Conversations
  <2>8. ClientOrder(u)
    BY <1>2, <1>4, <2>5 DEF ClientOrder
  <2>9. Down(c.srv, u, m)
    <3>1. Live(c.cli)
      BY <1>4 DEF Live
    <3>2. c.cli.code # "peer"
      BY <1>2, <3>1 DEF Down
    <3>. QED BY <1>2, <1>4, <2>3, <2>5, <3>1, <3>2, DownView
  <2>10. Kept(p, d)
    <3>1. ~m.client.closed
      BY <1>2, <1>4, <2>3
    <3>. QED BY <1>2, <2>3, <2>7, <2>8, <2>9, <3>1, ClientMoves
  <2>11. PICK s : s = m.server
    OBVIOUS
  <2>12. Up(c.srv, u, s)
    <3>1. PICK n : n = c.net
      OBVIOUS
    <3>2. /\ c.srv \in Servers /\ c.cli \in Clients /\ n \in Links /\ Up(c.srv, c.cli, n.server)
          /\ c.cli.native = "open"
      BY <1>1, <1>2, <1>4, <3>1
    <3>3. /\ s.events = n.server.events /\ s.closed = n.server.closed
          /\ s.in = IF n.server.closed THEN n.server.in
                    ELSE n.server.in \o Units(Frame("close", 0, TRUE))
      BY <2>1, <2>3, <2>11, <3>1
    <3>4. u.native = "closing" /\ u.sent = c.cli.sent
      BY <2>5
    <3>. QED BY ONLY <3>2, <3>3, <3>4, UpClose
  <2>. QED BY <2>5, <2>7, <2>10, <2>11, <2>12 DEF Holds
<1>5. CASE c.cli.native \notin {"connecting", "open"}
  BY <1>5 DEF WsClose
<1>. QED BY <1>3, <1>4, <1>5

\* close() and the state it leaves.
LEMMA StateHolds ==
  ASSUME NEW p, p = "curl", NEW c, Holds(p, c), c.cli.readyState # "closed",
         c.cli.native # "connecting", NEW state \in {"closing", "closed"}, NEW id \in BOOLEAN,
         NEW u, u = [c.cli EXCEPT !.readyState = state, !.id = id],
         NEW d, d = [c EXCEPT !.cli = u]
  PROVE  Holds(p, d)
<1>1. c \in Conversations /\ c.cli \in Clients
  BY DEF Holds, Kept, Conversations
<1>2. ClientOrder(c.cli) /\ Down(c.srv, c.cli, c.net)
  BY DEF Holds, Kept
<1>3. /\ u \in Clients /\ u.told = c.cli.told /\ u.inbox = c.cli.inbox /\ u.code = c.cli.code
      /\ u.native = c.cli.native /\ u.partial = c.cli.partial /\ u.promise = c.cli.promise
      /\ u.sent = c.cli.sent /\ u.established = c.cli.established
  BY <1>1 DEF Clients
<1>4. ClientOrder(u)
  BY <1>2, <1>3 DEF ClientOrder
<1>5. Down(c.srv, u, c.net)
  BY <1>2, <1>3, DownView DEF Live
<1>. QED BY <1>3, <1>4, <1>5, CliHolds

LEMMA ClientCloseHolds ==
  ASSUME NEW p, p = "curl", NEW c, Holds(p, c), NEW d, d = ClientClose(c)
  PROVE  Holds(p, d)
<1>1. PICK a : a = WsClose(c)
  OBVIOUS
<1>2. Holds(p, a) /\ a.cli.readyState = c.cli.readyState /\ a.cli.native # "connecting"
  BY <1>1, WsCloseHolds
<1>3. a \in Conversations /\ a.cli \in Clients
  BY <1>2 DEF Holds, Kept, Conversations
<1>4. CASE c.cli.readyState = "connecting"
  <2>1. PICK u : u = [a.cli EXCEPT !.readyState = "closed", !.id = FALSE]
    OBVIOUS
  <2>2. d = [a EXCEPT !.cli = u]
    BY <1>1, <1>3, <1>4, <2>1 DEF ClientClose, Conversations
  <2>. QED BY <1>2, <1>4, <2>1, <2>2, StateHolds
<1>5. CASE c.cli.readyState = "open"
  <2>1. PICK id \in BOOLEAN : id = a.cli.id
    BY <1>3 DEF Clients
  <2>2. PICK u : u = [a.cli EXCEPT !.readyState = "closing", !.id = id]
    OBVIOUS
  <2>3. u = [a.cli EXCEPT !.readyState = "closing"]
    BY <1>3, <2>1, <2>2 DEF Clients
  <2>4. d = [a EXCEPT !.cli = u]
    BY <1>1, <1>3, <1>5, <2>3 DEF ClientClose, Conversations
  <2>. QED BY <1>2, <1>5, <2>2, <2>4, StateHolds
<1>6. CASE c.cli.readyState \notin {"connecting", "open"}
  <2>1. d = c
    BY <1>6 DEF ClientClose
  <2>. QED BY <2>1
<1>. QED BY <1>4, <1>5, <1>6

\* A revocation.
LEMMA RevokeHolds ==
  ASSUME NEW p, p = "curl", NEW c, Holds(p, c), NEW d, d = Revoke(c)
  PROVE  Holds(p, d)
<1>1. c \in Conversations /\ c.cli \in Clients
  BY DEF Holds, Kept, Conversations
<1>2. ClientOrder(c.cli) /\ Down(c.srv, c.cli, c.net)
  BY DEF Holds, Kept
<1>3. CASE c.cli.native \in {"closed", "gone"}
  BY <1>3 DEF Revoke
<1>4. CASE c.cli.native \notin {"closed", "gone"}
  <2>1. PICK u : u = [c.cli EXCEPT !.native = "closed", !.code = "revoked"]
    OBVIOUS
  <2>2. /\ u \in Clients /\ u.told = c.cli.told /\ u.inbox = c.cli.inbox /\ u.code = "revoked"
        /\ u.native = "closed" /\ u.partial = c.cli.partial /\ u.promise = c.cli.promise
        /\ u.sent = c.cli.sent /\ u.established = c.cli.established
        /\ u.readyState = c.cli.readyState
    BY <1>1, <2>1 DEF Clients, Codes
  <2>3. ClientOrder(u)
    BY <1>1, <1>2, <1>4, <2>2 DEF ClientOrder
  <2>4. Down(c.srv, u, c.net)
    <3>1. Live(c.cli)
      BY <1>1, <1>4 DEF Live, Clients
    <3>2. c.cli.code # "peer"
      BY <1>2, <3>1 DEF Down
    <3>. QED BY <1>2, <1>4, <2>2, <3>2, DownView DEF Live
  <2>5. PICK a : a = [c EXCEPT !.cli = u]
    OBVIOUS
  <2>6. Holds(p, a) /\ a.cli = u /\ a \in Conversations
    <3>1. Holds(p, a)
      BY <2>2, <2>3, <2>4, <2>5, CliHolds
    <3>. QED BY <1>1, <2>2, <2>5, <3>1, CliOf
  <2>7. PICK b : b = Cleanup(a)
    OBVIOUS
  <2>8. Holds(p, b)
    BY <2>2, <2>6, <2>7, CleanupHolds
  <2>9. b.cli = u /\ b \in Conversations
    BY <2>6, <2>7, CleanupFields
  <2>10. d = IF u.promise = "pending" THEN [b EXCEPT !.cli.promise = "rejected"]
             ELSE [b EXCEPT !.cli.error = TRUE]
    BY <1>1, <1>4, <2>1, <2>2, <2>5, <2>7 DEF Revoke, Conversations
  <2>11. ClientOrder(b.cli) /\ Down(b.srv, b.cli, b.net)
    BY <2>8 DEF Holds, Kept
  <2>12. CASE u.promise = "pending"
    <3>1. PICK x : x = [u EXCEPT !.promise = "rejected"]
      OBVIOUS
    <3>2. /\ x \in Clients /\ x.told = u.told /\ x.inbox = u.inbox /\ x.code = u.code
          /\ x.native = u.native /\ x.partial = u.partial /\ x.promise = "rejected"
          /\ x.sent = u.sent /\ x.established = u.established /\ x.readyState = u.readyState
      BY <2>2, <3>1 DEF Clients
    <3>3. ClientOrder(x)
      BY <2>2, <2>3, <2>12, <3>2 DEF ClientOrder
    <3>4. Down(b.srv, x, b.net)
      BY <2>2, <2>9, <2>11, <3>2, DownView DEF Live
    <3>5. d = [b EXCEPT !.cli = x]
      BY <2>9, <2>10, <2>12, <3>1 DEF Conversations
    <3>. QED BY <2>2, <2>8, <2>9, <3>2, <3>3, <3>4, <3>5, CliHolds
  <2>13. CASE u.promise # "pending"
    <3>1. PICK x : x = [u EXCEPT !.error = TRUE]
      OBVIOUS
    <3>2. /\ x \in Clients /\ x.told = u.told /\ x.inbox = u.inbox /\ x.code = u.code
          /\ x.native = u.native /\ x.partial = u.partial /\ x.promise = u.promise
          /\ x.sent = u.sent /\ x.established = u.established /\ x.readyState = u.readyState
      BY <2>2, <3>1 DEF Clients
    <3>3. ClientOrder(x)
      BY <2>2, <2>3, <3>2 DEF ClientOrder
    <3>4. Down(b.srv, x, b.net)
      BY <2>2, <2>9, <2>11, <3>2, DownView DEF Live
    <3>5. d = [b EXCEPT !.cli = x]
      BY <2>9, <2>10, <2>13, <3>1 DEF Conversations
    <3>. QED BY <2>2, <2>8, <2>9, <3>2, <3>3, <3>4, <3>5, CliHolds
  <2>. QED BY <2>12, <2>13
<1>. QED BY <1>3, <1>4

-------------------------------------------------------------------------------
(* Another program, and the network.                                         *)

LEMMA RawHolds ==
  ASSUME NEW p, p = "raw", NEW c, Holds(p, c), NEW m \in Links,
         m.client.in = c.net.client.in \/ m.client.in = <<>>,
         m.server.events = c.net.server.events, m.server.closed = c.net.server.closed,
         NEW d, d = [c EXCEPT !.net = m]
  PROVE  Holds(p, d)
<1>1. c \in Conversations /\ Kept(p, c)
  BY DEF Holds, Kept
<1>2. d \in Conversations /\ d.net = m /\ d.srv = c.srv /\ d.cli = c.cli
  BY <1>1, NetOf
<1>3. ServerOrder(d.srv, d.net.server)
  BY <1>1, <1>2 DEF Kept, ServerOrder, EventsOrdered
<1>4. OneCloseFrame(d.srv, d.net.client.in)
  BY <1>1, <1>2 DEF Kept, OneCloseFrame
<1>. QED BY <1>1, <1>2, <1>3, <1>4 DEF Holds, Kept

LEMMA RawWriteHolds ==
  ASSUME NEW p, p = "raw", NEW c, Holds(p, c), NEW f \in RawFrames,
         NEW d, d = [c EXCEPT !.net = Reaches(@, "client", Units(f))]
  PROVE  Holds(p, d)
<1>1. c \in Conversations /\ c.net \in Links
  BY DEF Holds, Kept, Conversations
<1>2. PICK units \in Seq(UpUnits) : units = Units(f)
  BY UnitsUp DEF UpFrames
<1>3. PICK m : m = Reaches(c.net, "client", units)
  OBVIOUS
<1>4. /\ m \in Links /\ m.client.in = c.net.client.in
      /\ m.server.events = c.net.server.events /\ m.server.closed = c.net.server.closed
  BY <1>1, <1>3, TransmitOf
<1>5. d = [c EXCEPT !.net = m]
  BY <1>1, <1>2, <1>3 DEF Conversations
<1>. QED BY <1>4, <1>5, RawHolds

LEMMA RawCloseHolds ==
  ASSUME NEW p, p = "raw", NEW c, Holds(p, c), NEW d, d = [c EXCEPT !.net = CloseHandle(@, "client")]
  PROVE  Holds(p, d)
<1>1. c \in Conversations /\ c.net \in Links
  BY DEF Holds, Kept, Conversations
<1>2. PICK m : m = CloseHandle(c.net, "client")
  OBVIOUS
<1>3. /\ m \in Links /\ m.client.in = <<>>
      /\ m.server.events = c.net.server.events /\ m.server.closed = c.net.server.closed
  BY <1>1, <1>2, HangUpOf
<1>4. d = [c EXCEPT !.net = m]
  BY <1>1, <1>2 DEF Conversations
<1>. QED BY <1>3, <1>4, RawHolds

LEMMA LostHolds ==
  ASSUME NEW p, p = "curl", NEW c, Holds(p, c),
         NEW d, d = [c EXCEPT !.fault = TRUE, !.net.client.rst = TRUE, !.net.server.rst = TRUE]
  PROVE  Holds(p, d)
<1>1. c \in Conversations /\ c.net \in Links
  BY DEF Holds, Kept, Conversations
<1>2. PICK x, y : x = [c.net.client EXCEPT !.rst = TRUE] /\ y = [c.net.server EXCEPT !.rst = TRUE]
  OBVIOUS
<1>3. /\ x \in Endpoints(DownUnits) /\ x.in = c.net.client.in /\ x.closed = c.net.client.closed
      /\ y \in Endpoints(UpUnits) /\ y.in = c.net.server.in /\ y.closed = c.net.server.closed
      /\ y.events = c.net.server.events /\ y.ended = c.net.server.ended
  BY <1>1, <1>2 DEF Links, Endpoints
<1>4. PICK m : m = [client |-> x, server |-> y]
  OBVIOUS
<1>5. /\ m \in Links /\ m.client = x /\ m.server = y
      /\ Writable(m, "server") = Writable(c.net, "server")
  BY <1>3, <1>4 DEF Links, Writable
<1>6. PICK n1 : n1 = [c.net EXCEPT !.client.rst = TRUE]
  OBVIOUS
<1>7. PICK a : a = [c EXCEPT !.net = m]
  OBVIOUS
<1>8. a \in Conversations /\ a.net = m /\ a.srv = c.srv /\ a.cli = c.cli
  BY <1>1, <1>5, <1>7, NetOf
<1>9. /\ Kept(p, c) /\ ClientOrder(c.cli) /\ Down(c.srv, c.cli, c.net)
      /\ OneCloseFrame(c.srv, c.net.client.in) /\ Up(c.srv, c.cli, c.net.server)
      /\ (c.net.client.closed => c.cli.native \in {"closed", "gone"})
  BY DEF Holds, Kept
<1>10. Down(c.srv, c.cli, m)
  BY <1>3, <1>5, <1>9, DownView
<1>11. Kept(p, a)
  BY <1>3, <1>5, <1>8, <1>9, <1>10, ClientMoves
<1>12. Up(c.srv, c.cli, m.server)
  BY <1>3, <1>5, <1>9, UpClient
<1>13. Holds(p, a)
  BY <1>8, <1>11, <1>12 DEF Holds
<1>14. PICK b : b = [c EXCEPT !.fault = TRUE]
  OBVIOUS
<1>15. d \in Conversations /\ d.net = a.net /\ d.srv = a.srv /\ d.cli = a.cli
  <2>1. b \in Conversations /\ b.net = c.net /\ b.srv = c.srv /\ b.cli = c.cli
    BY <1>1, <1>14 DEF Conversations
  <2>2. n1 = [client |-> x, server |-> c.net.server]
    BY <1>1, <1>2, <1>6 DEF Links
  <2>3. n1 \in Links /\ n1.server = c.net.server
    BY <1>1, <1>3, <2>2 DEF Links
  <2>4. [n1 EXCEPT !.server.rst = TRUE] = m
    <3>1. [n1 EXCEPT !.server.rst = TRUE] = [n1 EXCEPT !.server = y]
      BY <1>2, <2>3 DEF Links
    <3>2. [n1 EXCEPT !.server = y] = m
      BY <1>4, <2>2
    <3>. QED BY <3>1, <3>2
  <2>5. PICK b1 : b1 = [b EXCEPT !.net = n1]
    OBVIOUS
  <2>6. b1 \in Conversations /\ b1.net = n1 /\ b1.srv = c.srv /\ b1.cli = c.cli
    BY <2>1, <2>3, <2>5, NetOf
  <2>7. b1 = [c EXCEPT !.fault = TRUE, !.net.client.rst = TRUE]
    BY <1>1, <1>6, <1>14, <2>1, <2>5 DEF Conversations
  <2>8. d = [b1 EXCEPT !.net.server.rst = TRUE]
    BY <2>7
  <2>9. d = [b1 EXCEPT !.net = m]
    BY <2>4, <2>6, <2>8 DEF Conversations
  <2>10. d \in Conversations /\ d.net = m /\ d.srv = b1.srv /\ d.cli = b1.cli
    BY <1>5, <2>6, <2>9 DEF Conversations
  <2>. QED BY <1>8, <2>6, <2>10
<1>. QED BY <1>13, <1>15, HoldsSame

-------------------------------------------------------------------------------
(* The beginning.                                                            *)

LEMMA StartHolds ==
  /\ Start \in Conversations /\ Kept("raw", Start)
  /\ Start.net = NewLink /\ Start.srv = NewServerSocket /\ Start.cli = NewClientSocket
<1>1. /\ <<>> \in Seq(UpUnits) /\ <<>> \in Seq(Told) /\ <<>> \in Seq(1 .. MaxDown)
      /\ <<>> \in Seq(Seq(Nat)) /\ <<>> \in Seq(Nat) /\ <<>> \in Seq(1 .. MaxUp)
  OBVIOUS
<1>2. NewServerSocket \in Servers
  BY <1>1 DEF NewServerSocket, Servers, Codes
<1>3. NewClientSocket \in Clients
  BY <1>1 DEF NewClientSocket, Clients, Codes
<1>4. NewLink \in Links /\ NewLink.client = Endpoint /\ NewLink.server = Endpoint
  BY NewLinkTyped
<1>5. Start \in Conversations /\ Start.net = NewLink /\ Start.srv = NewServerSocket
      /\ Start.cli = NewClientSocket
  BY <1>2, <1>3, <1>4 DEF Start, Conversations
<1>6. ServerOrder(NewServerSocket, Endpoint)
  BY DEF ServerOrder, EventsOrdered, NewServerSocket, Endpoint
<1>7. OneCloseFrame(NewServerSocket, <<>>)
  BY DEF OneCloseFrame, NewServerSocket
<1>8. Messages(<<>>) = {}
  BY DEF Messages
<1>9. ClientOrder(NewClientSocket)
  BY <1>8 DEF ClientOrder, NewClientSocket
<1>10. Endpoint.in = <<>>
  BY DEF Endpoint
<1>. QED BY <1>4, <1>5, <1>6, <1>7, <1>9, <1>10 DEF Kept

LEMMA ConnectHolds == Holds("curl", Connect(Start))
<1>1. /\ Start \in Conversations /\ Kept("raw", Start)
      /\ Start.net = NewLink /\ Start.srv = NewServerSocket /\ Start.cli = NewClientSocket
  BY StartHolds
<1>2. NewLink \in Links /\ NewLink.client = Endpoint /\ NewLink.server = Endpoint
  BY NewLinkTyped
<1>3. PICK units \in Seq(UpUnits) : units = Units(Frame("upgrade", 0, TRUE))
  BY UnitsUp DEF UpFrames, RawFrames
<1>4. PICK m : m = Reaches(NewLink, "client", units)
  OBVIOUS
<1>5. /\ ~Endpoint.closed /\ Endpoint.in = <<>> /\ Endpoint.events = <<>>
  BY DEF Endpoint
<1>6. /\ m \in Links /\ m.client.in = <<>> /\ ~m.client.closed
      /\ m.server.events = <<>> /\ ~m.server.closed
      /\ m.server.in = <<>> \o units
  <2>1. PICK n \in Links : n = NewLink
    BY <1>2
  <2>2. /\ ~n.server.closed /\ n.server.in = <<>> /\ n.server.events = <<>>
        /\ n.client.in = <<>> /\ ~n.client.closed
    BY <1>2, <1>5, <2>1
  <2>3. m = Reaches(n, "client", units)
    BY <1>4, <2>1
  <2>4. /\ m \in Links /\ m.client.in = n.client.in /\ m.client.closed = n.client.closed
        /\ m.server.events = n.server.events /\ m.server.closed = n.server.closed
        /\ m.server.in = IF n.server.closed THEN n.server.in ELSE n.server.in \o units
    BY <2>3, TransmitOf
  <2>. QED BY <2>2, <2>4
<1>7. m.server.in = units
  BY <1>6
<1>8. PICK d : d = [Start EXCEPT !.net = m]
  OBVIOUS
<1>9. d = Connect(Start)
  BY <1>1, <1>2, <1>3, <1>4, <1>5, <1>8 DEF Connect, Transmit, Conversations
<1>10. d \in Conversations /\ d.net = m /\ d.srv = NewServerSocket /\ d.cli = NewClientSocket
  BY <1>1, <1>6, <1>8, NetOf
<1>11. /\ ServerOrder(NewServerSocket, Endpoint) /\ ClientOrder(NewClientSocket)
       /\ OneCloseFrame(NewServerSocket, <<>>)
  BY <1>1, <1>2, <1>5 DEF Kept
<1>12. ServerOrder(NewServerSocket, m.server)
  BY <1>5, <1>6, <1>11 DEF ServerOrder, EventsOrdered
<1>13. PICK v \in Servers : v = NewServerSocket
  BY <1>1 DEF Conversations
<1>14. PICK u \in Clients : u = NewClientSocket
  BY <1>1 DEF Conversations
<1>15. /\ ~v.ws /\ v.header = <<>> /\ v.recv = <<>> /\ v.told = <<>> /\ v.sent = <<>>
       /\ ~v.closeRcvd /\ ~v.closeSent /\ v.frag = <<>>
  BY <1>13 DEF NewServerSocket
<1>16. /\ u.native = "connecting" /\ u.told = <<>> /\ u.inbox = <<>> /\ u.partial = <<>>
       /\ u.sent = <<>> /\ u.code = "none"
  BY <1>14 DEF NewClientSocket
<1>17. Messages(<<>>) = {} /\ Cardinality({}) = 0 /\ Len(<<>>) = 0
  BY FS_EmptySet DEF Messages
<1>18. AsSent(<<>>, <<>>) /\ ~ToldClose(<<>>, <<"peer">>) /\ ~ToldClose(<<>>, <<"peer", TRUE>>)
  BY <1>17 DEF AsSent, ToldClose
<1>19. Down(v, u, m)
  <2>1. Taken(u) = 0
    <3>1. 0 + 0 = 0
      OBVIOUS
    <3>. QED BY <1>16, <1>17, <3>1 DEF Taken
  <2>2. DownRead(u) = 0
    BY <1>16 DEF DownRead
  <2>3. Follows(<<>>, "101", v.sent, 0)
    BY DEF Follows
  <2>4. DownFrom(v, u, m, 0)
    <3>1. m.client.in = <<>> /\ v.sent = <<>> /\ ~v.ws /\ ~v.closeSent /\ u.partial = <<>>
      BY <1>6, <1>15, <1>16
    <3>2. 0 + Len(<<>>) <= 2 + 2 * Len(<<>>) + 2 /\ 0 + Len(<<>>) <= 2 + 2 * Len(<<>>)
      BY <1>17
    <3>. QED BY <2>2, <2>3, <3>1, <3>2 DEF DownFrom
  <2>5. Live(u) => \E n \in Nat : DownFrom(v, u, m, n)
    BY <2>4
  <2>6. AsSent(u.told, v.sent) /\ ~ToldClose(u.told, <<"peer">>) /\ u.code # "peer" /\ DOMAIN u.inbox = {}
    BY <1>15, <1>16, <1>18
  <2>7. Taken(u) <= Len(v.sent)
    BY <1>15, <1>17, <2>1
  <2>. QED BY <2>5, <2>6, <2>7 DEF Down
<1>20. Up(v, u, m.server)
  <2>1. Queued(m.server) = <<>>
    BY <1>6 DEF Queued
  <2>2. Upstream(v, m.server) = units
    <3>1. <<>> \o <<>> \o <<>> \o units = units
      OBVIOUS
    <3>. QED BY <1>7, <1>15, <2>1, <3>1 DEF Upstream
  <2>3. UpRead(v) = 0
    BY <1>15 DEF UpRead
  <2>4. Len(units) = 2
    BY <1>3 DEF Units
  <2>5. Follows(units, "upgrade", u.sent, 0)
    <3>1. PICK first : first = "upgrade"
      OBVIOUS
    <3>2. Follows(Units(Frame(first, 0, TRUE)), first, u.sent, 0)
      BY FollowsFirst
    <3>. QED BY <1>3, <3>1, <3>2
  <2>6. 2 + 2 * Len(u.sent) = 2 /\ 0 + Len(units) = 2
    BY <1>16, <1>17, <2>4
  <2>7. AsSent(v.told, u.sent) /\ ~ToldClose(v.told, <<"peer", TRUE>>)
    BY <1>15, <1>16, <1>18
  <2>8. PICK n, left, all : n = 0 /\ left = Len(units) /\ all = 2 + 2 * Len(u.sent)
    OBVIOUS
  <2>9. n + left = 2 /\ all = 2
    BY <2>6, <2>8
  <2>10. n + left <= all + 2 /\ n + left <= all /\ n + left >= all
    BY ONLY <2>9
  <2>. QED BY <1>15, <2>2, <2>3, <2>5, <2>7, <2>8, <2>10 DEF Up
<1>21. Kept("curl", d)
  BY <1>6, <1>10, <1>11, <1>12, <1>13, <1>14, <1>19 DEF Kept
<1>. QED BY <1>9, <1>10, <1>13, <1>14, <1>20, <1>21 DEF Holds

-------------------------------------------------------------------------------
(* The invariant of the specification.                                       *)

IInv == /\ peer \in {"curl", "raw"}
        /\ sends \in [client : Nat, server : Nat]
        /\ Holds(peer, w)

LEMMA InitInv == Init => IInv
<1>. SUFFICES ASSUME Init PROVE IInv
  OBVIOUS
<1>1. sends \in [client : Nat, server : Nat]
  BY DEF Init
<1>2. CASE peer = "curl"
  BY <1>1, <1>2, ConnectHolds DEF Init, IInv
<1>3. CASE peer = "raw"
  BY <1>1, <1>3, StartHolds DEF Init, IInv, Holds
<1>. QED BY <1>2, <1>3 DEF Init

LEMMA SendsTyped ==
  ASSUME sends \in [client : Nat, server : Nat], [Next]_vars
  PROVE  sends' \in [client : Nat, server : Nat]
<1>1. \A side \in {"client", "server"} : \A max : Counted(side, max) =>
         sends' \in [client : Nat, server : Nat]
  BY DEF Counted
<1>2. Uncounted => sends' = sends
  BY DEF Uncounted
<1>3. CASE ServerNext
  BY <1>1, <1>2, <1>3 DEF ServerNext, ServerTick, ServerDrain, ServerFeeds, ServerFails,
     CloseTimerFires, ServerSends, ServerCloses, ServerShutsDown
<1>4. CASE ClientNext
  BY <1>1, <1>2, <1>4 DEF ClientNext, ClientPerforms, ClientDrains, ClientBeginsPoll, ClientPolls,
     ClientEndsPoll, ClientReaps, ClientReacts, ClientSends, ClientCloses, ClientRevoked
<1>5. CASE RawWrites \/ RawCloses \/ ConnectionLost
  BY <1>1, <1>2, <1>5 DEF RawWrites, RawCloses, ConnectionLost
<1>. QED BY <1>3, <1>4, <1>5 DEF Next, vars

LEMMA ServerStep ==
  ASSUME IInv, ServerNext
  PROVE  peer' = peer /\ Holds(peer, w')
<1>. SUFFICES peer' = peer /\ Kept(peer, w') /\ (peer = "curl" => Up(w'.srv, w'.cli, w'.net.server))
  BY DEF Holds
<1>0. PICK p, c, d : p = peer /\ c = w /\ d = w'
  OBVIOUS
<1>1. Kept(p, c) /\ (p = "curl" => Up(c.srv, c.cli, c.net.server)) /\ p \in {"curl", "raw"}
  BY <1>0 DEF IInv, Holds
<1>2. c \in Conversations
  BY <1>1 DEF Kept
<1>3. CASE ServerTick
  <2>1. peer' = peer /\ CanRead(c.net, "server")
        /\ \E m \in Ticked(c.net, "server") : d = [c EXCEPT !.net = m]
    BY <1>0, <1>3 DEF ServerTick, Becomes
  <2>2. PICK m \in Ticked(c.net, "server") : d = [c EXCEPT !.net = m]
    BY <2>1
  <2>3. Kept(p, d) /\ d.cli = c.cli /\ (p = "curl" => Up(d.srv, d.cli, d.net.server))
    BY <1>1, <2>1, <2>2, TickKept
  <2>. QED BY <1>0, <2>1, <2>3
<1>4. CASE ServerDrain
  <2>1. peer' = peer /\ ~c.srv.feeding /\ ~c.srv.failing /\ c.net.server.events # <<>>
        /\ d = OnServerEvent([c EXCEPT !.net = TakeEvent(@, "server")], Head(c.net.server.events))
    BY <1>0, <1>4 DEF ServerDrain, ServerIdle, Becomes
  <2>. QED BY <1>0, <1>1, <2>1, DrainKept
<1>5. CASE ServerFeeds
  <2>1. peer' = peer /\ c.srv.feeding /\ d = FeedStep(c)
    BY <1>0, <1>5 DEF ServerFeeds, Becomes
  <2>2. CASE p = "curl"
    BY <1>0, <1>1, <2>1, <2>2, FeedStepUp
  <2>3. CASE p = "raw"
    BY <1>0, <1>1, <2>1, <2>3, FeedStepKept
  <2>. QED BY <1>1, <2>2, <2>3
<1>6. CASE CloseTimerFires
  <2>1. peer' = peer /\ c.srv.timer /\ d = CloseTimeout(c)
    BY <1>0, <1>6 DEF CloseTimerFires, Becomes
  <2>. QED BY <1>0, <1>1, <2>1, TimeoutKept
<1>7. CASE ServerSends
  <2>1. /\ peer' = peer /\ c.srv.readyState = "open"
        /\ d = ServerSend(c, sends.server + 1)
    BY <1>0, <1>7 DEF ServerSends, Becomes
  <2>2. sends.server + 1 \in 1 .. MaxDown
    BY <1>7, WebSocketAssumption DEF ServerSends, Counted, IInv
  <2>. QED BY <1>0, <1>1, <2>1, <2>2, ServerSendKept
<1>8. CASE ServerCloses
  <2>1. peer' = peer /\ c.srv.readyState = "open" /\ d = StartClose(c, "own")
    BY <1>0, <1>8 DEF ServerCloses, Becomes, ServerClose
  <2>. QED BY <1>0, <1>1, <2>1, StartCloseKept
<1>9. CASE ServerShutsDown
  <2>1. peer' = peer /\ (d = c \/ (c.srv.readyState = "open" /\ d = StartClose(c, "own")))
    BY <1>0, <1>9 DEF ServerShutsDown, Becomes, CloseServer, ServerClose
  <2>. QED BY <1>0, <1>1, <2>1, StartCloseKept
<1>10. CASE ServerFails
  <2>1. peer' = peer /\ c.srv.failing /\ d = AfterError(c)
    BY <1>0, <1>10 DEF ServerFails, Becomes
  <2>. QED BY <1>0, <1>1, <2>1, AfterErrorKept
<1>. QED BY <1>3, <1>4, <1>5, <1>6, <1>7, <1>8, <1>9, <1>10 DEF ServerNext

LEMMA ClientIsCurl ==
  ASSUME IInv, ClientNext
  PROVE  peer = "curl" /\ Holds(peer, w) /\ peer' = peer
BY DEF IInv, ClientNext, ClientPerforms, ClientDrains, ClientBeginsPoll, ClientPolls,
   ClientEndsPoll, ClientReaps, ClientReacts, ClientSends, ClientCloses, ClientRevoked,
   ClientRuns, At, Becomes

LEMMA ClientStep ==
  ASSUME IInv, ClientNext
  PROVE  peer' = peer /\ Holds(peer, w')
<1>0. PICK p, c, d : p = peer /\ c = w /\ d = w'
  OBVIOUS
<1>1. p = "curl" /\ Holds(p, c) /\ peer' = peer
  BY <1>0, ClientIsCurl
<1>. SUFFICES Holds(p, d)
  BY <1>0, <1>1
<1>2. c \in Conversations
  BY <1>1 DEF Holds, Kept
<1>3. CASE ClientPerforms
  <2>1. PICK next \in Performed(c) : d = Goto(next, "drain")
    BY <1>0, <1>3 DEF ClientPerforms, Becomes
  <2>2. Holds(p, next)
    BY <1>1, PerformHolds
  <2>. QED BY <1>1, <2>1, <2>2, GotoHolds
<1>4. CASE ClientDrains
  <2>1. HasEvent(c) /\ d = WsRecv(c)
    BY <1>0, <1>4 DEF ClientDrains, Becomes
  <2>. QED BY <1>1, <2>1, WsRecvHolds
<1>5. CASE ClientBeginsPoll
  <2>1. d = Goto(c, "poll") \/ d = Goto(c, "drain again")
    BY <1>0, <1>5 DEF ClientBeginsPoll, Becomes
  <2>. QED BY <1>1, <2>1, GotoHolds
<1>6. CASE ClientPolls
  <2>1. Polls(c) /\ d \in Polled(c)
    BY <1>0, <1>6 DEF ClientPolls, Becomes
  <2>. QED BY <1>1, <2>1, PollHolds
<1>7. CASE ClientEndsPoll
  <2>1. d = Goto(c, "drain again")
    BY <1>0, <1>7 DEF ClientEndsPoll, Becomes
  <2>. QED BY <1>1, <2>1, GotoHolds
<1>8. CASE ClientReaps
  <2>1. PICK next : next = Reap(c)
    OBVIOUS
  <2>2. d = Goto(next, "idle")
    BY <1>0, <1>8, <2>1 DEF ClientReaps, Becomes
  <2>3. Holds(p, next)
    BY <1>1, <2>1, ReapHolds
  <2>. QED BY <1>1, <2>2, <2>3, GotoHolds
<1>9. CASE ClientReacts
  <2>1. c.cli.promise \in {"resolved", "rejected"} /\ d = Reaction(c)
    BY <1>0, <1>9 DEF ClientReacts, Reacting, Becomes
  <2>. QED BY <1>1, <2>1, ReactionHolds
<1>10. CASE ClientSends
  <2>1. c.cli.readyState = "open" /\ d = ClientSend(c, sends.client + 1)
    BY <1>0, <1>10 DEF ClientSends, Becomes
  <2>2. sends.client + 1 \in 1 .. MaxUp
    BY <1>10, WebSocketAssumption DEF ClientSends, Counted, IInv
  <2>. QED BY <1>1, <2>1, <2>2, ClientSendHolds
<1>11. CASE ClientCloses
  <2>1. d = ClientClose(c)
    BY <1>0, <1>11 DEF ClientCloses, Becomes
  <2>. QED BY <1>1, <2>1, ClientCloseHolds
<1>12. CASE ClientRevoked
  <2>1. PICK a : a = [c EXCEPT !.fault = TRUE]
    OBVIOUS
  <2>2. d = Revoke(a)
    BY <1>0, <1>12, <2>1 DEF ClientRevoked, Becomes
  <2>3. a \in Conversations /\ a.net = c.net /\ a.srv = c.srv /\ a.cli = c.cli
    BY <1>2, <2>1 DEF Conversations
  <2>4. Holds(p, a)
    BY <1>1, <2>3, HoldsSame
  <2>. QED BY <1>1, <2>2, <2>4, RevokeHolds
<1>. QED BY <1>3, <1>4, <1>5, <1>6, <1>7, <1>8, <1>9, <1>10, <1>11, <1>12 DEF ClientNext

LEMMA OtherStep ==
  ASSUME IInv, RawWrites \/ RawCloses \/ ConnectionLost
  PROVE  peer' = peer /\ Holds(peer, w')
<1>0. PICK p, c, d : p = peer /\ c = w /\ d = w'
  OBVIOUS
<1>1. Holds(p, c)
  BY <1>0 DEF IInv
<1>2. CASE RawWrites
  <2>1. /\ peer' = peer /\ p = "raw"
        /\ \E f \in RawFrames : d = [c EXCEPT !.net = Reaches(@, "client", Units(f))]
    BY <1>0, <1>2 DEF RawWrites, Becomes
  <2>. QED BY <1>0, <1>1, <2>1, RawWriteHolds
<1>3. CASE RawCloses
  <2>1. peer' = peer /\ p = "raw" /\ d = [c EXCEPT !.net = CloseHandle(@, "client")]
    BY <1>0, <1>3 DEF RawCloses, Becomes
  <2>. QED BY <1>0, <1>1, <2>1, RawCloseHolds
<1>4. CASE ConnectionLost
  <2>1. /\ peer' = peer /\ p = "curl"
        /\ d = [c EXCEPT !.fault = TRUE, !.net.client.rst = TRUE, !.net.server.rst = TRUE]
    BY <1>0, <1>4 DEF ConnectionLost, Becomes
  <2>. QED BY <1>0, <1>1, <2>1, LostHolds
<1>. QED BY <1>2, <1>3, <1>4

LEMMA StepInv == IInv /\ [Next]_vars => IInv'
<1>. SUFFICES ASSUME IInv, [Next]_vars PROVE IInv'
  OBVIOUS
<1>1. sends' \in [client : Nat, server : Nat]
  BY SendsTyped DEF IInv
<1>2. peer' = peer /\ Holds(peer, w')
  <2>1. CASE ServerNext
    BY <2>1, ServerStep
  <2>2. CASE ClientNext
    BY <2>2, ClientStep
  <2>3. CASE RawWrites \/ RawCloses \/ ConnectionLost
    BY <2>3, OtherStep
  <2>4. CASE UNCHANGED vars
    BY <2>4 DEF vars, IInv
  <2>. QED BY <2>1, <2>2, <2>3, <2>4 DEF Next
<1>3. Holds(peer', w')
  BY <1>2
<1>. QED BY <1>1, <1>2, <1>3 DEF IInv

\* Every conversation keeps the order of its events, of its streams and of its
\* close frame: whatever the two threads, their programs and the network do.
THEOREM Invariance == Spec => []IInv
<1>. QED BY InitInv, StepInv, PTL DEF Spec

-------------------------------------------------------------------------------
(* What follows from it.                                                     *)

LEMMA OnceAtMost ==
  ASSUME NEW told, NEW type,
         \A i, j \in DOMAIN told : told[i].type = type /\ told[j].type = type => i = j
  PROVE  Times(told, type) <= 1
<1>1. PICK S : S = {i \in DOMAIN told : told[i].type = type}
  OBVIOUS
<1>2. CASE S = {}
  BY <1>1, <1>2, FS_EmptySet DEF Times
<1>3. CASE S # {}
  <2>1. PICK i : i \in S
    BY <1>3
  <2>2. S = {i}
    BY <1>1, <2>1
  <2>3. Cardinality({i}) = 1
    BY FS_Singleton
  <2>. QED BY <1>1, <2>2, <2>3 DEF Times
<1>. QED BY <1>2, <1>3

\* 'close' is the last event of either end, and a WebSocket whose handshake was
\* answered tells one opening at most (websocket.js: the tick's drain against the
\* reaction of the promise; websocket_server.js: the end of the connection).
THEOREM CloseIsLast == Spec => []ClosedForGood
<1>1. IInv => ClosedForGood
  <2>. SUFFICES ASSUME IInv PROVE ClosedForGood
    OBVIOUS
  <2>1. ServerOrder(w.srv, w.net.server) /\ ClientOrder(w.cli)
    BY DEF IInv, Holds, Kept
  <2>2. IsLast(w.srv.told, "close")
    BY <2>1 DEF ServerOrder, IsLast
  <2>3. w.cli.established => IsLast(w.cli.told, "close")
    BY <2>1 DEF ClientOrder, IsLast
  <2>4. w.cli.established => Times(w.cli.told, "open") <= 1
    <3>. SUFFICES ASSUME w.cli.established PROVE Times(w.cli.told, "open") <= 1
      OBVIOUS
    <3>1. PICK told, type : told = w.cli.told /\ type = "open"
      OBVIOUS
    <3>2. \A i, j \in DOMAIN told : told[i].type = type /\ told[j].type = type => i = j
      BY <2>1, <3>1 DEF ClientOrder
    <3>3. Times(told, type) <= 1
      BY ONLY <3>2, OnceAtMost
    <3>. QED BY <3>1, <3>3
  <2>. QED BY <2>2, <2>3, <2>4 DEF ClosedForGood
<1>. QED BY <1>1, Invariance, PTL

\* The server writes nothing after its close frame (websocket_server.js: send()
\* and the pongs look at readyState, every other way to a close frame at _closeSent).
THEOREM OneCloseFrameEach == Spec => []CloseFrameLast
<1>1. IInv => CloseFrameLast
  BY DEF IInv, Holds, Kept, OneCloseFrame, CloseFrameLast
<1>. QED BY <1>1, Invariance, PTL

\* Messages are told as they were sent, whole and in order, and all of them before
\* the peer's close is: _feed and the client's receive loop put together what the
\* network cut, and the client hands out its inbox before it sweeps the connection.
THEOREM MessagesArriveWhole == Spec => []NothingLost
<1>1. IInv => NothingLost
  <2>. SUFFICES ASSUME IInv PROVE NothingLost
    OBVIOUS
  <2>1. /\ w \in Conversations /\ ServerOrder(w.srv, w.net.server)
        /\ peer = "curl" => Down(w.srv, w.cli, w.net) /\ Up(w.srv, w.cli, w.net.server)
    BY DEF IInv, Holds, Kept
  <2>2. \A i \in Messages(w.srv.told) : w.srv.told[i].data \in Whole
    BY <2>1 DEF ServerOrder, Messages
  <2>3. ASSUME peer = "curl"
        PROVE  /\ AsSent(w.srv.told, w.cli.sent) /\ AsSent(w.cli.told, w.srv.sent)
               /\ ToldClose(w.srv.told, <<"peer", TRUE>>) =>
                     Cardinality(Messages(w.srv.told)) = Len(w.cli.sent)
    BY <2>1, <2>3 DEF Down, Up, Served
  <2>4. ASSUME peer = "curl", ToldClose(w.cli.told, <<"peer">>)
        PROVE  Cardinality(Messages(w.cli.told)) = Len(w.srv.sent)
    <3>1. w.cli.inbox = <<>> /\ Taken(w.cli) = Len(w.srv.sent)
      BY <2>1, <2>4 DEF Down
    <3>2. Len(<<>>) = 0
      OBVIOUS
    <3>3. Cardinality(Messages(w.cli.told)) \in Nat
      BY <2>1, ClientFields, MessagesFinite DEF Conversations
    <3>4. PICK k \in Nat : k = Cardinality(Messages(w.cli.told))
      BY <3>3
    <3>5. k + 0 = k
      OBVIOUS
    <3>. QED BY <3>1, <3>2, <3>4, <3>5 DEF Taken
  <2>. QED BY <2>2, <2>3, <2>4 DEF NothingLost, Whole
<1>. QED BY <1>1, Invariance, PTL

===============================================================================
