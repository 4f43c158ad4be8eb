------------------------------ MODULE WebSocketLink ----------------------------
(***************************************************************************)
(* A WebSocketServer and one peer over a TCP connection: a WebSocket of    *)
(* the same library, or any program that writes frames to a socket.  The   *)
(* two run on threads of their own.  The programs of both sides call       *)
(* send() and close() between the ticks and in listeners; a host may take  *)
(* the client's grant back; the connection may be lost.                    *)
(***************************************************************************)
EXTENDS WsClient, FiniteSets

CONSTANTS MaxUp,    \* bound: messages of the WebSocket
          MaxDown,  \* bound: messages of the server
          MaxFrames \* bound: frames a peer that is no WebSocket writes

ASSUME WebSocketAssumption == {MaxUp, MaxDown, MaxFrames} \subseteq Nat \ {0}

VARIABLES peer, \* "curl": a WebSocket of this library; "raw": another program
          w,    \* the conversation
          sends \* messages of each side, frames of a raw peer

vars == <<peer, w, sends>>

Start == [net |-> NewLink, srv |-> NewServerSocket, cli |-> NewClientSocket,
          clients |-> FALSE, fault |-> FALSE]

Init == /\ peer \in {"curl", "raw"}
        /\ w = IF peer = "curl" THEN Connect(Start) ELSE Start
        /\ sends = [client |-> 0, server |-> 0]

\* A bound on what a side sends.
Counted(side, max) == /\ sends[side] < max
                      /\ sends' = [sends EXCEPT ![side] = @ + 1]

Becomes(next) == w' = next /\ w # next /\ UNCHANGED peer
Uncounted == UNCHANGED sends

-------------------------------------------------------------------------------
(* The server's thread. *)

\* The drain hands out one event; _feed runs to its end before the next.
ServerIdle == ~w.srv.feeding /\ ~w.srv.failing

ServerTick == /\ ServerIdle /\ CanRead(w.net, "server")
              /\ \E net \in Ticked(w.net, "server") : Becomes([w EXCEPT !.net = net])
              /\ Uncounted

ServerDrain == /\ ServerIdle /\ w.net.server.events # <<>>
               /\ Becomes(OnServerEvent([w EXCEPT !.net = TakeEvent(@, "server")],
                                        Head(w.net.server.events)))
               /\ Uncounted

ServerFeeds == /\ w.srv.feeding /\ ~w.srv.failing
               /\ Becomes(FeedStep(w))
               /\ Uncounted

ServerFails == /\ w.srv.failing
               /\ Becomes(AfterError(w))
               /\ Uncounted

CloseTimerFires == /\ w.srv.timer /\ ServerIdle
                   /\ Becomes(CloseTimeout(w))
                   /\ Uncounted

\* What the program calls between the ticks and in the listeners, those of 'error'
\* among them.
ServerSends == /\ w.srv.readyState = "open"
               /\ Counted("server", MaxDown)
               /\ Becomes(ServerSend(w, sends.server + 1))

ServerCloses == /\ w.srv.readyState = "open"
                /\ Becomes(ServerClose(w, "own"))
                /\ Uncounted

ServerShutsDown == /\ Becomes(CloseServer(w))
                   /\ Uncounted

-------------------------------------------------------------------------------
(* The client's thread: a tick is perform, drain, poll, drain, reap. *)

At(pc) == peer = "curl" /\ w.cli.pc = pc
Goto(next, pc) == [next EXCEPT !.cli.pc = pc]
Reacting == w.cli.promise \in {"resolved", "rejected"}

ClientPerforms == /\ At("idle") /\ ~Reacting /\ HasPending(w)
                  /\ \E next \in Performed(w) : Becomes(Goto(next, "drain"))
                  /\ Uncounted

ClientDrains == /\ At("drain") \/ At("drain again")
                /\ HasEvent(w)
                /\ Becomes(WsRecv(w))
                /\ Uncounted

ClientBeginsPoll == /\ At("drain") /\ ~HasEvent(w)
                    /\ Becomes(Goto(w, IF Polls(w) THEN "poll" ELSE "drain again"))
                    /\ Uncounted

ClientPolls == /\ At("poll") /\ Polls(w)
               /\ \E next \in Polled(w) : Becomes(next)
               /\ Uncounted

\* Closed, ten rounds, or what is on its way has not come.
ClientEndsPoll == /\ At("poll")
                  /\ Becomes(Goto(w, "drain again"))
                  /\ Uncounted

ClientReaps == /\ At("drain again") /\ ~HasEvent(w)
               /\ Becomes(Goto(Reap(w), "idle"))
               /\ Uncounted

ClientReacts == /\ At("idle") /\ Reacting
                /\ Becomes(Reaction(w))
                /\ Uncounted

\* Its program runs between the ticks and in the listeners the drains call.
ClientRuns == \/ At("idle") /\ ~Reacting
              \/ At("drain") \/ At("drain again")

ClientSends == /\ ClientRuns /\ w.cli.readyState = "open"
               /\ Counted("client", MaxUp)
               /\ Becomes(ClientSend(w, sends.client + 1))

ClientCloses == /\ ClientRuns
                /\ Becomes(ClientClose(w))
                /\ Uncounted

\* A revocation or a loss of the connection: one of them, once.
ClientRevoked == /\ At("idle") /\ ~Reacting /\ ~w.fault
                 /\ Becomes(Revoke([w EXCEPT !.fault = TRUE]))
                 /\ Uncounted

-------------------------------------------------------------------------------
(* Another program, which writes what it likes and does not read; the network. *)

RawFrames == {Frame("upgrade", 0, TRUE),
              Frame("data", 0, TRUE), Frame("data", 1, TRUE), Frame("data", 1, FALSE),
              Frame("cont", 2, TRUE), Frame("ping", 0, TRUE), Frame("ping", 0, FALSE),
              Frame("close", 0, TRUE), Frame("close1", 0, TRUE),
              Frame("unmasked", 0, TRUE), Frame("huge", 0, TRUE), Frame("unknown", 0, TRUE)}

RawWrites == /\ peer = "raw" /\ ~w.net.client.closed
             /\ Counted("client", MaxFrames)
             /\ \E f \in RawFrames : Becomes([w EXCEPT !.net = Reaches(@, "client", Units(f))])

RawCloses == /\ peer = "raw" /\ ~w.net.client.closed
             /\ Becomes([w EXCEPT !.net = CloseHandle(@, "client")])
             /\ Uncounted

ConnectionLost == /\ peer = "curl" /\ ~w.fault
                  /\ Becomes([w EXCEPT !.fault = TRUE, !.net.client.rst = TRUE,
                                       !.net.server.rst = TRUE])
                  /\ Uncounted

ServerNext == \/ ServerTick \/ ServerDrain \/ ServerFeeds \/ ServerFails
              \/ CloseTimerFires
              \/ ServerSends \/ ServerCloses \/ ServerShutsDown
ClientNext == \/ ClientPerforms \/ ClientDrains \/ ClientBeginsPoll \/ ClientPolls
              \/ ClientEndsPoll \/ ClientReaps \/ ClientReacts
              \/ ClientSends \/ ClientCloses \/ ClientRevoked

Next == ServerNext \/ ClientNext \/ RawWrites \/ RawCloses \/ ConnectionLost

\* Each thread ticks until there is nothing left for it: what has come is read and
\* told, curl's connects and the close timer run out.
ServerQuiet ==
  /\ ServerIdle /\ ~w.srv.timer /\ w.net.server.events = <<>>
  /\ LET s == w.net.server IN s.closed \/ (s.in = <<>> /\ ~s.fin /\ ~s.rst)

ClientQuiet ==
  \/ peer = "raw"
  \/ /\ w.cli.pc = "idle" /\ ~Reacting /\ ~HasEvent(w)
     /\ w.cli.native # "connecting" /\ Reap(w) = w
     /\ w.cli.native \in {"open", "closing"} =>
          LET c == w.net.client IN c.in = <<>> /\ ~c.fin /\ ~c.rst

Spec == Init /\ [][Next]_vars /\ []<>ServerQuiet /\ []<>ClientQuiet

-------------------------------------------------------------------------------
(* Properties. *)

IsLast(told, type) == \A i \in DOMAIN told : told[i].type = type => i = Len(told)
Times(told, type) == Cardinality({i \in DOMAIN told : told[i].type = type})
\* Which message told[i] is: the first, the second, ...
Number(told, i) == Cardinality({j \in 1 .. i : told[j].type = "message"})
Messages(told) == {i \in DOMAIN told : told[i].type = "message"}
AsSent(told, sent) == \A i \in Messages(told) : /\ Number(told, i) \in DOMAIN sent
                                                /\ told[i].data = <<sent[Number(told, i)]>>
ToldClose(told, data) == \E i \in DOMAIN told : told[i] = ServerEvent("close", data)

\* 'close' is the last event of either end, and a WebSocket that reached its
\* server opens once at most and never after it has closed: the promise of its
\* opening has its reaction after the tick that may bring the close as well.
ClosedForGood ==
  /\ IsLast(w.srv.told, "close")
  /\ w.cli.established => /\ IsLast(w.cli.told, "close")
                          /\ Times(w.cli.told, "open") <= 1

\* A message is told as it was sent, whole, in order, whatever the chunks and the
\* fragments it came in; and who is told that the other side closed has been told
\* every message before that.
NothingLost ==
  /\ \A i \in Messages(w.srv.told) :
        w.srv.told[i].data \in {<<n>> : n \in 1 .. MaxUp} \union {<<1, 2>>}
  /\ peer = "curl" =>
        /\ AsSent(w.srv.told, w.cli.sent)
        /\ AsSent(w.cli.told, w.srv.sent)
        /\ ToldClose(w.srv.told, <<"peer", TRUE>>) =>
              Cardinality(Messages(w.srv.told)) = Len(w.cli.sent)
        /\ ToldClose(w.cli.told, <<"peer">>) =>
              Cardinality(Messages(w.cli.told)) = Len(w.srv.sent)

\* The server's close frame is the last it sends: whoever closes first, and
\* however often the connection fails after that.
CloseFrameLast ==
  LET wire == w.net.client.in
  IN  \A i \in DOMAIN wire : wire[i].frame.op = "close" => i >= Len(wire) - 1

\* Closed by its WebSocket between the opening and its promise's reaction, with
\* messages that nobody will take: it is never swept, and keeps its socket.
Orphan == ~w.cli.id /\ w.cli.native # "gone" /\ w.cli.inbox # <<>>

\* What is being closed does close, by the peer's answer or the timer: what the
\* program of the server closes whoever the peer is, unless the peer's close frame
\* has come before and was no good (then nothing but the peer's end is waited for,
\* without a timer); between two ends of this library, what either of them closes.
ClosesSettle ==
  /\ (w.srv.initiated /\ ~w.srv.closeRcvd) ~> (w.srv.readyState = "closed")
  /\ (w.cli.readyState = "closing") ~> (w.cli.readyState = "closed")
  /\ (peer = "curl" /\ w.srv.readyState = "closing") ~> (w.srv.readyState = "closed" \/ Orphan)

\* websocket.cpp:531, "Reap orphaned closed connections": whose WebSocket asks no more.
\* One that stops asking early is never reaped: no run checks this.
OrphansReaped == (~w.cli.id) ~> (w.cli.native = "gone")

===============================================================================
