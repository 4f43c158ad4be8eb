---------------------------- MODULE NetSocket_proof ----------------------------
(***************************************************************************)
(* Proofs about NetSocket, for any number of handles, reads of a tick,     *)
(* chunks and bytes: what a wrapper is told is the history of a socket,    *)
(* and a close leaves nothing behind.                                      *)
(*                                                                         *)
(* What a wrapper was told and what its handle's queue still holds are one *)
(* sequence, which the drain only cuts elsewhere: it is legal as a whole,  *)
(* and the handle's flags say what may still be appended to it.            *)
(***************************************************************************)
EXTENDS NetSocket, SequenceTheorems, TLAPS

Events == [type : {"accept", "connect", "data", "end", "error", "close"}, n : Nat]

Records == [kind : {"none", "listener", "conn", "udp"}, held : BOOLEAN,
            connecting : BOOLEAN, peerEof : BOOLEAN, endRequested : BOOLEAN,
            wroteShutdown : BOOLEAN, closed : BOOLEAN, outBuf : Nat, sent : Nat,
            got : Nat, events : Seq(Events), closedSweeps : Nat]

Has(s, e) == \E j \in 1 .. Len(s) : s[j] = e

\* What LegalHistory says of one sequence.
Legal(s) == \A j \in 1 .. Len(s) :
              /\ s[j] = Connect => j = 1
              /\ s[j].type = "data" => s[j].n = 1 \/ \E k \in 1 .. j - 1 : s[k] = Data(s[j].n - 1)
              /\ s[j] = End => \A k \in j + 1 .. Len(s) : s[k].type \in {"error", "close"}
              /\ s[j] = Error => \A k \in j + 1 .. Len(s) : s[k] = CloseWithError
              /\ s[j] = CloseWithError => j > 1 /\ s[j - 1] = Error
              /\ s[j] \in Closes => j = Len(s)

Unfinished(s) == ~Has(s, Error) /\ ~Has(s, Close) /\ ~Has(s, CloseWithError)

\* The flags of a handle h against s, all that was ever queued.
Linked(h, s) == /\ Legal(s)
                /\ h.connecting => h.kind = "conn" /\ ~h.peerEof /\ (~h.closed => s = <<>>)
                /\ h.peerEof => h.kind = "conn"
                /\ Has(s, End) => h.peerEof
                /\ \A k \in 1 .. h.got : Has(s, Data(k))
                /\ ~h.closed => Unfinished(s)

Typed == /\ nextId \in 1 .. MaxHandles + 1
         /\ live \subseteq 1 .. nextId - 1
         /\ todo \subseteq 1 .. nextId - 1
         /\ accepted \in Seq(1 .. nextId - 1)
         /\ handle \in [Handles -> Records]
         /\ told \in [Handles -> Seq(Events)]

\* The pump is at a handle that is open, and no listener runs meanwhile.
Pumping == /\ handling => pc = "drain"
           /\ pc \in {"recv", "flush"} => cur \in 1 .. nextId - 1 /\ ~handle[cur].closed

Fresh == \A i \in Handles : i >= nextId => told[i] = <<>>

Histories == \A i \in Handles : Linked(handle[i], told[i] \o handle[i].events)

SocketInv == Typed /\ Pumping /\ Fresh /\ Histories

-------------------------------------------------------------------------------
(* Sequences of events. *)

LEMMA EventsDiffer ==
  /\ Connect \in Events /\ End \in Events /\ Error \in Events
  /\ Close \in Events /\ CloseWithError \in Events
  /\ \A k \in Nat : Data(k) \in Events /\ Accept(k) \in Events
  /\ \A k \in Nat : /\ Data(k).type = "data" /\ Data(k).n = k
                    /\ Accept(k).type = "accept" /\ Accept(k).n = k
  /\ Connect.type = "connect" /\ End.type = "end" /\ Error.type = "error"
  /\ Close.type = "close" /\ CloseWithError.type = "close" /\ Close # CloseWithError
<1> QED BY DEF Events, Connect, End, Error, Close, CloseWithError, Data, Accept, Event

LEMMA EventsTyped == Connect \in Events /\ End \in Events /\ Error \in Events
                     /\ Close \in Events /\ CloseWithError \in Events
<1> QED BY EventsDiffer

\* One more event.
LEMMA LegalAppend ==
  ASSUME NEW s \in Seq(Events), NEW e \in Events, Legal(s),
         ~Has(s, Close), ~Has(s, CloseWithError),
         Has(s, Error) => e = CloseWithError,
         e = Connect => s = <<>>,
         e.type = "data" => e.n = 1 \/ Has(s, Data(e.n - 1)),
         Has(s, End) => e.type \in {"error", "close"},
         e = CloseWithError => s # <<>> /\ s[Len(s)] = Error
  PROVE  Legal(Append(s, e))
<1>1. PICK g : g = Append(s, e)
  OBVIOUS
<1>2. /\ Len(g) = Len(s) + 1 /\ Len(s) \in Nat
      /\ g[Len(g)] = e
      /\ \A j \in 1 .. Len(s) : g[j] = s[j]
  BY <1>1
<1>3. s = <<>> <=> Len(s) = 0
  OBVIOUS
<1>4. ASSUME NEW j \in 1 .. Len(s)
      PROVE  /\ g[j] = Connect => j = 1
             /\ g[j].type = "data" => g[j].n = 1 \/ \E k \in 1 .. j - 1 : g[k] = Data(g[j].n - 1)
             /\ g[j] = End => \A k \in j + 1 .. Len(g) : g[k].type \in {"error", "close"}
             /\ g[j] = Error => \A k \in j + 1 .. Len(g) : g[k] = CloseWithError
             /\ g[j] = CloseWithError => j > 1 /\ g[j - 1] = Error
             /\ g[j] \in Closes => j = Len(g)
  <2>1. g[j] = s[j]
    BY <1>2
  <2>2. /\ s[j] = Connect => j = 1
        /\ s[j].type = "data" => s[j].n = 1 \/ \E k \in 1 .. j - 1 : s[k] = Data(s[j].n - 1)
        /\ s[j] = End => \A k \in j + 1 .. Len(s) : s[k].type \in {"error", "close"}
        /\ s[j] = Error => \A k \in j + 1 .. Len(s) : s[k] = CloseWithError
    BY DEF Legal
  <2>3. \A k \in 1 .. j - 1 : g[k] = s[k]
    BY <1>2
  <2>4. s[j] \notin Closes
    BY DEF Has, Closes
  <2>5. \A k \in j + 1 .. Len(g) : (k \in j + 1 .. Len(s) /\ g[k] = s[k]) \/ g[k] = e
    BY <1>2
  <2>6. s[j] = End => e.type \in {"error", "close"}
    BY DEF Has
  <2>7. s[j] = Error => e = CloseWithError
    BY DEF Has
  <2>8. g[j] = End => \A k \in j + 1 .. Len(g) : g[k].type \in {"error", "close"}
    BY <2>1, <2>2, <2>5, <2>6
  <2>9. g[j] = Error => \A k \in j + 1 .. Len(g) : g[k] = CloseWithError
    BY <2>1, <2>2, <2>5, <2>7
  <2>10. g[j].type = "data" => g[j].n = 1 \/ \E k \in 1 .. j - 1 : g[k] = Data(g[j].n - 1)
    BY <2>1, <2>2, <2>3
  <2> QED BY <2>1, <2>2, <2>4, <2>8, <2>9, <2>10 DEF Closes
<1>5. /\ g[Len(g)] = Connect => Len(g) = 1
      /\ g[Len(g)].type = "data" =>
           g[Len(g)].n = 1 \/ \E k \in 1 .. Len(g) - 1 : g[k] = Data(g[Len(g)].n - 1)
      /\ g[Len(g)] = CloseWithError => Len(g) > 1 /\ g[Len(g) - 1] = Error
  <2>1. Len(g) - 1 = Len(s)
    BY <1>2
  <2>2. e = CloseWithError => Len(s) > 0 /\ g[Len(s)] = Error
    BY <1>2, <1>3
  <2>3. e.type = "data" => e.n = 1 \/ \E k \in 1 .. Len(s) : g[k] = Data(e.n - 1)
    BY <1>2 DEF Has
  <2> QED BY <1>2, <1>3, <2>1, <2>2, <2>3
<1>6. \A j \in 1 .. Len(g) : j \in 1 .. Len(s) \/ j = Len(g)
  BY <1>2
<1>7. \A k \in Len(g) + 1 .. Len(g) : FALSE
  BY <1>2
<1>8. Legal(g)
  BY <1>4, <1>5, <1>6, <1>7 DEF Legal
<1> QED BY <1>1, <1>8

LEMMA HasAppend ==
  ASSUME NEW s \in Seq(Events), NEW e \in Events, NEW m
  PROVE  Has(Append(s, e), m) <=> Has(s, m) \/ m = e
<1>1. Has(s, m) => Has(Append(s, e), m)
  BY DEF Has
<1>2. Append(s, e)[Len(s) + 1] = e /\ Len(s) + 1 \in 1 .. Len(Append(s, e))
  OBVIOUS
<1>3. Has(Append(s, e), m) => Has(s, m) \/ m = e
  BY DEF Has
<1> QED BY <1>1, <1>2, <1>3 DEF Has

LEMMA LegalPrefix ==
  ASSUME NEW s \in Seq(Events), NEW t \in Seq(Events), Legal(s \o t)
  PROVE  Legal(s)
<1>1. PICK g : g = s \o t
  OBVIOUS
<1>2. /\ Len(g) = Len(s) + Len(t) /\ Len(s) \in Nat /\ Len(t) \in Nat
      /\ \A j \in 1 .. Len(s) : g[j] = s[j]
  BY <1>1
<1>3. Legal(g)
  BY <1>1
<1> QED BY <1>2, <1>3 DEF Legal

LEMMA LegalNothing == Legal(<<>>) /\ Unfinished(<<>>) /\ \A m : ~Has(<<>>, m)
<1> QED BY DEF Legal, Unfinished, Has

-------------------------------------------------------------------------------
(* The helpers of net.cpp. *)

\* Nothing that the histories are about has changed.
Alike(h, g) == /\ g.kind = h.kind /\ g.connecting = h.connecting /\ g.peerEof = h.peerEof
               /\ g.closed = h.closed /\ g.got = h.got /\ g.events = h.events

LEMMA AlikeLinked ==
  ASSUME NEW h, NEW g, NEW t, Alike(h, g), Linked(h, t \o h.events)
  PROVE  Linked(g, t \o g.events)
<1> QED BY DEF Alike, Linked

\* All is as it was but for an event more.
Queued(h, e, g) == /\ g.events = Append(h.events, e)
                   /\ g.kind = h.kind /\ g.connecting = h.connecting /\ g.peerEof = h.peerEof
                   /\ g.closed = h.closed /\ g.got = h.got

LEMMA QueueFields ==
  ASSUME NEW h \in Records, NEW e \in Events
  PROVE  Queue(h, e) \in Records /\ Queued(h, e, Queue(h, e))
<1>1. h.events \in Seq(Events) /\ Append(h.events, e) \in Seq(Events)
  BY DEF Records
<1>2. PICK g : g = Queue(h, e)
  OBVIOUS
<1>3. g \in Records
  BY <1>1, <1>2 DEF Queue, Records
<1>4. Queued(h, e, g)
  BY <1>2 DEF Queue, Records, Queued
<1> QED BY <1>2, <1>3, <1>4

LEMMA HardClosedFields ==
  ASSUME NEW h \in Records, NEW g, g = HardClosed(h)
  PROVE  /\ g \in Records
         /\ g.closed = TRUE
         /\ g.events = h.events
         /\ g.kind = h.kind /\ g.connecting = h.connecting /\ g.peerEof = h.peerEof
         /\ g.got = h.got
<1> QED BY DEF HardClosed, Records

\* The sequence grows by the event queued.
LEMMA QueueGrows ==
  ASSUME NEW t \in Seq(Events), NEW v \in Seq(Events), NEW e \in Events
  PROVE  /\ t \o v \in Seq(Events)
         /\ t \o Append(v, e) = Append(t \o v, e)
<1>1. v \o <<e>> = Append(v, e)
  BY AppendIsConcat
<1>2. (t \o v) \o <<e>> = Append(t \o v, e)
  BY AppendIsConcat, ConcatProperties
<1>3. <<e>> \in Seq(Events)
  OBVIOUS
<1>4. t \o (v \o <<e>>) = (t \o v) \o <<e>>
  BY <1>3, ConcatAssociative
<1> QED BY <1>1, <1>2, <1>4, ConcatProperties

\* A handle closed without an error.
LEMMA ClosedLinked ==
  ASSUME NEW h \in Records, NEW t \in Seq(Events), Linked(h, t \o h.events), ~h.closed,
         NEW g, g = Closed(h)
  PROVE  g \in Records /\ Linked(g, t \o g.events)
<1>1. PICK f : f = HardClosed(h)
  OBVIOUS
<1>2. PICK s : s = t \o h.events
  OBVIOUS
<1>3. /\ f \in Records /\ f.closed /\ f.events = h.events /\ f.kind = h.kind
      /\ f.connecting = h.connecting /\ f.peerEof = h.peerEof /\ f.got = h.got
  BY <1>1, HardClosedFields
<1>4. g = Queue(f, Close)
  BY <1>1 DEF Closed
<1>5. g \in Records /\ Queued(f, Close, g)
  BY <1>3, <1>4, EventsTyped, QueueFields
<1>6. s \in Seq(Events) /\ t \o g.events = Append(s, Close)
  <2>1. h.events \in Seq(Events) /\ g.events = Append(h.events, Close)
    BY <1>3, <1>5 DEF Records, Queued
  <2> QED BY <1>2, <2>1, EventsTyped, QueueGrows
<1>7. Legal(s) /\ Unfinished(s)
  BY <1>2 DEF Linked
<1>8. Legal(Append(s, Close))
  BY <1>6, <1>7, EventsDiffer, LegalAppend DEF Unfinished
<1>9. \A m : Has(Append(s, Close), m) <=> Has(s, m) \/ m = Close
  BY <1>6, EventsDiffer, HasAppend
<1>10. Linked(g, Append(s, Close))
  BY <1>2, <1>3, <1>5, <1>8, <1>9, EventsDiffer DEF Linked, Queued
<1> QED BY <1>5, <1>6, <1>10

\* A handle that has connected.
LEMMA ConnectLinked ==
  ASSUME NEW h \in Records, Linked(h, <<>>), h.events = <<>>, ~h.closed, ~h.connecting,
         NEW g, Queued(h, Connect, g)
  PROVE  Linked(g, <<>> \o g.events)
<1>1. <<>> \o g.events = Append(<<>>, Connect)
  BY DEF Queued
<1>2. <<>> \in Seq(Events)
  OBVIOUS
<1>3. Legal(Append(<<>>, Connect))
  BY <1>2, LegalNothing, EventsDiffer, LegalAppend
<1>4. \A m : Has(Append(<<>>, Connect), m) <=> m = Connect
  BY <1>2, LegalNothing, EventsTyped, HasAppend
<1>5. \A k \in 1 .. h.got : FALSE
  BY LegalNothing DEF Linked
<1>6. Linked(g, Append(<<>>, Connect))
  BY <1>3, <1>4, <1>5, EventsDiffer DEF Linked, Queued, Unfinished
<1> QED BY <1>1, <1>6

\* A handle that fails.
LEMMA FailedLinked ==
  ASSUME NEW h \in Records, NEW t \in Seq(Events), Linked(h, t \o h.events),
         NEW g, g = Failed(h)
  PROVE  g \in Records /\ Linked(g, t \o g.events)
<1>1. CASE h.closed
  BY <1>1 DEF Failed
<1>2. CASE ~h.closed
  <2>1. PICK e : e = Queue(h, Error)
    OBVIOUS
  <2>2. PICK f : f = HardClosed(e)
    OBVIOUS
  <2>3. PICK s : s = t \o h.events
    OBVIOUS
  <2>4. e \in Records /\ Queued(h, Error, e)
    BY <2>1, EventsTyped, QueueFields
  <2>5. /\ f \in Records /\ f.closed /\ f.events = e.events /\ f.kind = e.kind
        /\ f.connecting = e.connecting /\ f.peerEof = e.peerEof /\ f.got = e.got
    BY <2>2, <2>4, HardClosedFields
  <2>6. g = Queue(f, CloseWithError)
    BY <1>2, <2>1, <2>2 DEF Failed
  <2>7. g \in Records /\ Queued(f, CloseWithError, g)
    BY <2>5, <2>6, EventsTyped, QueueFields
  <2>8. PICK r : r = Append(s, Error)
    OBVIOUS
  <2>9. s \in Seq(Events) /\ r \in Seq(Events) /\ t \o e.events = r
    <3>1. h.events \in Seq(Events) /\ e.events = Append(h.events, Error)
      BY <2>4 DEF Records, Queued
    <3>2. s \in Seq(Events) /\ t \o e.events = r
      BY <2>3, <2>8, <3>1, EventsTyped, QueueGrows
    <3> QED BY <2>8, <3>2, EventsTyped, AppendProperties
  <2>10. t \o g.events = Append(r, CloseWithError)
    <3>1. e.events \in Seq(Events) /\ g.events = Append(e.events, CloseWithError)
      BY <2>4, <2>5, <2>7 DEF Records, Queued
    <3>2. t \o Append(e.events, CloseWithError) = Append(t \o e.events, CloseWithError)
      BY <3>1, EventsTyped, QueueGrows
    <3> QED BY <2>9, <3>1, <3>2
  <2>11. Legal(s) /\ Unfinished(s)
    BY <1>2, <2>3 DEF Linked
  <2>12. Error # Connect /\ Error # CloseWithError /\ Error # Close /\ CloseWithError # Connect
    BY EventsDiffer
  <2>13. Legal(r)
    BY <2>8, <2>9, <2>11, <2>12, EventsDiffer, LegalAppend DEF Unfinished
  <2>14. \A m : Has(r, m) <=> Has(s, m) \/ m = Error
    BY <2>8, <2>9, EventsDiffer, HasAppend
  <2>15. r # <<>> /\ r[Len(r)] = Error
    BY <2>8, <2>9
  <2>16. Legal(Append(r, CloseWithError))
    BY <2>9, <2>11, <2>12, <2>13, <2>14, <2>15, EventsDiffer, LegalAppend DEF Unfinished
  <2>17. \A m : Has(Append(r, CloseWithError), m) <=> Has(s, m) \/ m = Error \/ m = CloseWithError
    BY <2>9, <2>14, EventsDiffer, HasAppend
  <2>18. Linked(g, Append(r, CloseWithError))
    BY <2>3, <2>4, <2>5, <2>7, <2>16, <2>17, EventsDiffer DEF Linked, Queued
  <2> QED BY <2>7, <2>10, <2>18
<1> QED BY <1>1, <1>2

LEMMA FlushedLinked ==
  ASSUME NEW h \in Records, NEW t \in Seq(Events), Linked(h, t \o h.events), ~h.closed,
         NEW g \in Flushed(h)
  PROVE  g \in Records /\ Linked(g, t \o g.events)
<1>1. ASSUME NEW n \in 0 .. h.outBuf
      PROVE  Sent(h, n) \in Records /\ Alike(h, Sent(h, n))
  <2>1. PICK f : f = Sent(h, n)
    OBVIOUS
  <2>2. h.outBuf \in Nat /\ h.sent \in Nat /\ n \in Nat /\ h.outBuf - n \in Nat /\ h.sent + n \in Nat
    BY DEF Records
  <2>3. f \in Records
    BY <2>1, <2>2 DEF Sent, Records
  <2>4. Alike(h, f)
    BY <2>1 DEF Sent, Records, Alike
  <2> QED BY <2>1, <2>3, <2>4
<1>2. ASSUME NEW f \in Records, Alike(h, f)
      PROVE  Shut(f) \in Records /\ Alike(h, Shut(f))
  <2>1. PICK e : e = Shut(f)
    OBVIOUS
  <2>2. (f.wroteShutdown \/ f.endRequested) \in BOOLEAN
    OBVIOUS
  <2>3. e \in Records
    BY <2>1, <2>2 DEF Shut, Records
  <2>4. Alike(f, e)
    BY <2>1 DEF Shut, Records, Alike
  <2> QED BY <1>2, <2>1, <2>3, <2>4 DEF Alike
<1>3. h.outBuf \in 0 .. h.outBuf
  BY DEF Records
<1>4. \A n \in 0 .. h.outBuf - 1 : n \in 0 .. h.outBuf
  BY DEF Records
<1>5. CASE g = Shut(Sent(h, h.outBuf))
  BY <1>1, <1>2, <1>3, <1>5, AlikeLinked
<1>6. CASE \E n \in 0 .. h.outBuf - 1 : g = Sent(h, n)
  BY <1>1, <1>4, <1>6, AlikeLinked
<1>7. CASE \E n \in 0 .. h.outBuf - 1 : g = Failed(Sent(h, n))
  <2>1. PICK n \in 0 .. h.outBuf - 1 : g = Failed(Sent(h, n))
    BY <1>7
  <2>2. PICK f : f = Sent(h, n)
    OBVIOUS
  <2>3. f \in Records /\ Linked(f, t \o f.events)
    BY <1>1, <1>4, <2>2, AlikeLinked
  <2> QED BY <2>1, <2>2, <2>3, FailedLinked
<1> QED BY <1>5, <1>6, <1>7 DEF Flushed

LEMMA FinishedLinked ==
  ASSUME NEW h \in Records, NEW t \in Seq(Events), Linked(h, t \o h.events), ~h.closed,
         NEW g \in FlushedAndFinished(h)
  PROVE  g \in Records /\ Linked(g, t \o g.events)
<1>1. PICK f \in Flushed(h) : g = Finished(f)
  BY DEF FlushedAndFinished
<1>2. f \in Records /\ Linked(f, t \o f.events)
  BY <1>1, FlushedLinked
<1>3. CASE g = f
  BY <1>2, <1>3
<1>4. CASE g # f
  <2>1. g = Closed(f) /\ ~f.closed
    BY <1>1, <1>4 DEF Finished
  <2> QED BY <1>2, <2>1, ClosedLinked
<1> QED BY <1>3, <1>4

-------------------------------------------------------------------------------
(* The steps. *)

LEMMA Bounds == MaxHandles \in Nat \ {0} /\ Handles = 1 .. MaxHandles
<1> QED BY BoundsAssumption DEF Handles

LEMMA NewLinked ==
  ASSUME NEW kind \in {"none", "listener", "conn", "udp"}, NEW held \in BOOLEAN
  PROVE  /\ New(kind, held) \in Records
         /\ New(kind, held).kind = kind
         /\ New(kind, held).closed = FALSE
         /\ New(kind, held).connecting = FALSE
         /\ New(kind, held).events = <<>>
         /\ Linked(New(kind, held), <<>> \o New(kind, held).events)
<1>1. PICK h : h = New(kind, held)
  OBVIOUS
<1>2. h \in Records
  BY <1>1 DEF New, Records
<1>3. /\ h.kind = kind /\ h.closed = FALSE /\ h.connecting = FALSE /\ h.events = <<>>
      /\ h.peerEof = FALSE /\ h.got = 0
  BY <1>1 DEF New
<1>4. <<>> \o h.events = <<>>
  BY <1>3
<1>5. Linked(h, <<>>)
  BY <1>3, LegalNothing DEF Linked
<1> QED BY <1>1, <1>2, <1>3, <1>4, <1>5

LEMMA InitSocket == Init => SocketInv
<1> SUFFICES ASSUME Init PROVE SocketInv
  OBVIOUS
<1> USE DEF Init
<1>1. New("none", FALSE) \in Records
  BY NewLinked
<1>2. Typed
  <2>1. handle \in [Handles -> Records]
    BY <1>1
  <2>2. told \in [Handles -> Seq(Events)] /\ accepted \in Seq(1 .. nextId - 1)
    OBVIOUS
  <2>3. nextId \in 1 .. MaxHandles + 1
    BY Bounds
  <2>4. live \subseteq 1 .. nextId - 1 /\ todo \subseteq 1 .. nextId - 1
    OBVIOUS
  <2> QED BY <2>1, <2>2, <2>3, <2>4 DEF Typed
<1>3. Pumping
  BY DEF Pumping
<1>4. Fresh
  BY DEF Fresh
<1>5. ASSUME NEW i \in Handles PROVE Linked(handle[i], told[i] \o handle[i].events)
  BY NewLinked
<1> QED BY <1>2, <1>3, <1>4, <1>5 DEF SocketInv, Histories

\* One handle becomes h, and nothing is told.
LEMMA HandleStep ==
  ASSUME Typed, Histories, NEW i \in Handles, NEW h \in Records,
         Linked(h, told[i] \o h.events),
         handle' = [handle EXCEPT ![i] = h], UNCHANGED told
  PROVE  handle' \in [Handles -> Records] /\ Histories'
<1>1. handle' \in [Handles -> Records]
  BY DEF Typed
<1>2. ASSUME NEW k \in Handles PROVE Linked(handle'[k], told'[k] \o handle'[k].events)
  <2>1. CASE k = i
    <3>1. handle'[k] = h /\ told'[k] = told[i]
      BY <2>1 DEF Typed
    <3> QED BY <3>1
  <2>2. CASE k # i
    <3>1. handle'[k] = handle[k] /\ told'[k] = told[k]
      BY <2>2 DEF Typed
    <3> QED BY <3>1 DEF Histories
  <2> QED BY <2>1, <2>2
<1> QED BY <1>1, <1>2 DEF Histories

\* A step that touches neither the histories nor the ids.
LEMMA QuietStep ==
  ASSUME SocketInv, UNCHANGED <<nextId, handle, told>>,
         live' \subseteq live, todo' \subseteq 1 .. nextId - 1,
         accepted' \in Seq(1 .. nextId - 1), Pumping'
  PROVE  SocketInv'
<1> USE DEF SocketInv
<1>1. Typed'
  BY DEF Typed
<1>2. Fresh'
  BY DEF Fresh
<1>3. Histories'
  BY DEF Histories
<1> QED BY <1>1, <1>2, <1>3

\* The program's operations: no pump is at work.
LEMMA JsNotPumping ==
  ASSUME SocketInv, JsRuns, UNCHANGED <<pc, handling>>
  PROVE  pc \notin {"recv", "flush"} /\ Pumping'
<1> QED BY DEF SocketInv, Pumping, JsRuns

\* An operation on a handle that is there.
LEMMA OperationStep ==
  ASSUME SocketInv, JsRuns, NEW i \in Handles, NEW h \in Records,
         Linked(h, told[i] \o h.events), handle' = [handle EXCEPT ![i] = h],
         UNCHANGED <<nextId, live, told, tickVars>>
  PROVE  SocketInv'
<1> USE DEF SocketInv
<1>1. Pumping'
  BY JsNotPumping DEF tickVars
<1>2. handle' \in [Handles -> Records] /\ Histories'
  BY HandleStep
<1>3. Typed'
  BY <1>2 DEF Typed, tickVars
<1>4. Fresh'
  BY DEF Fresh
<1> QED BY <1>1, <1>2, <1>3, <1>4

\* The next id is given to a handle h.
LEMMA OpenStep ==
  ASSUME SocketInv, NEW h \in Records, Linked(h, <<>> \o h.events), Open({h})
  PROVE  SocketInv'
<1> USE DEF SocketInv
<1>1. /\ JsRuns /\ nextId \in Handles /\ nextId' = nextId + 1
      /\ live' = live \union {nextId}
      /\ handle' = [handle EXCEPT ![nextId] = h]
      /\ UNCHANGED <<told, tickVars>>
  BY DEF Open, Becomes
<1>2. Pumping'
  BY <1>1, JsNotPumping DEF tickVars
<1>3. told[nextId] = <<>>
  BY <1>1, Bounds DEF Fresh, Typed
<1>4. handle' \in [Handles -> Records] /\ Histories'
  BY <1>1, <1>3, HandleStep
<1>5. Typed'
  <2>1. nextId' \in 1 .. MaxHandles + 1
    BY <1>1, Bounds
  <2>2. live' \subseteq 1 .. nextId' - 1 /\ todo' \subseteq 1 .. nextId' - 1
    BY <1>1, Bounds DEF Typed, tickVars
  <2>3. accepted' \in Seq(1 .. nextId' - 1)
    <3>1. 1 .. nextId - 1 \subseteq 1 .. nextId' - 1
      BY <1>1, Bounds
    <3> QED BY <1>1, <3>1, SeqMonotonic DEF Typed, tickVars
  <2> QED BY <1>1, <1>4, <2>1, <2>2, <2>3 DEF Typed
<1>6. Fresh'
  BY <1>1, Bounds DEF Fresh, Typed
<1> QED BY <1>2, <1>4, <1>5, <1>6

LEMMA ProgramSocket ==
  ASSUME SocketInv, Program
  PROVE  SocketInv'
<1> USE DEF SocketInv
<1>1. CASE Listen
  <2>1. Open({New("listener", TRUE)})
    BY <1>1 DEF Listen
  <2> QED BY <2>1, NewLinked, OpenStep
<1>2. CASE UdpOpen
  <2>1. Open({New("udp", FALSE)})
    BY <1>2 DEF UdpOpen
  <2> QED BY <2>1, NewLinked, OpenStep
<1>3. CASE TcpConnect
  <2>1. PICK h : h = New("conn", TRUE)
    OBVIOUS
  <2>2. /\ h \in Records /\ h.kind = "conn" /\ ~h.closed /\ ~h.connecting /\ h.events = <<>>
        /\ Linked(h, <<>> \o h.events)
    BY <2>1, NewLinked
  <2>3. PICK g \in {Queue(h, Connect), [h EXCEPT !.connecting = TRUE], Failed(h)} : Open({g})
    BY <1>3, <2>1 DEF TcpConnect, Open, Becomes
  <2>4. CASE g = Queue(h, Connect)
    <3>1. g \in Records /\ Queued(h, Connect, g)
      BY <2>2, <2>4, EventsTyped, QueueFields
    <3> QED BY <2>2, <2>3, <3>1, ConnectLinked, OpenStep
  <2>5. CASE g = [h EXCEPT !.connecting = TRUE]
    <3>1. g \in Records
      BY <2>2, <2>5 DEF Records
    <3>2. /\ g.kind = h.kind /\ g.peerEof = h.peerEof /\ g.got = h.got
          /\ g.events = <<>> /\ ~g.closed
      BY <2>2, <2>5 DEF Records
    <3>3. ~h.peerEof
      BY <2>1 DEF New
    <3>4. Linked(g, <<>> \o g.events)
      BY <2>2, <3>2, <3>3 DEF Linked
    <3> QED BY <2>3, <3>1, <3>4, OpenStep
  <2>6. CASE g = Failed(h)
    <3>1. <<>> \in Seq(Events)
      OBVIOUS
    <3>2. g \in Records /\ Linked(g, <<>> \o g.events)
      BY <2>2, <2>6, <3>1, FailedLinked
    <3> QED BY <2>3, <3>2, OpenStep
  <2> QED BY <2>3, <2>4, <2>5, <2>6
<1>4. ASSUME NEW i \in Opened,
             UdpBind(i) \/ UdpSendFails(i) \/ Write(i) \/ EndWrites(i) \/ Destroy(i) \/ Revoke(i)
      PROVE  SocketInv'
  <2>1. i \in Handles
    BY Bounds DEF Opened, Typed
  <2>2. PICK h : h = handle[i]
    OBVIOUS
  <2>3. h \in Records /\ told[i] \in Seq(Events) /\ Linked(h, told[i] \o h.events)
    BY <2>1, <2>2 DEF Typed, Histories
  <2>4. JsRuns /\ UNCHANGED <<nextId, live, told, tickVars>>
    BY <1>4 DEF UdpBind, UdpSendFails, Write, EndWrites, Destroy, Revoke, OnHandle
  <2>5. PICK g : handle' = [handle EXCEPT ![i] = g] /\ g \in Records /\ Linked(g, told[i] \o g.events)
    <3>1. CASE UdpBind(i)
      <4>1. PICK g : g = [h EXCEPT !.held = TRUE]
        OBVIOUS
      <4>2. g \in Records /\ Alike(h, g)
        BY <2>3, <4>1 DEF Records, Alike
      <4>3. handle' = [handle EXCEPT ![i] = g]
        BY <2>2, <3>1, <4>1 DEF UdpBind
      <4> QED BY <2>3, <4>2, <4>3, AlikeLinked
    <3>2. CASE UdpSendFails(i) \/ Revoke(i)
      <4>1. handle' = [handle EXCEPT ![i] = Failed(h)]
        BY <2>2, <3>2 DEF UdpSendFails, Revoke
      <4> QED BY <2>3, <4>1, FailedLinked
    <3>3. CASE Destroy(i)
      <4>1. handle' = [handle EXCEPT ![i] = Closed(h)] /\ ~h.closed
        BY <2>2, <3>3 DEF Destroy, OnHandle
      <4> QED BY <2>3, <4>1, ClosedLinked
    <3>4. CASE Write(i)
      <4>1. PICK f : f = [h EXCEPT !.outBuf = h.outBuf + 1]
        OBVIOUS
      <4>2. f \in Records /\ Alike(h, f)
        BY <2>3, <4>1 DEF Records, Alike
      <4>3. ~f.closed /\ Linked(f, told[i] \o f.events)
        BY <2>2, <2>3, <3>4, <4>2, AlikeLinked DEF Write, OnHandle, Alike
      <4>4. \E g \in (IF f.connecting THEN {f} ELSE Flushed(f)) : handle' = [handle EXCEPT ![i] = g]
        BY <2>2, <3>4, <4>1 DEF Write, Becomes
      <4> QED BY <2>3, <4>2, <4>3, <4>4, FlushedLinked
    <3>5. CASE EndWrites(i)
      <4>1. PICK f : f = [h EXCEPT !.endRequested = TRUE]
        OBVIOUS
      <4>2. f \in Records /\ Alike(h, f)
        BY <2>3, <4>1 DEF Records, Alike
      <4>3. ~f.closed /\ Linked(f, told[i] \o f.events)
        BY <2>2, <2>3, <3>5, <4>2, AlikeLinked DEF EndWrites, OnHandle, Alike
      <4>4. \E g \in (IF f.connecting THEN {f} ELSE FlushedAndFinished(f)) :
               handle' = [handle EXCEPT ![i] = g]
        BY <2>2, <3>5, <4>1 DEF EndWrites, Becomes
      <4> QED BY <2>3, <4>2, <4>3, <4>4, FinishedLinked
    <3> QED BY <1>4, <3>1, <3>2, <3>3, <3>4, <3>5
  <2> QED BY <2>1, <2>4, <2>5, OperationStep
<1> QED BY <1>1, <1>2, <1>3, <1>4 DEF Program

\* The pump does something to the handle it is at.
LEMMA CurrentStep ==
  ASSUME SocketInv, pc \in {"recv", "flush"}, NEW h \in Records,
         Linked(h, told[cur] \o h.events), handle' = [handle EXCEPT ![cur] = h],
         UNCHANGED <<nextId, live, todo, accepted, told, handling>>,
         pc' = "pump" \/ (pc' \in {"recv", "flush"} /\ cur' = cur /\ ~h.closed)
  PROVE  SocketInv'
<1> USE DEF SocketInv
<1>1. cur \in 1 .. nextId - 1 /\ cur \in Handles /\ ~handling
  BY Bounds DEF Pumping, Typed
<1>2. handle' \in [Handles -> Records] /\ Histories'
  BY <1>1, HandleStep
<1>3. Typed'
  BY <1>2 DEF Typed
<1>4. Fresh'
  BY DEF Fresh
<1>5. handle'[cur] = h
  BY <1>1 DEF Typed
<1>6. Pumping'
  BY <1>1, <1>5 DEF Pumping
<1> QED BY <1>2, <1>3, <1>4, <1>6

LEMMA EventLinked ==
  ASSUME NEW h \in Records, NEW t \in Seq(Events), Linked(h, t \o h.events), ~h.closed,
         ~h.peerEof, ~h.connecting, NEW e \in Events, NEW f \in Records, NEW g,
         f.events = h.events, f.kind = h.kind, f.connecting = h.connecting, ~f.closed,
         Queued(f, e, g),
         \/ e \notin {Connect, End, Error, Close, CloseWithError} /\ e.type # "data"
            /\ f.peerEof = h.peerEof /\ f.got = h.got
         \/ e = End /\ f.peerEof /\ f.kind = "conn" /\ f.got = h.got
         \/ e = Data(h.got + 1) /\ f.peerEof = h.peerEof /\ f.got = h.got + 1
  PROVE  Linked(g, t \o g.events)
<1>1. PICK s : s = t \o h.events
  OBVIOUS
<1>2. s \in Seq(Events) /\ t \o g.events = Append(s, e)
  <2>1. h.events \in Seq(Events) /\ g.events = Append(h.events, e)
    BY DEF Records, Queued
  <2> QED BY <1>1, <2>1, QueueGrows
<1>3. Legal(s) /\ Unfinished(s) /\ ~Has(s, End) /\ \A k \in 1 .. h.got : Has(s, Data(k))
  BY <1>1 DEF Linked
<1>4. h.got \in Nat
  BY DEF Records
<1>5. e \notin {Connect, Error, Close, CloseWithError}
  BY <1>4, EventsDiffer
<1>6. e.type = "data" => e.n = 1 \/ Has(s, Data(e.n - 1))
  <2>1. CASE e = Data(h.got + 1)
    <3>1. e.n = h.got + 1
      BY <1>4, <2>1, EventsDiffer
    <3>2. h.got = 0 \/ h.got \in 1 .. h.got
      BY <1>4
    <3> QED BY <1>3, <1>4, <3>1, <3>2
  <2> QED BY <2>1, EventsDiffer
<1>7. Legal(Append(s, e))
  BY <1>2, <1>3, <1>5, <1>6, LegalAppend DEF Unfinished
<1>8. \A m : Has(Append(s, e), m) <=> Has(s, m) \/ m = e
  BY <1>2, HasAppend
<1>9. Unfinished(Append(s, e))
  BY <1>3, <1>5, <1>8 DEF Unfinished
<1>10. \A k \in 1 .. f.got : Has(Append(s, e), Data(k))
  <2>1. \A k \in 1 .. f.got : k \in 1 .. h.got \/ (k = h.got + 1 /\ e = Data(k))
    BY <1>4
  <2> QED BY <1>3, <1>8, <2>1
<1>11. Has(Append(s, e), End) => f.peerEof
  BY <1>3, <1>4, <1>8, EventsDiffer
<1>12. f.peerEof => f.kind = "conn"
  OBVIOUS
<1> QED BY <1>2, <1>7, <1>9, <1>10, <1>11, <1>12 DEF Linked, Queued

LEMMA AcceptSocket ==
  ASSUME SocketInv, AcceptOne
  PROVE  SocketInv'
<1> USE DEF SocketInv
<1>1. PICK n : n = nextId
  OBVIOUS
<1>2. PICK h : h = handle[cur]
  OBVIOUS
<1>3. PICK c : c = New("conn", h.held)
  OBVIOUS
<1>4. PICK g : g = Queue(h, Accept(n))
  OBVIOUS
<1>5. /\ pc = "recv" /\ pc' = pc /\ cur' = cur
      /\ h.kind = "listener" /\ n \in Handles /\ nextId' = n + 1
      /\ live' = live \union {n} /\ accepted' = Append(accepted, n)
      /\ handle' = [handle EXCEPT ![n] = c, ![cur] = g]
      /\ UNCHANGED <<todo, told, handling>>
  BY <1>1, <1>2, <1>3, <1>4 DEF AcceptOne, native
<1>6. cur \in 1 .. n - 1 /\ cur \in Handles /\ n \in Nat /\ cur # n
  BY <1>1, <1>5, Bounds DEF Pumping, Typed
<1>7. h \in Records /\ told[cur] \in Seq(Events) /\ Linked(h, told[cur] \o h.events) /\ ~h.closed
  BY <1>2, <1>5, <1>6 DEF Typed, Histories, Pumping
<1>8. c \in Records /\ Linked(c, <<>> \o c.events)
  <2>1. h.held \in BOOLEAN
    BY <1>7 DEF Records
  <2> QED BY <1>3, <2>1, NewLinked
<1>9. Accept(n) \in Events /\ Accept(n).type = "accept"
  BY <1>6, EventsDiffer
<1>10. g \in Records /\ Queued(h, Accept(n), g)
  BY <1>4, <1>7, <1>9, QueueFields
<1>11. ~h.peerEof /\ ~h.connecting
  BY <1>5, <1>7 DEF Linked
<1>12. Accept(n) \notin {Connect, End, Error, Close, CloseWithError}
  BY <1>9, EventsDiffer
<1>13. Linked(g, told[cur] \o g.events) /\ ~g.closed
  <2>1. Accept(n).type # "data"
    BY <1>9
  <2>2. Linked(g, told[cur] \o g.events)
    BY <1>7, <1>9, <1>10, <1>11, <1>12, <2>1, EventLinked
  <2> QED BY <1>7, <1>10, <2>2 DEF Queued
<1>14. handle' \in [Handles -> Records]
  BY <1>5, <1>8, <1>10 DEF Typed
<1>15. ASSUME NEW k \in Handles PROVE Linked(handle'[k], told'[k] \o handle'[k].events)
  <2>1. CASE k = n
    <3>1. handle'[k] = c /\ told'[k] = <<>>
      BY <1>1, <1>5, <1>6, <2>1 DEF Typed, Fresh
    <3> QED BY <1>8, <3>1
  <2>2. CASE k = cur
    <3>1. handle'[k] = g /\ told'[k] = told[cur]
      BY <1>5, <1>6, <2>2 DEF Typed
    <3> QED BY <1>13, <3>1
  <2>3. CASE k # n /\ k # cur
    <3>1. handle'[k] = handle[k] /\ told'[k] = told[k]
      BY <1>5, <2>3 DEF Typed
    <3> QED BY <3>1 DEF Histories
  <2> QED BY <2>1, <2>2, <2>3
<1>16. Typed'
  <2>1. n \in 1 .. n + 1 - 1 /\ 1 .. n - 1 \subseteq 1 .. n + 1 - 1 /\ n + 1 \in 1 .. MaxHandles + 1
    BY <1>1, <1>5, Bounds DEF Typed
  <2>2. live' \subseteq 1 .. nextId' - 1 /\ todo' \subseteq 1 .. nextId' - 1
    BY <1>1, <1>5, <2>1 DEF Typed
  <2>3. accepted \in Seq(1 .. n + 1 - 1)
    BY <1>1, <2>1, SeqMonotonic DEF Typed
  <2>4. accepted' \in Seq(1 .. nextId' - 1)
    BY <1>5, <2>1, <2>3, AppendProperties
  <2>5. told' \in [Handles -> Seq(Events)]
    BY <1>5 DEF Typed
  <2> QED BY <1>5, <1>14, <2>1, <2>2, <2>4, <2>5 DEF Typed
<1>17. Fresh'
  BY <1>1, <1>5, <1>6, Bounds DEF Fresh
<1>18. Pumping'
  <2>1. handle'[cur] = g
    BY <1>5, <1>6 DEF Typed
  <2>2. cur' \in 1 .. nextId' - 1
    BY <1>5, <1>6
  <2>3. ~handling'
    BY <1>5 DEF Pumping
  <2>4. ~handle'[cur'].closed
    BY <1>5, <1>13, <2>1
  <2> QED BY <2>2, <2>3, <2>4 DEF Pumping
<1> QED BY <1>15, <1>16, <1>17, <1>18 DEF Histories

LEMMA PumpSocket ==
  ASSUME SocketInv, Pump
  PROVE  SocketInv'
<1> USE DEF SocketInv
<1>1. CASE Visit
  <2>1. PICK i \in IF todo # {} THEN todo ELSE Range(accepted) :
          /\ IF todo # {} THEN todo' = todo \ {i} /\ UNCHANGED accepted
             ELSE i = Head(accepted) /\ accepted' = Tail(accepted) /\ UNCHANGED todo
          /\ IF handle[i].closed THEN UNCHANGED <<pc, cur>> ELSE pc' = "recv" /\ cur' = i
    BY <1>1 DEF Visit
  <2>2. pc = "pump" /\ UNCHANGED <<nextId, live, handle, told, handling>>
    BY <1>1 DEF Visit, native
  <2>3. i \in 1 .. nextId - 1
    BY <2>1 DEF Typed, Range
  <2>4. todo' \subseteq 1 .. nextId - 1
    BY <2>1 DEF Typed
  <2>5. accepted' \in Seq(1 .. nextId - 1)
    <3>1. CASE todo # {}
      BY <2>1, <3>1 DEF Typed
    <3>2. CASE todo = {}
      <4>1. accepted # <<>>
        BY <2>1, <3>2 DEF Range
      <4> QED BY <2>1, <3>2, <4>1, HeadTailProperties DEF Typed
    <3> QED BY <3>1, <3>2
  <2>6. Pumping'
    BY <2>1, <2>2, <2>3 DEF Pumping
  <2> QED BY <2>2, <2>4, <2>5, <2>6, QuietStep
<1>2. CASE NothingToDo
  <2>1. /\ pc = "recv" /\ pc' = "pump"
        /\ UNCHANGED <<nextId, live, handle, todo, accepted, told, handling>>
    BY <1>2 DEF NothingToDo, VisitDone, native
  <2>2. Pumping'
    BY <2>1 DEF Pumping
  <2> QED BY <2>1, <2>2, QuietStep DEF Typed
<1>3. CASE RecvStops
  <2>1. /\ pc = "recv" /\ pc' = "flush"
        /\ UNCHANGED <<nextId, live, handle, todo, accepted, cur, told, handling>>
    BY <1>3 DEF RecvStops, native
  <2>2. Pumping'
    BY <2>1 DEF Pumping
  <2> QED BY <2>1, <2>2, QuietStep DEF Typed
<1>4. ASSUME AcceptOne \/ ConnectEnds \/ RecvData \/ RecvEof \/ RecvFails \/ FlushOut
      PROVE  SocketInv'
  <2>1. pc \in {"recv", "flush"} /\ UNCHANGED <<told, handling>>
    BY <1>4 DEF AcceptOne, ConnectEnds, RecvData, RecvEof, RecvFails, FlushOut, Reading, native
  <2>2. cur \in 1 .. nextId - 1 /\ cur \in Handles
    BY <2>1, Bounds DEF Pumping, Typed
  <2>3. PICK h : h = handle[cur]
    OBVIOUS
  <2>4. PICK t : t = told[cur]
    OBVIOUS
  <2>5. h \in Records /\ t \in Seq(Events) /\ Linked(h, t \o h.events) /\ ~h.closed
    BY <2>1, <2>2, <2>3, <2>4 DEF Typed, Histories, Pumping
  <2>6. CASE AcceptOne
    BY <2>6, AcceptSocket
  <2>7. CASE ConnectEnds
    <3>1. h.connecting /\ pc' = "pump" /\ UNCHANGED <<nextId, live, todo, accepted>>
      BY <2>3, <2>7 DEF ConnectEnds, VisitDone
    <3>2. PICK f : f = [h EXCEPT !.connecting = FALSE]
      OBVIOUS
    <3>3. PICK g \in {Failed(h)} \union Flushed(Queue(f, Connect)) :
            handle' = [handle EXCEPT ![cur] = g]
      BY <2>3, <2>7, <3>2 DEF ConnectEnds, Becomes
    <3>4. CASE g = Failed(h)
      <4>1. g \in Records /\ Linked(g, t \o g.events)
        BY <2>5, <3>4, FailedLinked
      <4> QED BY <2>1, <2>4, <3>1, <3>3, <4>1, CurrentStep
    <3>5. CASE g \in Flushed(Queue(f, Connect))
      <4>1. t \o h.events = <<>>
        BY <2>5, <3>1 DEF Linked
      <4>2. t = <<>> /\ h.events = <<>>
        <5>1. h.events \in Seq(Events)
          BY <2>5 DEF Records
        <5> QED BY <2>5, <4>1, <5>1, ConcatEqualIffEmpty, ConcatProperties
      <4>3. f \in Records
        BY <2>5, <3>2 DEF Records
      <4>4. /\ f.kind = h.kind /\ f.peerEof = h.peerEof /\ f.got = h.got
            /\ f.events = <<>> /\ ~f.closed /\ ~f.connecting
        BY <2>5, <3>2, <4>2 DEF Records
      <4>5. Linked(f, <<>>)
        BY <2>5, <4>1, <4>4 DEF Linked
      <4>6. PICK e : e = Queue(f, Connect)
        OBVIOUS
      <4>7. e \in Records /\ Queued(f, Connect, e)
        BY <4>3, <4>6, EventsTyped, QueueFields
      <4>8. Linked(e, <<>> \o e.events) /\ ~e.closed
        BY <4>3, <4>4, <4>5, <4>7, ConnectLinked DEF Queued
      <4>9. g \in Records /\ Linked(g, t \o g.events)
        BY <2>5, <3>5, <4>2, <4>6, <4>7, <4>8, FlushedLinked
      <4> QED BY <2>1, <2>4, <3>1, <3>3, <4>9, CurrentStep
    <3> QED BY <3>3, <3>4, <3>5
  <2>8. CASE RecvData
    <3>1. PICK f : f = [h EXCEPT !.got = h.got + 1]
      OBVIOUS
    <3>2. PICK e : e = Data(h.got + 1)
      OBVIOUS
    <3>3. PICK g : g = Queue(f, e)
      OBVIOUS
    <3>4. /\ ~h.peerEof /\ ~h.connecting
          /\ handle' = [handle EXCEPT ![cur] = g]
          /\ pc' = pc /\ cur' = cur /\ UNCHANGED <<nextId, live, todo, accepted>>
      <4>1. /\ ~handle[cur].peerEof /\ ~handle[cur].connecting
            /\ pc' = pc /\ cur' = cur /\ UNCHANGED <<nextId, live, todo, accepted>>
        BY <2>8 DEF RecvData, Reading
      <4>2. handle' = [handle EXCEPT ![cur] =
                          Queue([handle[cur] EXCEPT !.got = handle[cur].got + 1],
                                Data(handle[cur].got + 1))]
        BY <2>8, Zenon DEF RecvData
      <4>3. g = Queue([handle[cur] EXCEPT !.got = handle[cur].got + 1], Data(handle[cur].got + 1))
        BY <2>3, <3>1, <3>2, <3>3
      <4> QED BY <2>3, <4>1, <4>2, <4>3
    <3>5. h.got \in Nat
      BY <2>5 DEF Records
    <3>6. f \in Records
      BY <2>5, <3>1, <3>5 DEF Records
    <3>7. /\ f.kind = h.kind /\ f.peerEof = h.peerEof /\ f.got = h.got + 1
          /\ f.events = h.events /\ ~f.closed /\ f.connecting = h.connecting
      BY <2>5, <3>1 DEF Records
    <3>8. e \in Events
      BY <3>2, <3>5, EventsDiffer
    <3>9. g \in Records /\ Queued(f, e, g)
      BY <3>3, <3>6, <3>8, QueueFields
    <3>10. Linked(g, t \o g.events) /\ ~g.closed
      BY <2>5, <3>2, <3>4, <3>6, <3>7, <3>8, <3>9, EventLinked DEF Queued
    <3> QED BY <2>1, <2>4, <3>4, <3>9, <3>10, CurrentStep
  <2>9. CASE RecvEof
    <3>1. PICK f : f = [h EXCEPT !.peerEof = TRUE, !.endRequested = TRUE]
      OBVIOUS
    <3>2. PICK g : g = IF h.peerEof THEN h ELSE Queue(f, End)
      OBVIOUS
    <3>3. /\ ~h.connecting /\ h.kind = "conn"
          /\ handle' = [handle EXCEPT ![cur] = g]
          /\ pc' = "flush" /\ cur' = cur /\ UNCHANGED <<nextId, live, todo, accepted>>
      BY <2>3, <2>9, <3>1, <3>2 DEF RecvEof, Reading
    <3>4. CASE h.peerEof
      BY <2>1, <2>4, <2>5, <3>2, <3>3, <3>4, CurrentStep
    <3>5. CASE ~h.peerEof
      <4>1. f \in Records
        BY <2>5, <3>1 DEF Records
      <4>2. /\ f.kind = h.kind /\ f.peerEof /\ f.got = h.got
            /\ f.events = h.events /\ ~f.closed /\ f.connecting = h.connecting
        BY <2>5, <3>1 DEF Records
      <4>3. g \in Records /\ Queued(f, End, g)
        BY <3>2, <3>5, <4>1, EventsTyped, QueueFields
      <4>4. Linked(g, t \o g.events) /\ ~g.closed
        BY <2>5, <3>3, <3>5, <4>1, <4>2, <4>3, EventsTyped, EventLinked DEF Queued
      <4> QED BY <2>1, <2>4, <3>3, <4>3, <4>4, CurrentStep
    <3> QED BY <3>4, <3>5
  <2>10. CASE RecvFails
    <3>1. PICK g : g = Failed(h)
      OBVIOUS
    <3>2. /\ handle' = [handle EXCEPT ![cur] = g]
          /\ pc' = "pump" /\ UNCHANGED <<nextId, live, todo, accepted>>
      BY <2>3, <2>10, <3>1 DEF RecvFails, VisitDone
    <3>3. g \in Records /\ Linked(g, t \o g.events)
      BY <2>5, <3>1, FailedLinked
    <3> QED BY <2>1, <2>4, <3>2, <3>3, CurrentStep
  <2>11. CASE FlushOut
    <3>1. PICK g \in FlushedAndFinished(h) : handle' = [handle EXCEPT ![cur] = g]
      BY <2>3, <2>11 DEF FlushOut, Becomes
    <3>2. pc' = "pump" /\ UNCHANGED <<nextId, live, todo, accepted>>
      BY <2>11 DEF FlushOut, VisitDone
    <3>3. g \in Records /\ Linked(g, t \o g.events)
      BY <2>5, <3>1, FinishedLinked
    <3> QED BY <2>1, <2>4, <3>1, <3>2, <3>3, CurrentStep
  <2> QED BY <1>4, <2>6, <2>7, <2>8, <2>9, <2>10, <2>11
<1> QED BY <1>1, <1>2, <1>3, <1>4 DEF Pump

\* What was told and what is queued stay one sequence.
LEMMA DrainKeeps ==
  ASSUME NEW t \in Seq(Events), NEW v \in Seq(Events), v # <<>>
  PROVE  Append(t, Head(v)) \o Tail(v) = t \o v
<1>1. PICK e : e = Head(v)
  OBVIOUS
<1>2. PICK w : w = Tail(v)
  OBVIOUS
<1>3. e \in Events /\ w \in Seq(Events) /\ <<e>> \in Seq(Events)
  BY <1>1, <1>2, HeadTailProperties
<1>4. Append(t, e) = t \o <<e>>
  BY <1>3, AppendIsConcat
<1>5. (t \o <<e>>) \o w = t \o (<<e>> \o w)
  BY <1>3, ConcatAssociative
<1>6. <<e>> \o w = v
  BY <1>1, <1>2
<1> QED BY <1>1, <1>2, <1>4, <1>5, <1>6

LEMMA DrainOneSocket ==
  ASSUME SocketInv, DrainOne
  PROVE  SocketInv'
<1> USE DEF SocketInv
<1>1. PICK h : h = handle[cur]
  OBVIOUS
<1>2. PICK e : e = Head(h.events)
  OBVIOUS
<1>3. PICK g : g = [h EXCEPT !.events = Tail(h.events)]
  OBVIOUS
<1>4. /\ pc = "drain" /\ pc' = pc /\ cur \in live /\ h.events # <<>>
      /\ told' = [told EXCEPT ![cur] = Append(told[cur], e)]
      /\ handle' = [handle EXCEPT ![cur] = g]
      /\ live' \subseteq live
      /\ UNCHANGED <<nextId, todo, accepted>>
  BY <1>1, <1>2, <1>3 DEF DrainOne, HasEvents, rest
<1>5. cur \in 1 .. nextId - 1 /\ cur \in Handles
  BY <1>4, Bounds DEF Typed
<1>6. PICK t : t = told[cur]
  OBVIOUS
<1>7. h \in Records /\ t \in Seq(Events) /\ Linked(h, t \o h.events)
  BY <1>1, <1>5, <1>6 DEF Typed, Histories
<1>8. h.events \in Seq(Events)
  BY <1>7 DEF Records
<1>9. e \in Events /\ Tail(h.events) \in Seq(Events)
  BY <1>2, <1>4, <1>8, HeadTailProperties
<1>10. Append(t, e) \o Tail(h.events) = t \o h.events
  BY <1>2, <1>4, <1>7, <1>8, DrainKeeps
<1>11. g \in Records
  BY <1>3, <1>7, <1>9 DEF Records
<1>12. /\ g.events = Tail(h.events)
       /\ g.kind = h.kind /\ g.connecting = h.connecting /\ g.peerEof = h.peerEof
       /\ g.closed = h.closed /\ g.got = h.got
  BY <1>3, <1>7 DEF Records
<1>13. Linked(g, Append(t, e) \o g.events)
  BY <1>7, <1>10, <1>12 DEF Linked
<1>14. handle' \in [Handles -> Records] /\ told' \in [Handles -> Seq(Events)]
  <2>1. Append(t, e) \in Seq(Events)
    BY <1>7, <1>9, AppendProperties
  <2> QED BY <1>4, <1>6, <1>11, <2>1 DEF Typed
<1>15. ASSUME NEW k \in Handles PROVE Linked(handle'[k], told'[k] \o handle'[k].events)
  <2>1. CASE k = cur
    <3>1. handle'[k] = g /\ told'[k] = Append(t, e)
      BY <1>4, <1>5, <1>6, <2>1 DEF Typed
    <3> QED BY <1>13, <3>1
  <2>2. CASE k # cur
    <3>1. handle'[k] = handle[k] /\ told'[k] = told[k]
      BY <1>4, <2>2 DEF Typed
    <3> QED BY <3>1 DEF Histories
  <2> QED BY <2>1, <2>2
<1>16. Typed'
  BY <1>4, <1>14 DEF Typed
<1>17. Fresh'
  <2>1. \A i \in Handles : i >= nextId => i # cur
    BY <1>5, Bounds DEF Typed
  <2> QED BY <1>4, <2>1 DEF Fresh, Typed
<1>18. Pumping'
  BY <1>4 DEF Pumping
<1> QED BY <1>15, <1>16, <1>17, <1>18 DEF Histories

LEMMA SweepSocket ==
  ASSUME SocketInv, Sweep
  PROVE  SocketInv'
<1> USE DEF SocketInv
<1>1. /\ pc = "sweep" /\ pc' = "idle" /\ live' \subseteq live
      /\ UNCHANGED <<nextId, todo, accepted, told, handling>>
  BY DEF Sweep, rest
<1>2. PICK C : handle' = [i \in Handles |-> IF i \in C THEN [handle[i] EXCEPT !.closedSweeps = 1]
                                             ELSE handle[i]]
  BY DEF Sweep
<1>3. ASSUME NEW k \in Handles
      PROVE  handle'[k] \in Records /\ Linked(handle'[k], told'[k] \o handle'[k].events)
  <2>1. handle[k] \in Records /\ Linked(handle[k], told[k] \o handle[k].events)
    BY DEF Typed, Histories
  <2>2. CASE handle'[k] = handle[k]
    BY <1>1, <2>1, <2>2
  <2>3. CASE handle'[k] # handle[k]
    <3>1. handle'[k] = [handle[k] EXCEPT !.closedSweeps = 1]
      BY <1>2, <2>3
    <3>2. PICK h : h = handle[k]
      OBVIOUS
    <3>3. PICK g : g = [h EXCEPT !.closedSweeps = 1]
      OBVIOUS
    <3>4. g \in Records /\ Alike(h, g)
      BY <2>1, <3>2, <3>3 DEF Records, Alike
    <3>5. Linked(g, told[k] \o g.events)
      BY <2>1, <3>2, <3>4, AlikeLinked
    <3> QED BY <1>1, <3>1, <3>2, <3>3, <3>4, <3>5
  <2> QED BY <2>2, <2>3
<1>4. handle' \in [Handles -> Records]
  BY <1>2, <1>3
<1>5. Typed'
  BY <1>1, <1>4 DEF Typed
<1>6. Fresh'
  BY <1>1 DEF Fresh
<1>7. Pumping'
  BY <1>1 DEF Pumping
<1> QED BY <1>3, <1>5, <1>6, <1>7 DEF Histories

LEMMA NextSocket == SocketInv /\ [Next]_vars => SocketInv'
<1> SUFFICES ASSUME SocketInv, [Next]_vars PROVE SocketInv'
  OBVIOUS
<1>1. CASE Program
  BY <1>1, ProgramSocket
<1>2. CASE Pump
  BY <1>2, PumpSocket
<1>3. CASE DrainOne
  BY <1>3, DrainOneSocket
<1>4. CASE Sweep
  BY <1>4, SweepSocket
<1>5. CASE BeginTick
  <2>1. /\ pc = "idle" /\ pc' = "pump" /\ todo' = live
        /\ UNCHANGED <<nextId, live, handle, accepted, told, handling>>
    BY <1>5 DEF BeginTick, native
  <2> QED BY <2>1, QuietStep DEF SocketInv, Typed, Pumping
<1>6. CASE BeginDrain \/ NextKey \/ ListenerReturns \/ KeyDone \/ PassDone
  <2>1. UNCHANGED <<nextId, live, handle, todo, accepted, told>>
    BY <1>6 DEF BeginDrain, NextKey, ListenerReturns, KeyDone, PassDone, rest
  <2>2. Pumping'
    BY <1>6 DEF SocketInv, Pumping, BeginDrain, NextKey, ListenerReturns, KeyDone, PassDone
  <2> QED BY <2>1, <2>2, QuietStep DEF SocketInv, Typed
<1>7. CASE UNCHANGED vars
  <2>1. UNCHANGED <<nextId, live, handle, todo, accepted, told, handling, pc, cur>>
    BY <1>7 DEF vars, tickVars
  <2>2. Pumping'
    BY <2>1 DEF SocketInv, Pumping
  <2> QED BY <2>1, <2>2, QuietStep DEF SocketInv, Typed
<1> QED BY <1>1, <1>2, <1>3, <1>4, <1>5, <1>6, <1>7 DEF Next, Tick, Drain

LEMMA SocketHolds == Spec => []SocketInv
<1> QED BY InitSocket, NextSocket, PTL DEF Spec

\* Whatever listeners, peers, kernel and host do, a wrapper is told the history of a
\* socket: of its connection first, of the data in order, of the end after them, of an
\* error only before the close that reports it, and of nothing after the close.
THEOREM HistoriesAreLegal == Spec => []LegalHistory
<1>1. SocketInv => LegalHistory
  <2> SUFFICES ASSUME SocketInv PROVE LegalHistory
    OBVIOUS
  <2>1. ASSUME NEW i \in Handles PROVE Legal(told[i])
    <3>1. told[i] \in Seq(Events) /\ handle[i].events \in Seq(Events)
      BY DEF SocketInv, Typed, Records
    <3>2. Legal(told[i] \o handle[i].events)
      BY DEF SocketInv, Histories, Linked
    <3> QED BY <3>1, <3>2, LegalPrefix
  <2> QED BY <2>1 DEF LegalHistory, Legal
<1> QED BY <1>1, SocketHolds, PTL

-------------------------------------------------------------------------------
(* What a close leaves behind. *)

\* The chunks queued were all received, each is there once; a FIN is sent when all
\* bytes are; the peer's end is queued; and a close without an error is one of both
\* sides, or the program's.
Clean(h, s, l) ==
  /\ \A j \in 1 .. Len(s) : s[j].type = "data" => s[j].n \in 1 .. h.got
  /\ \A j, k \in 1 .. Len(s) : s[j].type = "data" /\ s[k].type = "data" /\ s[j].n = s[k].n => j = k
  /\ h.wroteShutdown => h.endRequested /\ h.outBuf = 0
  /\ h.peerEof => Has(s, End)
  /\ h.kind = "conn" /\ Has(s, Close) /\ l # "destroyed" => h.outBuf = 0 /\ Has(s, End)

Lefts == left \in [Handles -> {"no", "ended", "destroyed"}]

GraceInv == Lefts /\ \A i \in Handles : Clean(handle[i], told[i] \o handle[i].events, left[i])

\* An open handle that queues nothing.
LEMMA CleanOpen ==
  ASSUME NEW h, NEW g, NEW s, NEW l, NEW m, Clean(h, s, l), ~Has(s, Close),
         g.got = h.got, g.peerEof = h.peerEof,
         g.wroteShutdown => g.endRequested /\ g.outBuf = 0
  PROVE  Clean(g, s, m)
<1> QED BY DEF Clean

\* An open handle that queues an event more.
LEMMA CleanAppend ==
  ASSUME NEW h \in Records, NEW g \in Records, NEW s \in Seq(Events), NEW l, NEW m,
         NEW e \in Events, Clean(h, s, l), ~Has(s, Close),
         e.type = "data" => e.n = h.got + 1,
         g.got = IF e.type = "data" THEN h.got + 1 ELSE h.got,
         g.peerEof => h.peerEof \/ e = End,
         g.wroteShutdown => g.endRequested /\ g.outBuf = 0,
         e = Close /\ g.kind = "conn" /\ m # "destroyed" => g.outBuf = 0 /\ Has(s, End)
  PROVE  Clean(g, Append(s, e), m)
<1>1. PICK r : r = Append(s, e)
  OBVIOUS
<1>2. /\ Len(r) = Len(s) + 1 /\ Len(s) \in Nat
      /\ r[Len(r)] = e
      /\ \A j \in 1 .. Len(s) : r[j] = s[j]
      /\ \A j \in 1 .. Len(r) : j \in 1 .. Len(s) \/ j = Len(r)
  BY <1>1
<1>3. \A k : Has(r, k) <=> Has(s, k) \/ k = e
  BY <1>1, HasAppend
<1>4. h.got \in Nat /\ g.got \in Nat /\ h.got <= g.got
  BY DEF Records
<1>5. \A j \in 1 .. Len(s) : s[j].type = "data" => s[j].n \in 1 .. h.got
  BY DEF Clean
<1>6. \A j \in 1 .. Len(r) : r[j].type = "data" => r[j].n \in 1 .. g.got
  BY <1>2, <1>4, <1>5
<1>7. \A j \in 1 .. Len(s) : s[j].type = "data" /\ e.type = "data" => s[j].n # e.n
  BY <1>4, <1>5
<1>8. ASSUME NEW j \in 1 .. Len(r), NEW k \in 1 .. Len(r),
             r[j].type = "data", r[k].type = "data", r[j].n = r[k].n
      PROVE  j = k
  <2>1. CASE j \in 1 .. Len(s) /\ k \in 1 .. Len(s)
    BY <1>2, <1>8, <2>1 DEF Clean
  <2>2. CASE j \in 1 .. Len(s) /\ k = Len(r)
    BY <1>2, <1>7, <1>8, <2>2
  <2>3. CASE j = Len(r) /\ k \in 1 .. Len(s)
    BY <1>2, <1>7, <1>8, <2>3
  <2> QED BY <1>2, <2>1, <2>2, <2>3
<1>9. g.peerEof => Has(r, End)
  BY <1>3 DEF Clean
<1>10. g.kind = "conn" /\ Has(r, Close) /\ m # "destroyed" => g.outBuf = 0 /\ Has(r, End)
  BY <1>3
<1>11. Clean(g, r, m)
  BY <1>6, <1>8, <1>9, <1>10 DEF Clean
<1> QED BY <1>1, <1>11

\* The fields the two sides' ends are about.
Ends(h, g) == /\ g.wroteShutdown = h.wroteShutdown /\ g.endRequested = h.endRequested
              /\ g.outBuf = h.outBuf

LEMMA QueueEnds ==
  ASSUME NEW h \in Records, NEW e \in Events, NEW g, g = Queue(h, e)
  PROVE  Ends(h, g)
<1> QED BY DEF Queue, Records, Ends

LEMMA HardClosedEnds ==
  ASSUME NEW h \in Records, NEW g, g = HardClosed(h)
  PROVE  Ends(h, g)
<1> QED BY DEF HardClosed, Records, Ends

\* Closed without an error: by the program, or when both sides have ended.
LEMMA ClosedClean ==
  ASSUME NEW h \in Records, NEW t \in Seq(Events), NEW l, NEW m,
         ~Has(t \o h.events, Close), Clean(h, t \o h.events, l),
         m = "destroyed" \/ (h.peerEof /\ h.wroteShutdown), NEW g, g = Closed(h)
  PROVE  Clean(g, t \o g.events, m)
<1>1. PICK f : f = HardClosed(h)
  OBVIOUS
<1>2. PICK s : s = t \o h.events
  OBVIOUS
<1>3. /\ f \in Records /\ f.closed /\ f.events = h.events /\ f.kind = h.kind
      /\ f.peerEof = h.peerEof /\ f.got = h.got
  BY <1>1, HardClosedFields
<1>4. g = Queue(f, Close)
  BY <1>1 DEF Closed
<1>5. g \in Records /\ Queued(f, Close, g)
  BY <1>3, <1>4, EventsTyped, QueueFields
<1>6. Ends(h, g)
  <2>1. Ends(h, f) /\ Ends(f, g)
    BY <1>1, <1>3, <1>4, EventsTyped, HardClosedEnds, QueueEnds
  <2> QED BY <2>1 DEF Ends
<1>7. s \in Seq(Events) /\ t \o g.events = Append(s, Close)
  <2>1. h.events \in Seq(Events) /\ g.events = Append(h.events, Close)
    BY <1>3, <1>5 DEF Records, Queued
  <2> QED BY <1>2, <2>1, EventsTyped, QueueGrows
<1>8. ~Has(s, Close) /\ Clean(h, s, l)
  BY <1>2
<1>9. /\ h.wroteShutdown => h.endRequested /\ h.outBuf = 0
      /\ h.peerEof => Has(s, End)
  BY <1>8 DEF Clean
<1>10. g.got = h.got /\ g.peerEof = h.peerEof
  BY <1>3, <1>5 DEF Queued
<1>11. Close \in Events /\ Close.type # "data"
  BY EventsDiffer
<1>12. Clean(g, Append(s, Close), m)
  BY <1>3, <1>5, <1>6, <1>7, <1>8, <1>9, <1>10, <1>11, CleanAppend DEF Ends
<1> QED BY <1>7, <1>12

\* Failing tells no clean close.
LEMMA FailedClean ==
  ASSUME NEW h \in Records, NEW t \in Seq(Events), NEW l, NEW m,
         ~h.closed, ~Has(t \o h.events, Close), Clean(h, t \o h.events, l),
         NEW g, g = Failed(h)
  PROVE  Clean(g, t \o g.events, m)
<1>1. PICK e : e = Queue(h, Error)
  OBVIOUS
<1>2. PICK f : f = HardClosed(e)
  OBVIOUS
<1>3. PICK s : s = t \o h.events
  OBVIOUS
<1>4. e \in Records /\ Queued(h, Error, e) /\ Ends(h, e)
  BY <1>1, EventsTyped, QueueFields, QueueEnds
<1>5. /\ f \in Records /\ f.closed /\ f.events = e.events /\ f.kind = e.kind
      /\ f.peerEof = e.peerEof /\ f.got = e.got /\ Ends(e, f)
  <2>1. e \in Records
    BY <1>4
  <2> QED BY <1>2, <2>1, HardClosedFields, HardClosedEnds
<1>6. g = Queue(f, CloseWithError)
  BY <1>1, <1>2 DEF Failed
<1>7. g \in Records /\ Queued(f, CloseWithError, g) /\ Ends(f, g)
  <2>1. f \in Records
    BY <1>5
  <2> QED BY <1>6, <2>1, EventsTyped, QueueFields, QueueEnds
<1>8. PICK r : r = Append(s, Error)
  OBVIOUS
<1>9. s \in Seq(Events) /\ r \in Seq(Events) /\ t \o e.events = r
  <2>1. h.events \in Seq(Events) /\ e.events = Append(h.events, Error)
    BY <1>4 DEF Records, Queued
  <2>2. s \in Seq(Events) /\ t \o e.events = r
    BY <1>3, <1>8, <2>1, EventsTyped, QueueGrows
  <2> QED BY <1>8, <2>2, EventsTyped, AppendProperties
<1>10. t \o g.events = Append(r, CloseWithError)
  <2>1. e.events \in Seq(Events) /\ g.events = Append(e.events, CloseWithError)
    BY <1>4, <1>5, <1>7 DEF Records, Queued
  <2>2. t \o Append(e.events, CloseWithError) = Append(t \o e.events, CloseWithError)
    BY <2>1, EventsTyped, QueueGrows
  <2> QED BY <1>9, <2>1, <2>2
<1>11. ~Has(s, Close) /\ Clean(h, s, l) /\ (h.wroteShutdown => h.endRequested /\ h.outBuf = 0)
  BY <1>3 DEF Clean
<1>12. /\ Error \in Events /\ Error.type # "data" /\ Error # Close
       /\ CloseWithError \in Events /\ CloseWithError.type # "data" /\ CloseWithError # Close
  BY EventsDiffer
<1>13. e.got = h.got /\ e.peerEof = h.peerEof /\ g.got = e.got /\ g.peerEof = e.peerEof
  BY <1>4, <1>5, <1>7 DEF Queued
<1>14. Clean(e, r, m)
  BY <1>4, <1>8, <1>9, <1>11, <1>12, <1>13, CleanAppend DEF Ends
<1>15. ~Has(r, Close)
  BY <1>8, <1>9, <1>11, <1>12, HasAppend
<1>16. Clean(g, Append(r, CloseWithError), m)
  BY <1>4, <1>5, <1>7, <1>9, <1>11, <1>12, <1>13, <1>14, <1>15, CleanAppend DEF Ends
<1> QED BY <1>10, <1>16

LEMMA FlushedClean ==
  ASSUME NEW h \in Records, NEW t \in Seq(Events), NEW l, NEW m,
         ~h.closed, ~Has(t \o h.events, Close), Clean(h, t \o h.events, l),
         NEW g \in Flushed(h)
  PROVE  Clean(g, t \o g.events, m)
<1>1. PICK s : s = t \o h.events
  OBVIOUS
<1>2. h.wroteShutdown => h.endRequested /\ h.outBuf = 0
  BY DEF Clean
<1>3. h.outBuf \in Nat
  BY DEF Records
<1>4. ASSUME NEW n \in 0 .. h.outBuf, NEW f, f = Sent(h, n)
      PROVE  /\ f \in Records /\ Alike(h, f) /\ f.outBuf = h.outBuf - n
             /\ f.wroteShutdown = h.wroteShutdown /\ f.endRequested = h.endRequested
  <2>1. h.sent \in Nat /\ n \in Nat /\ h.outBuf - n \in Nat /\ h.sent + n \in Nat
    BY <1>3 DEF Records
  <2>2. f \in Records
    BY <1>4, <2>1 DEF Sent, Records
  <2> QED BY <1>4, <2>2 DEF Sent, Records, Alike
<1>5. CASE g = Shut(Sent(h, h.outBuf))
  <2>1. PICK f : f = Sent(h, h.outBuf)
    OBVIOUS
  <2>2. h.outBuf \in 0 .. h.outBuf
    BY <1>3
  <2>3. /\ f \in Records /\ Alike(h, f) /\ f.outBuf = h.outBuf - h.outBuf
        /\ f.wroteShutdown = h.wroteShutdown /\ f.endRequested = h.endRequested
    BY <1>4, <2>1, <2>2
  <2>4. /\ g.events = f.events /\ g.got = f.got /\ g.peerEof = f.peerEof /\ g.outBuf = f.outBuf
        /\ g.wroteShutdown = (f.wroteShutdown \/ f.endRequested)
        /\ g.endRequested = f.endRequested
    BY <1>5, <2>1, <2>3 DEF Shut, Records
  <2>5. f.outBuf = 0
    BY <1>3, <2>3
  <2>6. g.wroteShutdown => g.endRequested /\ g.outBuf = 0
    BY <1>2, <2>3, <2>4, <2>5
  <2>7. g.events = h.events /\ g.got = h.got /\ g.peerEof = h.peerEof
    BY <2>3, <2>4 DEF Alike
  <2> QED BY <2>6, <2>7, CleanOpen
<1>6. ASSUME NEW n \in 0 .. h.outBuf - 1, NEW f, f = Sent(h, n)
      PROVE  f \in Records /\ ~f.closed /\ f.events = h.events /\ Clean(f, s, m)
  <2>1. n \in 0 .. h.outBuf /\ h.outBuf # 0
    BY <1>3
  <2>2. f \in Records /\ Alike(h, f) /\ f.wroteShutdown = h.wroteShutdown
    BY <1>4, <1>6, <2>1
  <2>3. f.got = h.got /\ f.peerEof = h.peerEof /\ ~f.wroteShutdown
    BY <1>2, <2>1, <2>2 DEF Alike
  <2>4. Clean(f, s, m)
    BY <1>1, <2>3, CleanOpen
  <2> QED BY <2>2, <2>4 DEF Alike
<1>7. CASE \E n \in 0 .. h.outBuf - 1 : g = Sent(h, n)
  <2>1. PICK n \in 0 .. h.outBuf - 1 : g = Sent(h, n)
    BY <1>7
  <2>2. g.events = h.events /\ Clean(g, s, m)
    BY <1>6, <2>1
  <2> QED BY <1>1, <2>2
<1>8. CASE \E n \in 0 .. h.outBuf - 1 : g = Failed(Sent(h, n))
  <2>1. PICK n \in 0 .. h.outBuf - 1 : g = Failed(Sent(h, n))
    BY <1>8
  <2>2. PICK f : f = Sent(h, n)
    OBVIOUS
  <2>3. f \in Records /\ ~f.closed /\ f.events = h.events /\ Clean(f, s, m)
    BY <1>6, <2>2
  <2>4. ~Has(t \o f.events, Close) /\ Clean(f, t \o f.events, m)
    BY <1>1, <2>3
  <2> QED BY <2>1, <2>2, <2>3, <2>4, FailedClean
<1> QED BY <1>5, <1>7, <1>8 DEF Flushed

LEMMA FinishedClean ==
  ASSUME NEW h \in Records, NEW t \in Seq(Events), NEW l, NEW m,
         Linked(h, t \o h.events), ~h.closed, Clean(h, t \o h.events, l),
         NEW g \in FlushedAndFinished(h)
  PROVE  Clean(g, t \o g.events, m)
<1>1. PICK f \in Flushed(h) : g = Finished(f)
  BY DEF FlushedAndFinished
<1>2. f \in Records /\ Linked(f, t \o f.events)
  BY <1>1, FlushedLinked
<1>3. ~Has(t \o h.events, Close)
  BY DEF Linked, Unfinished
<1>4. Clean(f, t \o f.events, m)
  BY <1>1, <1>3, FlushedClean
<1>5. CASE f.peerEof /\ f.wroteShutdown /\ ~f.closed
  <2>1. g = Closed(f)
    BY <1>1, <1>5 DEF Finished
  <2>2. ~Has(t \o f.events, Close)
    BY <1>2, <1>5 DEF Linked, Unfinished
  <2> QED BY <1>2, <1>4, <1>5, <2>1, <2>2, ClosedClean
<1>6. CASE ~(f.peerEof /\ f.wroteShutdown /\ ~f.closed)
  <2>1. g = f
    BY <1>1, <1>6 DEF Finished
  <2> QED BY <1>4, <2>1
<1> QED BY <1>5, <1>6

\* A handle as it is made.
LEMMA NewClean ==
  ASSUME NEW kind \in {"none", "listener", "conn", "udp"}, NEW held \in BOOLEAN, NEW l,
         NEW h, h = New(kind, held)
  PROVE  /\ h \in Records /\ h.kind = kind /\ ~h.closed /\ ~h.peerEof /\ ~h.wroteShutdown
         /\ h.events = <<>> /\ Clean(h, <<>> \o h.events, l)
<1>1. /\ h \in Records /\ h.kind = kind /\ ~h.closed /\ ~h.peerEof /\ ~h.wroteShutdown
      /\ h.events = <<>>
  BY NewLinked DEF New
<1>2. <<>> \o h.events = <<>>
  BY <1>1
<1>3. Clean(h, <<>>, l)
  BY <1>1, LegalNothing DEF Clean
<1> QED BY <1>1, <1>2, <1>3

LEMMA InitGrace == Init => GraceInv
<1> SUFFICES ASSUME Init PROVE GraceInv
  OBVIOUS
<1>1. Lefts
  BY DEF Init, Lefts
<1>2. ASSUME NEW i \in Handles PROVE Clean(handle[i], told[i] \o handle[i].events, left[i])
  <2>1. handle[i] = New("none", FALSE) /\ told[i] = <<>>
    BY DEF Init
  <2> QED BY <2>1, NewClean
<1> QED BY <1>1, <1>2 DEF GraceInv

\* One handle becomes h, and the program may have gone on with it.
LEMMA GraceStep ==
  ASSUME Typed, GraceInv, NEW i \in Handles, NEW h, NEW m \in {"no", "ended", "destroyed"},
         Clean(h, told[i] \o h.events, m), handle' = [handle EXCEPT ![i] = h],
         left' = [left EXCEPT ![i] = m], UNCHANGED told
  PROVE  GraceInv'
<1>1. Lefts'
  BY DEF GraceInv, Lefts
<1>2. ASSUME NEW k \in Handles PROVE Clean(handle'[k], told'[k] \o handle'[k].events, left'[k])
  <2>1. CASE k = i
    <3>1. handle'[k] = h /\ left'[k] = m
      BY <2>1 DEF Typed, GraceInv, Lefts
    <3> QED BY <2>1, <3>1
  <2>2. CASE k # i
    <3>1. handle'[k] = handle[k] /\ left'[k] = left[k]
      BY <2>2 DEF Typed, GraceInv, Lefts
    <3> QED BY <3>1 DEF GraceInv
  <2> QED BY <2>1, <2>2
<1> QED BY <1>1, <1>2 DEF GraceInv

\* A step in which it did not.
LEMMA PlainStep ==
  ASSUME Typed, GraceInv, NEW i \in Handles, NEW h,
         Clean(h, told[i] \o h.events, left[i]), handle' = [handle EXCEPT ![i] = h],
         UNCHANGED <<told, left>>
  PROVE  GraceInv'
<1>1. left[i] \in {"no", "ended", "destroyed"} /\ left' = [left EXCEPT ![i] = left[i]]
  BY DEF GraceInv, Lefts
<1> QED BY <1>1, GraceStep

LEMMA OpenGrace ==
  ASSUME SocketInv, GraceInv, NEW h, Clean(h, <<>> \o h.events, left[nextId]), Open({h})
  PROVE  GraceInv'
<1>1. /\ nextId \in Handles /\ handle' = [handle EXCEPT ![nextId] = h]
      /\ UNCHANGED <<told, left>>
  BY DEF Open, Becomes
<1>2. told[nextId] = <<>>
  BY <1>1, Bounds DEF SocketInv, Fresh, Typed
<1> QED BY <1>1, <1>2, PlainStep DEF SocketInv

LEMMA ProgramGrace ==
  ASSUME SocketInv, GraceInv, Program
  PROVE  GraceInv'
<1>1. CASE Listen
  <2>1. Open({New("listener", TRUE)})
    BY <1>1 DEF Listen
  <2> QED BY <2>1, NewClean, OpenGrace
<1>2. CASE UdpOpen
  <2>1. Open({New("udp", FALSE)})
    BY <1>2 DEF UdpOpen
  <2> QED BY <2>1, NewClean, OpenGrace
<1>3. CASE TcpConnect
  <2>1. PICK h : h = New("conn", TRUE)
    OBVIOUS
  <2>2. PICK l : l = left[nextId]
    OBVIOUS
  <2>3. /\ h \in Records /\ ~h.closed /\ ~h.peerEof /\ ~h.wroteShutdown
        /\ h.events = <<>> /\ Clean(h, <<>> \o h.events, l) /\ <<>> \o h.events = <<>>
    <3>1. /\ h \in Records /\ ~h.closed /\ ~h.peerEof /\ ~h.wroteShutdown
          /\ h.events = <<>> /\ Clean(h, <<>> \o h.events, l)
      BY <2>1, NewClean
    <3>2. <<>> \o h.events = <<>>
      BY <3>1
    <3> QED BY <3>1, <3>2
  <2>4. ~Has(<<>>, Close) /\ <<>> \in Seq(Events)
    BY LegalNothing
  <2>5. PICK g \in {Queue(h, Connect), [h EXCEPT !.connecting = TRUE], Failed(h)} : Open({g})
    BY <1>3, <2>1 DEF TcpConnect, Open, Becomes
  <2>6. CASE g = Queue(h, Connect)
    <3>1. g \in Records /\ Queued(h, Connect, g) /\ Ends(h, g)
      BY <2>3, <2>6, EventsTyped, QueueFields, QueueEnds
    <3>2. Connect \in Events /\ Connect.type # "data" /\ Connect # Close
      BY EventsDiffer
    <3>3. g.got = h.got /\ g.peerEof = h.peerEof /\ ~g.wroteShutdown
      BY <2>3, <3>1 DEF Queued, Ends
    <3>4. Clean(g, Append(<<>>, Connect), l)
      BY <2>3, <2>4, <3>1, <3>2, <3>3, CleanAppend
    <3>5. <<>> \o g.events = Append(<<>>, Connect)
      BY <2>3, <3>1 DEF Queued
    <3> QED BY <2>2, <2>5, <3>4, <3>5, OpenGrace
  <2>7. CASE g = [h EXCEPT !.connecting = TRUE]
    <3>1. /\ g.got = h.got /\ g.peerEof = h.peerEof /\ ~g.wroteShutdown
          /\ g.events = <<>>
      BY <2>3, <2>7 DEF Records
    <3>2. Clean(g, <<>>, l)
      BY <2>3, <2>4, <3>1, CleanOpen
    <3> QED BY <2>2, <2>3, <2>5, <3>1, <3>2, OpenGrace
  <2>8. CASE g = Failed(h)
    <3>1. Clean(g, <<>> \o g.events, l)
      BY <2>3, <2>4, <2>8, FailedClean
    <3> QED BY <2>2, <2>5, <3>1, OpenGrace
  <2> QED BY <2>5, <2>6, <2>7, <2>8
<1>4. ASSUME NEW i \in Opened,
             UdpBind(i) \/ UdpSendFails(i) \/ Write(i) \/ EndWrites(i) \/ Destroy(i) \/ Revoke(i)
      PROVE  GraceInv'
  <2>1. i \in Handles /\ Typed
    BY Bounds DEF Opened, SocketInv, Typed
  <2>2. PICK h : h = handle[i]
    OBVIOUS
  <2>3. PICK t : t = told[i]
    OBVIOUS
  <2>4. PICK l : l = left[i]
    OBVIOUS
  <2>5. /\ h \in Records /\ t \in Seq(Events) /\ Linked(h, t \o h.events)
        /\ Clean(h, t \o h.events, l)
    BY <2>1, <2>2, <2>3, <2>4 DEF SocketInv, Typed, Histories, GraceInv
  <2>6. ~h.closed => ~Has(t \o h.events, Close)
    BY <2>5 DEF Linked, Unfinished
  <2>7. h.wroteShutdown => h.endRequested /\ h.outBuf = 0
    BY <2>5 DEF Clean
  <2>8. UNCHANGED told
    BY <1>4 DEF UdpBind, UdpSendFails, Write, EndWrites, Destroy, Revoke, OnHandle
  <2>9. CASE UdpBind(i)
    <3>1. PICK g : g = [h EXCEPT !.held = TRUE]
      OBVIOUS
    <3>2. handle' = [handle EXCEPT ![i] = g] /\ left' = left /\ ~h.closed
      BY <2>2, <2>9, <3>1 DEF UdpBind, OnHandle
    <3>3. /\ g.got = h.got /\ g.peerEof = h.peerEof /\ g.events = h.events
          /\ g.wroteShutdown = h.wroteShutdown /\ g.endRequested = h.endRequested
          /\ g.outBuf = h.outBuf
      BY <2>5, <3>1 DEF Records
    <3>4. Clean(g, t \o g.events, l)
      BY <2>5, <2>6, <2>7, <3>2, <3>3, CleanOpen
    <3> QED BY <2>1, <2>3, <2>4, <2>8, <3>2, <3>4, PlainStep
  <2>10. CASE UdpSendFails(i) \/ Revoke(i)
    <3>1. PICK g : g = Failed(h)
      OBVIOUS
    <3>2. handle' = [handle EXCEPT ![i] = g] /\ left' = left
      BY <2>2, <2>10, <3>1 DEF UdpSendFails, Revoke
    <3>3. CASE h.closed
      <4>1. g = h
        BY <3>1, <3>3 DEF Failed
      <4> QED BY <2>1, <2>3, <2>4, <2>5, <2>8, <3>2, <4>1, PlainStep
    <3>4. CASE ~h.closed
      <4>1. Clean(g, t \o g.events, l)
        BY <2>5, <2>6, <3>1, <3>4, FailedClean
      <4> QED BY <2>1, <2>3, <2>4, <2>8, <3>2, <4>1, PlainStep
    <3> QED BY <3>3, <3>4
  <2>11. CASE Destroy(i)
    <3>1. PICK g : g = Closed(h)
      OBVIOUS
    <3>2. handle' = [handle EXCEPT ![i] = g] /\ left' = [left EXCEPT ![i] = "destroyed"] /\ ~h.closed
      BY <2>2, <2>11, <3>1 DEF Destroy, OnHandle
    <3>3. Clean(g, t \o g.events, "destroyed")
      BY <2>5, <2>6, <3>1, <3>2, ClosedClean
    <3> QED BY <2>1, <2>3, <2>8, <3>2, <3>3, GraceStep
  <2>12. CASE Write(i)
    <3>1. PICK f : f = [h EXCEPT !.outBuf = h.outBuf + 1]
      OBVIOUS
    <3>2. left' = left /\ ~h.closed /\ ~h.endRequested
      BY <2>2, <2>12 DEF Write, OnHandle
    <3>3. PICK g \in (IF f.connecting THEN {f} ELSE Flushed(f)) : handle' = [handle EXCEPT ![i] = g]
      BY <2>2, <2>12, <3>1 DEF Write, Becomes
    <3>4. f \in Records
      <4>1. h.outBuf + 1 \in Nat
        BY <2>5 DEF Records
      <4> QED BY <2>5, <3>1, <4>1 DEF Records
    <3>5. /\ f.got = h.got /\ f.peerEof = h.peerEof /\ f.events = h.events /\ ~f.closed
          /\ f.wroteShutdown = h.wroteShutdown
      BY <2>5, <3>1, <3>2 DEF Records
    <3>6. Clean(f, t \o f.events, l) /\ ~Has(t \o f.events, Close)
      BY <2>5, <2>6, <2>7, <3>2, <3>5, CleanOpen
    <3>7. Clean(g, t \o g.events, l)
      BY <2>5, <3>3, <3>4, <3>5, <3>6, FlushedClean
    <3> QED BY <2>1, <2>3, <2>4, <2>8, <3>2, <3>3, <3>7, PlainStep
  <2>13. CASE EndWrites(i)
    <3>1. PICK f : f = [h EXCEPT !.endRequested = TRUE]
      OBVIOUS
    <3>2. left' = [left EXCEPT ![i] = "ended"] /\ ~h.closed
      BY <2>2, <2>13 DEF EndWrites, OnHandle
    <3>3. PICK g \in (IF f.connecting THEN {f} ELSE FlushedAndFinished(f)) :
            handle' = [handle EXCEPT ![i] = g]
      BY <2>2, <2>13, <3>1 DEF EndWrites, Becomes
    <3>4. f \in Records /\ Alike(h, f)
      BY <2>5, <3>1 DEF Records, Alike
    <3>5. f.wroteShutdown = h.wroteShutdown /\ f.outBuf = h.outBuf /\ f.endRequested
      BY <2>5, <3>1 DEF Records
    <3>6. /\ f.got = h.got /\ f.peerEof = h.peerEof /\ f.events = h.events /\ ~f.closed
          /\ Linked(f, t \o f.events)
      BY <2>5, <3>2, <3>4, AlikeLinked DEF Alike
    <3>7. Clean(f, t \o f.events, "ended")
      BY <2>5, <2>6, <2>7, <3>2, <3>5, <3>6, CleanOpen
    <3>8. Clean(g, t \o g.events, "ended")
      BY <2>5, <3>3, <3>4, <3>6, <3>7, FinishedClean
    <3> QED BY <2>1, <2>3, <2>8, <3>2, <3>3, <3>8, GraceStep
  <2> QED BY <1>4, <2>9, <2>10, <2>11, <2>12, <2>13
<1> QED BY <1>1, <1>2, <1>3, <1>4 DEF Program

LEMMA AcceptGrace ==
  ASSUME SocketInv, GraceInv, AcceptOne
  PROVE  GraceInv'
<1>1. PICK n : n = nextId
  OBVIOUS
<1>2. PICK h : h = handle[cur]
  OBVIOUS
<1>3. PICK c : c = New("conn", h.held)
  OBVIOUS
<1>4. PICK g : g = Queue(h, Accept(n))
  OBVIOUS
<1>5. /\ pc = "recv" /\ n \in Handles
      /\ handle' = [handle EXCEPT ![n] = c, ![cur] = g]
      /\ UNCHANGED <<told, left>>
  BY <1>1, <1>2, <1>3, <1>4 DEF AcceptOne, native
<1>6. cur \in 1 .. n - 1 /\ cur \in Handles /\ n \in Nat /\ cur # n
  BY <1>1, <1>5, Bounds DEF SocketInv, Pumping, Typed
<1>7. PICK t : t = told[cur]
  OBVIOUS
<1>8. PICK s : s = t \o h.events
  OBVIOUS
<1>9. /\ h \in Records /\ t \in Seq(Events) /\ Linked(h, s) /\ Clean(h, s, left[cur]) /\ ~h.closed
  BY <1>2, <1>5, <1>6, <1>7, <1>8 DEF SocketInv, Typed, Histories, Pumping, GraceInv
<1>10. ~Has(s, Close) /\ (h.wroteShutdown => h.endRequested /\ h.outBuf = 0)
  BY <1>9 DEF Linked, Unfinished, Clean
<1>11. Clean(c, <<>> \o c.events, left[n])
  <2>1. h.held \in BOOLEAN
    BY <1>9 DEF Records
  <2> QED BY <1>3, <2>1, NewClean
<1>12. /\ Accept(n) \in Events /\ Accept(n).type # "data" /\ Accept(n) # Close
  BY <1>6, EventsDiffer
<1>13. g \in Records /\ Queued(h, Accept(n), g) /\ Ends(h, g)
  BY <1>4, <1>9, <1>12, QueueFields, QueueEnds
<1>14. s \in Seq(Events) /\ t \o g.events = Append(s, Accept(n))
  <2>1. h.events \in Seq(Events) /\ g.events = Append(h.events, Accept(n))
    BY <1>9, <1>13 DEF Records, Queued
  <2>2. /\ t \o h.events \in Seq(Events)
        /\ t \o Append(h.events, Accept(n)) = Append(t \o h.events, Accept(n))
    BY <1>9, <1>12, <2>1, QueueGrows
  <2> QED BY <1>8, <2>1, <2>2
<1>15. g.got = h.got /\ g.peerEof = h.peerEof /\ (g.wroteShutdown => g.endRequested /\ g.outBuf = 0)
  BY <1>10, <1>13 DEF Queued, Ends
<1>16. Clean(g, Append(s, Accept(n)), left[cur])
  BY <1>9, <1>10, <1>12, <1>13, <1>14, <1>15, CleanAppend
<1>17. ASSUME NEW k \in Handles PROVE Clean(handle'[k], told'[k] \o handle'[k].events, left'[k])
  <2>1. CASE k = n
    <3>1. handle'[k] = c /\ told'[k] = <<>>
      BY <1>1, <1>5, <1>6, <2>1 DEF SocketInv, Typed, Fresh
    <3> QED BY <1>5, <1>11, <2>1, <3>1
  <2>2. CASE k = cur
    <3>1. handle'[k] = g /\ told'[k] = t
      BY <1>5, <1>6, <1>7, <2>2 DEF SocketInv, Typed
    <3> QED BY <1>5, <1>14, <1>16, <2>2, <3>1
  <2>3. CASE k # n /\ k # cur
    <3>1. handle'[k] = handle[k] /\ told'[k] = told[k]
      BY <1>5, <2>3 DEF SocketInv, Typed
    <3> QED BY <1>5, <3>1 DEF GraceInv
  <2> QED BY <2>1, <2>2, <2>3
<1>18. Lefts'
  BY <1>5 DEF GraceInv, Lefts
<1> QED BY <1>17, <1>18 DEF GraceInv

\* Nothing that a close leaves behind is about has changed.
LEMMA GraceKept ==
  ASSUME GraceInv, UNCHANGED <<handle, told, left>>
  PROVE  GraceInv'
<1> QED BY DEF GraceInv, Lefts

LEMMA PumpGrace ==
  ASSUME SocketInv, GraceInv, Pump
  PROVE  GraceInv'
<1>1. CASE Visit \/ NothingToDo \/ RecvStops
  BY <1>1, GraceKept DEF Visit, NothingToDo, RecvStops, native
<1>2. CASE AcceptOne
  BY <1>2, AcceptGrace
<1>3. ASSUME ConnectEnds \/ RecvData \/ RecvEof \/ RecvFails \/ FlushOut
      PROVE  GraceInv'
  <2>1. pc \in {"recv", "flush"} /\ UNCHANGED <<told, left>>
    BY <1>3 DEF ConnectEnds, RecvData, RecvEof, RecvFails, FlushOut, Reading, native
  <2>2. cur \in Handles /\ ~handle[cur].closed /\ Typed
    BY <2>1, Bounds DEF SocketInv, Pumping, Typed
  <2>3. PICK h : h = handle[cur]
    OBVIOUS
  <2>4. PICK t : t = told[cur]
    OBVIOUS
  <2>5. PICK l : l = left[cur]
    OBVIOUS
  <2>6. PICK s : s = t \o h.events
    OBVIOUS
  <2>7. /\ h \in Records /\ t \in Seq(Events) /\ Linked(h, t \o h.events) /\ ~h.closed
        /\ Clean(h, t \o h.events, l)
    BY <2>2, <2>3, <2>4, <2>5 DEF SocketInv, Typed, Histories, GraceInv
  <2>8. ~Has(t \o h.events, Close) /\ (h.wroteShutdown => h.endRequested /\ h.outBuf = 0)
    BY <2>7 DEF Linked, Unfinished, Clean
  <2>9. s \in Seq(Events) /\ h.events \in Seq(Events)
    <3>1. h.events \in Seq(Events)
      BY <2>7 DEF Records
    <3> QED BY <2>6, <2>7, <3>1, ConcatProperties
  <2>10. SUFFICES ASSUME TRUE
                  PROVE  \E g : handle' = [handle EXCEPT ![cur] = g] /\ Clean(g, t \o g.events, l)
    BY <2>1, <2>2, <2>4, <2>5, PlainStep
  <2>11. CASE ConnectEnds
    <3>1. PICK f : f = [h EXCEPT !.connecting = FALSE]
      OBVIOUS
    <3>2. PICK g \in {Failed(h)} \union Flushed(Queue(f, Connect)) :
            handle' = [handle EXCEPT ![cur] = g]
      BY <2>3, <2>11, <3>1 DEF ConnectEnds, Becomes
    <3>3. CASE g = Failed(h)
      <4>1. Clean(g, t \o g.events, l)
        BY <2>7, <2>8, <3>3, FailedClean
      <4> QED BY <3>2, <4>1
    <3>4. CASE g \in Flushed(Queue(f, Connect))
      <4>1. PICK e : e = Queue(f, Connect)
        OBVIOUS
      <4>2. f \in Records
        BY <2>7, <3>1 DEF Records
      <4>3. /\ f.got = h.got /\ f.peerEof = h.peerEof /\ f.events = h.events /\ ~f.closed
            /\ f.wroteShutdown = h.wroteShutdown /\ f.endRequested = h.endRequested
            /\ f.outBuf = h.outBuf
        BY <2>7, <3>1 DEF Records
      <4>4. e \in Records /\ Queued(f, Connect, e) /\ Ends(f, e)
        BY <4>1, <4>2, EventsTyped, QueueFields, QueueEnds
      <4>5. Connect \in Events /\ Connect.type # "data" /\ Connect # Close
        BY EventsDiffer
      <4>6. t \o e.events = Append(s, Connect)
        <5>1. e.events = Append(h.events, Connect)
          BY <4>3, <4>4 DEF Queued
        <5> QED BY <2>6, <2>7, <2>9, <4>5, <5>1, QueueGrows
      <4>7. /\ e.got = h.got /\ e.peerEof = h.peerEof /\ ~e.closed
            /\ (e.wroteShutdown => e.endRequested /\ e.outBuf = 0)
        BY <2>8, <4>3, <4>4 DEF Queued, Ends
      <4>8. Clean(e, Append(s, Connect), l)
        BY <2>6, <2>7, <2>8, <2>9, <4>4, <4>5, <4>7, CleanAppend
      <4>9. ~Has(Append(s, Connect), Close)
        BY <2>6, <2>8, <2>9, <4>5, HasAppend
      <4>10. Clean(g, t \o g.events, l)
        BY <2>7, <3>4, <4>1, <4>4, <4>6, <4>7, <4>8, <4>9, FlushedClean
      <4> QED BY <3>2, <4>10
    <3> QED BY <3>2, <3>3, <3>4
  <2>12. CASE RecvData
    <3>1. PICK f : f = [h EXCEPT !.got = h.got + 1]
      OBVIOUS
    <3>2. PICK e : e = Data(h.got + 1)
      OBVIOUS
    <3>3. PICK g : g = Queue(f, e)
      OBVIOUS
    <3>4. handle' = [handle EXCEPT ![cur] = g]
      <4>1. handle' = [handle EXCEPT ![cur] =
                          Queue([handle[cur] EXCEPT !.got = handle[cur].got + 1],
                                Data(handle[cur].got + 1))]
        BY <2>12, Zenon DEF RecvData
      <4>2. g = Queue([handle[cur] EXCEPT !.got = handle[cur].got + 1], Data(handle[cur].got + 1))
        BY <2>3, <3>1, <3>2, <3>3
      <4> QED BY <4>1, <4>2
    <3>5. h.got \in Nat /\ h.got + 1 \in Nat
      BY <2>7 DEF Records
    <3>6. f \in Records
      BY <2>7, <3>1, <3>5 DEF Records
    <3>7. /\ f.peerEof = h.peerEof /\ f.got = h.got + 1 /\ f.events = h.events
          /\ f.wroteShutdown = h.wroteShutdown /\ f.endRequested = h.endRequested
          /\ f.outBuf = h.outBuf
      BY <2>7, <3>1 DEF Records
    <3>8. e \in Events /\ e.type = "data" /\ e.n = h.got + 1 /\ e # Close
      BY <3>2, <3>5, EventsDiffer
    <3>9. g \in Records /\ Queued(f, e, g) /\ Ends(f, g)
      BY <3>3, <3>6, <3>8, QueueFields, QueueEnds
    <3>10. t \o g.events = Append(s, e)
      <4>1. g.events = Append(h.events, e)
        BY <3>7, <3>9 DEF Queued
      <4> QED BY <2>6, <2>7, <2>9, <3>8, <4>1, QueueGrows
    <3>11. /\ g.got = h.got + 1 /\ g.peerEof = h.peerEof
           /\ (g.wroteShutdown => g.endRequested /\ g.outBuf = 0)
      BY <2>8, <3>7, <3>9 DEF Queued, Ends
    <3>12. Clean(g, Append(s, e), l)
      BY <2>6, <2>7, <2>8, <2>9, <3>8, <3>9, <3>11, CleanAppend
    <3> QED BY <3>4, <3>10, <3>12
  <2>13. CASE RecvEof
    <3>1. PICK f : f = [h EXCEPT !.peerEof = TRUE, !.endRequested = TRUE]
      OBVIOUS
    <3>2. PICK g : g = Queue(f, End)
      OBVIOUS
    <3>3. handle' = [handle EXCEPT ![cur] = IF h.peerEof THEN h ELSE g]
      BY <2>3, <2>13, <3>1, <3>2 DEF RecvEof
    <3>4. f \in Records
      BY <2>7, <3>1 DEF Records
    <3>5. /\ f.got = h.got /\ f.events = h.events /\ f.endRequested
          /\ f.wroteShutdown = h.wroteShutdown /\ f.outBuf = h.outBuf
      BY <2>7, <3>1 DEF Records
    <3>6. End \in Events /\ End.type # "data" /\ End # Close
      BY EventsDiffer
    <3>7. g \in Records /\ Queued(f, End, g) /\ Ends(f, g)
      BY <3>2, <3>4, <3>6, QueueFields, QueueEnds
    <3>8. t \o g.events = Append(s, End)
      <4>1. g.events = Append(h.events, End)
        BY <3>5, <3>7 DEF Queued
      <4> QED BY <2>6, <2>7, <2>9, <3>6, <4>1, QueueGrows
    <3>9. g.got = h.got /\ (g.wroteShutdown => g.endRequested /\ g.outBuf = 0)
      BY <2>8, <3>5, <3>7 DEF Queued, Ends
    <3>10. Clean(g, Append(s, End), l)
      BY <2>6, <2>7, <2>8, <2>9, <3>6, <3>7, <3>9, CleanAppend
    <3>11. CASE h.peerEof
      BY <2>7, <3>3, <3>11
    <3>12. CASE ~h.peerEof
      BY <3>3, <3>8, <3>10, <3>12
    <3> QED BY <3>11, <3>12
  <2>14. CASE RecvFails
    <3>1. PICK g : g = Failed(h)
      OBVIOUS
    <3>2. handle' = [handle EXCEPT ![cur] = g]
      BY <2>3, <2>14, <3>1 DEF RecvFails
    <3>3. Clean(g, t \o g.events, l)
      BY <2>7, <2>8, <3>1, FailedClean
    <3> QED BY <3>2, <3>3
  <2>15. CASE FlushOut
    <3>1. PICK g \in FlushedAndFinished(h) : handle' = [handle EXCEPT ![cur] = g]
      BY <2>3, <2>15 DEF FlushOut, Becomes
    <3>2. Clean(g, t \o g.events, l)
      BY <2>7, FinishedClean
    <3> QED BY <3>1, <3>2
  <2> QED BY <1>3, <2>11, <2>12, <2>13, <2>14, <2>15
<1> QED BY <1>1, <1>2, <1>3 DEF Pump

\* An event moves from the queue to what was told.
LEMMA DrainOneGrace ==
  ASSUME SocketInv, GraceInv, DrainOne
  PROVE  GraceInv'
<1>1. PICK h : h = handle[cur]
  OBVIOUS
<1>2. PICK e : e = Head(h.events)
  OBVIOUS
<1>3. PICK g : g = [h EXCEPT !.events = Tail(h.events)]
  OBVIOUS
<1>4. /\ cur \in live /\ h.events # <<>>
      /\ told' = [told EXCEPT ![cur] = Append(told[cur], e)]
      /\ handle' = [handle EXCEPT ![cur] = g]
      /\ UNCHANGED left
  BY <1>1, <1>2, <1>3 DEF DrainOne, HasEvents, rest
<1>5. cur \in Handles
  BY <1>4, Bounds DEF SocketInv, Typed
<1>6. PICK t : t = told[cur]
  OBVIOUS
<1>7. h \in Records /\ t \in Seq(Events) /\ Clean(h, t \o h.events, left[cur])
  BY <1>1, <1>5, <1>6 DEF SocketInv, Typed, GraceInv
<1>8. h.events \in Seq(Events)
  BY <1>7 DEF Records
<1>9. Append(t, e) \o Tail(h.events) = t \o h.events
  BY <1>2, <1>4, <1>7, <1>8, DrainKeeps
<1>10. /\ g.events = Tail(h.events) /\ g.kind = h.kind /\ g.peerEof = h.peerEof
       /\ g.got = h.got /\ Ends(h, g)
  BY <1>3, <1>7 DEF Records, Ends
<1>11. Clean(g, Append(t, e) \o g.events, left[cur])
  BY <1>7, <1>9, <1>10 DEF Clean, Ends
<1>12. ASSUME NEW k \in Handles PROVE Clean(handle'[k], told'[k] \o handle'[k].events, left'[k])
  <2>1. CASE k = cur
    <3>1. handle'[k] = g /\ told'[k] = Append(t, e)
      BY <1>4, <1>5, <1>6, <2>1 DEF SocketInv, Typed
    <3> QED BY <1>4, <1>11, <2>1, <3>1
  <2>2. CASE k # cur
    <3>1. handle'[k] = handle[k] /\ told'[k] = told[k]
      BY <1>4, <2>2 DEF SocketInv, Typed
    <3> QED BY <1>4, <3>1 DEF GraceInv
  <2> QED BY <2>1, <2>2
<1>13. Lefts'
  BY <1>4 DEF GraceInv, Lefts
<1> QED BY <1>12, <1>13 DEF GraceInv

LEMMA SweepGrace ==
  ASSUME SocketInv, GraceInv, Sweep
  PROVE  GraceInv'
<1>1. UNCHANGED <<told, left>>
  BY DEF Sweep, rest
<1>2. PICK C : handle' = [i \in Handles |-> IF i \in C THEN [handle[i] EXCEPT !.closedSweeps = 1]
                                             ELSE handle[i]]
  BY DEF Sweep
<1>3. ASSUME NEW k \in Handles PROVE Clean(handle'[k], told'[k] \o handle'[k].events, left'[k])
  <2>1. PICK h : h = handle[k]
    OBVIOUS
  <2>2. PICK g : g = handle'[k]
    OBVIOUS
  <2>3. h \in Records /\ Clean(h, told[k] \o h.events, left[k])
    BY <2>1 DEF SocketInv, Typed, GraceInv
  <2>4. g = h \/ g = [h EXCEPT !.closedSweeps = 1]
    BY <1>2, <2>1, <2>2
  <2>5. /\ g.events = h.events /\ g.kind = h.kind /\ g.peerEof = h.peerEof
        /\ g.got = h.got /\ Ends(h, g)
    BY <2>3, <2>4 DEF Records, Ends
  <2>6. Clean(g, told[k] \o g.events, left[k])
    BY <2>3, <2>5 DEF Clean, Ends
  <2> QED BY <1>1, <2>2, <2>6
<1>4. Lefts'
  BY <1>1 DEF GraceInv, Lefts
<1> QED BY <1>3, <1>4 DEF GraceInv

LEMMA NextGrace == SocketInv /\ GraceInv /\ [Next]_vars => GraceInv'
<1> SUFFICES ASSUME SocketInv, GraceInv, [Next]_vars PROVE GraceInv'
  OBVIOUS
<1>1. CASE Program
  BY <1>1, ProgramGrace
<1>2. CASE Pump
  BY <1>2, PumpGrace
<1>3. CASE DrainOne
  BY <1>3, DrainOneGrace
<1>4. CASE Sweep
  BY <1>4, SweepGrace
<1>5. CASE BeginTick \/ BeginDrain \/ NextKey \/ ListenerReturns \/ KeyDone \/ PassDone
  BY <1>5, GraceKept
     DEF BeginTick, BeginDrain, NextKey, ListenerReturns, KeyDone, PassDone, native, rest
<1>6. CASE UNCHANGED vars
  BY <1>6, GraceKept DEF vars
<1> QED BY <1>1, <1>2, <1>3, <1>4, <1>5, <1>6 DEF Next, Tick, Drain

\* When a wrapper is told of its close, each chunk that was received for it has been
\* told once; and a connection closed without an error, and not by destroy(), has sent
\* all that write() took and told the peer's end: whatever the program, its listeners,
\* the peers and the kernel do.
THEOREM ClosesAreGraceful == Spec => []GracefulClose
<1>1. SocketInv /\ GraceInv => GracefulClose
  <2> SUFFICES ASSUME SocketInv, GraceInv,
                      NEW i \in Opened, NEW j \in 1 .. Len(told[i]), told[i][j] \in Closes
               PROVE  /\ AllTold(i)
                      /\ told[i][j] = Close /\ handle[i].kind = "conn" /\ left[i] # "destroyed"
                           => handle[i].outBuf = 0 /\ \E k \in 1 .. j : told[i][k] = End
    BY DEF GracefulClose, Closes
  <2>1. i \in Handles
    BY Bounds DEF Opened, SocketInv, Typed
  <2>2. PICK h : h = handle[i]
    OBVIOUS
  <2>3. PICK t : t = told[i]
    OBVIOUS
  <2>4. /\ h \in Records /\ t \in Seq(Events) /\ Linked(h, t \o h.events)
        /\ Clean(h, t \o h.events, left[i])
    BY <2>1, <2>2, <2>3 DEF SocketInv, Typed, Histories, GraceInv
  <2>5. h.events \in Seq(Events)
    BY <2>4 DEF Records
  <2>6. Len(t) = j /\ t \o h.events = t
    <3>1. PICK s : s = t \o h.events
      OBVIOUS
    <3>2. t \in Seq(Events) /\ h.events \in Seq(Events) /\ j \in 1 .. Len(t) /\ t[j] \in Closes
      BY <2>3, <2>4, <2>5
    <3>3. /\ Len(s) = Len(t) + Len(h.events) /\ Len(t) \in Nat /\ Len(h.events) \in Nat
          /\ s[j] = t[j]
      BY <3>1, <3>2
    <3>4. j \in 1 .. Len(s) /\ Legal(s)
      BY <2>4, <3>1, <3>2, <3>3 DEF Linked
    <3>5. j = Len(s)
      BY <3>2, <3>3, <3>4 DEF Legal
    <3>6. Len(t) = j /\ Len(h.events) = 0
      BY <3>2, <3>3, <3>5
    <3>7. h.events = <<>>
      BY <2>5, <3>6
    <3> QED BY <2>4, <3>6, <3>7
  <2>7. Linked(h, t) /\ Clean(h, t, left[i])
    BY <2>4, <2>6
  <2>8. AllTold(i)
    <3>1. DataAt(i) = {k \in 1 .. Len(t) : t[k].type = "data"}
      BY <2>3 DEF DataAt
    <3>2. \A k \in DataAt(i) : t[k].n \in 1 .. h.got
      BY <2>7, <3>1 DEF Clean
    <3>3. \A k \in 1 .. h.got : \E m \in DataAt(i) : t[m].n = k
      <4>1. ASSUME NEW k \in 1 .. h.got PROVE \E m \in DataAt(i) : t[m].n = k
        <5>1. PICK m \in 1 .. Len(t) : t[m] = Data(k)
          BY <2>7 DEF Linked, Has
        <5>2. k \in Nat
          BY <2>4 DEF Records
        <5> QED BY <3>1, <5>1, <5>2, EventsDiffer
      <4> QED BY <4>1
    <3>4. \A k, m \in DataAt(i) : t[k].n = t[m].n => k = m
      BY <2>7, <3>1 DEF Clean
    <3> QED BY <2>2, <2>3, <3>2, <3>3, <3>4 DEF AllTold
  <2>9. ASSUME told[i][j] = Close, handle[i].kind = "conn", left[i] # "destroyed"
        PROVE  handle[i].outBuf = 0 /\ \E k \in 1 .. j : told[i][k] = End
    <3>1. Has(t, Close)
      BY <2>3, <2>9 DEF Has
    <3>2. h.outBuf = 0 /\ Has(t, End)
      BY <2>2, <2>7, <2>9, <3>1 DEF Clean
    <3> QED BY <2>2, <2>3, <2>6, <3>2 DEF Has
  <2> QED BY <2>8, <2>9
<1>2. SocketInv /\ GraceInv /\ [Next]_vars => (SocketInv /\ GraceInv)'
  BY NextSocket, NextGrace
<1> QED BY <1>1, <1>2, InitSocket, InitGrace, PTL DEF Spec

================================================================================
