----------------------------- MODULE PipeTo_proof -----------------------------
(***************************************************************************)
(* Proofs about PipeTo, for any number of chunks and any options: the sink *)
(* gets the chunks in their order, and a pipe that is fulfilled has had    *)
(* every one of them written.                                              *)
(*                                                                         *)
(* A pipe that runs waits for one thing at a time, a read, the reaction to *)
(* it, a write or the reaction to that: which one it is says where the     *)
(* chunks are that the sink has not reported yet.                          *)
(***************************************************************************)
EXTENDS PipeTo, SequenceTheorems, TLAPS

Reactions == [on : Callbacks \union {"read", "entry", "closed", "action"}, ok : BOOLEAN,
              chunk : Nat]

Readables == [state : {"readable", "closed", "errored"}, queue : Seq(Nat \ {0}),
              pendingReads : {0, 1}, closeRequested : BOOLEAN, started : BOOLEAN,
              pullInProgress : BOOLEAN, pullAgain : BOOLEAN, asked : BOOLEAN]

Writables == [state : {"writable", "closed", "errored"}, queue : Seq(Nat \ {0}),
              writing : Nat, closeRequested : BOOLEAN, closePending : BOOLEAN,
              started : BOOLEAN, closing : {"no", "asked", "ok", "failed"}]

\* Of the reactions in s none is to a promise among `names`, or x is the only one.
Idle(s, names) == \A i \in 1 .. Len(s) : s[i].on \notin names
One(s, names, x) == \E i \in 1 .. Len(s) :
                       s[i] = x /\ \A k \in 1 .. Len(s) : s[k].on \in names => k = i

Turn == {"read", "entry"}

-------------------------------------------------------------------------------
(* Sequences of reactions. *)

LEMMA Names ==
  /\ \A c \in Nat : /\ Value(c) \in Reactions /\ Value(c).on = "read"
                    /\ Value(c).ok /\ Value(c).chunk = c
                    /\ Wrote(c) \in Reactions /\ Wrote(c).on = "entry" /\ Wrote(c).ok
                    /\ Refused(c) \in Reactions /\ Refused(c).on = "entry" /\ ~Refused(c).ok
  /\ Done \in Reactions /\ Done.on = "read" /\ Done.ok /\ Done.chunk = 0
  /\ Failed \in Reactions /\ Failed.on = "read" /\ ~Failed.ok
  /\ \A ok \in BOOLEAN : ClosePromise(ok) \in Reactions /\ ClosePromise(ok).on = "closed"
<1> QED BY DEF Value, Wrote, Refused, Done, Failed, ClosePromise, Reaction, Reactions

LEMMA IdleConcat ==
  ASSUME NEW s \in Seq(Reactions), NEW t \in Seq(Reactions), NEW names
  PROVE  s \o t \in Seq(Reactions) /\ (Idle(s \o t, names) <=> Idle(s, names) /\ Idle(t, names))
<1>1. PICK u : u = s \o t
  OBVIOUS
<1>2. u \in Seq(Reactions)
  BY <1>1, ConcatProperties
<1>3. /\ Len(u) = Len(s) + Len(t) /\ Len(s) \in Nat /\ Len(t) \in Nat
      /\ \A i \in 1 .. Len(s) : u[i] = s[i]
      /\ \A i \in 1 .. Len(t) : u[Len(s) + i] = t[i]
  BY <1>1
<1>4. \A i \in 1 .. Len(u) : i \in 1 .. Len(s) \/ \E k \in 1 .. Len(t) : i = Len(s) + k
  <2>1. \A i \in 1 .. Len(u) : i \in 1 .. Len(s) \/ (i - Len(s) \in 1 .. Len(t)
                                                     /\ i = Len(s) + (i - Len(s)))
    BY <1>3
  <2> QED BY <2>1
<1>5. Idle(s, names) /\ Idle(t, names) => Idle(u, names)
  BY <1>3, <1>4 DEF Idle
<1>6. Idle(u, names) => Idle(s, names)
  BY <1>3 DEF Idle
<1>7. Idle(u, names) => Idle(t, names)
  <2>1. \A i \in 1 .. Len(t) : Len(s) + i \in 1 .. Len(u)
    BY <1>3
  <2> QED BY <1>3, <2>1 DEF Idle
<1> QED BY <1>1, <1>2, <1>5, <1>6, <1>7

LEMMA OneConcat ==
  ASSUME NEW s \in Seq(Reactions), NEW t \in Seq(Reactions), NEW names, NEW x,
         \/ One(s, names, x) /\ Idle(t, names)
         \/ Idle(s, names) /\ One(t, names, x)
  PROVE  One(s \o t, names, x)
<1>1. PICK u : u = s \o t
  OBVIOUS
<1>2. /\ Len(u) = Len(s) + Len(t) /\ Len(s) \in Nat /\ Len(t) \in Nat
      /\ \A i \in 1 .. Len(s) : u[i] = s[i]
      /\ \A i \in 1 .. Len(t) : u[Len(s) + i] = t[i]
  BY <1>1
<1>3. \A i \in 1 .. Len(u) : i \in 1 .. Len(s) \/ (i - Len(s) \in 1 .. Len(t)
                                                    /\ u[i] = t[i - Len(s)])
  <2>1. \A i \in 1 .. Len(u) : i \in 1 .. Len(s) \/ (i - Len(s) \in 1 .. Len(t)
                                                     /\ i = Len(s) + (i - Len(s)))
    BY <1>2
  <2> QED BY <1>2, <2>1
<1>4. CASE One(s, names, x) /\ Idle(t, names)
  <2>1. PICK i \in 1 .. Len(s) : s[i] = x /\ \A k \in 1 .. Len(s) : s[k].on \in names => k = i
    BY <1>4 DEF One
  <2>2. i \in 1 .. Len(u) /\ u[i] = x
    BY <1>2, <2>1
  <2>3. \A k \in 1 .. Len(u) : u[k].on \in names => k = i
    BY <1>2, <1>3, <1>4, <2>1 DEF Idle
  <2> QED BY <1>1, <2>2, <2>3 DEF One
<1>5. CASE Idle(s, names) /\ One(t, names, x)
  <2>1. PICK i \in 1 .. Len(t) : t[i] = x /\ \A k \in 1 .. Len(t) : t[k].on \in names => k = i
    BY <1>5 DEF One
  <2>2. Len(s) + i \in 1 .. Len(u) /\ u[Len(s) + i] = x
    BY <1>2, <2>1
  <2>3. ASSUME NEW k \in 1 .. Len(u), u[k].on \in names PROVE k = Len(s) + i
    <3>1. k \notin 1 .. Len(s)
      BY <1>2, <1>5, <2>3 DEF Idle
    <3>2. k - Len(s) \in 1 .. Len(t) /\ u[k] = t[k - Len(s)]
      BY <1>3, <3>1
    <3>3. k - Len(s) = i
      BY <2>1, <2>3, <3>2
    <3> QED BY <1>2, <3>3
  <2> QED BY <1>1, <2>2, <2>3 DEF One
<1> QED BY <1>4, <1>5

\* Few reactions.
LEMMA Few ==
  ASSUME NEW names
  PROVE  /\ <<>> \in Seq(Reactions) /\ Idle(<<>>, names)
         /\ \A x \in Reactions : /\ <<x>> \in Seq(Reactions)
                                 /\ One(<<x>>, names, x)
                                 /\ x.on \notin names => Idle(<<x>>, names)
<1>1. ASSUME NEW x \in Reactions
      PROVE  /\ <<x>> \in Seq(Reactions) /\ One(<<x>>, names, x)
             /\ x.on \notin names => Idle(<<x>>, names)
  <2>1. Len(<<x>>) = 1 /\ <<x>>[1] = x
    OBVIOUS
  <2>2. \A k \in 1 .. 1 : k = 1
    OBVIOUS
  <2>3. One(<<x>>, names, x)
    BY <2>1, <2>2 DEF One
  <2>4. x.on \notin names => Idle(<<x>>, names)
    BY <2>1, <2>2 DEF Idle
  <2> QED BY <2>3, <2>4
<1> QED BY <1>1 DEF Idle

\* The first reaction runs.
LEMMA Tails ==
  ASSUME NEW s \in Seq(Reactions), s # <<>>, NEW names
  PROVE  /\ Head(s) \in Reactions /\ Tail(s) \in Seq(Reactions)
         /\ Idle(s, names) => Idle(Tail(s), names) /\ Head(s).on \notin names
         /\ \A x : One(s, names, x) /\ x.on \in names =>
               IF Head(s).on \in names THEN Head(s) = x /\ Idle(Tail(s), names)
                                       ELSE One(Tail(s), names, x)
<1>1. PICK t : t = Tail(s)
  OBVIOUS
<1>2. /\ Head(s) \in Reactions /\ t \in Seq(Reactions)
  BY <1>1, HeadTailProperties
<1>3. /\ Len(t) = Len(s) - 1 /\ Len(s) \in Nat /\ Len(s) >= 1 /\ Head(s) = s[1]
      /\ \A i \in 1 .. Len(t) : i + 1 \in 1 .. Len(s) /\ t[i] = s[i + 1]
  BY <1>1
<1>4. Idle(s, names) => Idle(t, names) /\ Head(s).on \notin names
  BY <1>3 DEF Idle
<1>5. ASSUME NEW x, One(s, names, x), x.on \in names
      PROVE  IF Head(s).on \in names THEN Head(s) = x /\ Idle(t, names) ELSE One(t, names, x)
  <2>1. PICK i \in 1 .. Len(s) : s[i] = x /\ \A k \in 1 .. Len(s) : s[k].on \in names => k = i
    BY <1>5 DEF One
  <2>2. CASE Head(s).on \in names
    <3>1. i = 1
      BY <1>3, <2>1, <2>2
    <3>2. \A k \in 1 .. Len(t) : k + 1 # 1
      BY <1>3
    <3>3. \A k \in 1 .. Len(t) : t[k].on \notin names
      BY <1>3, <2>1, <3>1, <3>2
    <3> QED BY <1>3, <2>1, <2>2, <3>1, <3>3 DEF Idle
  <2>3. CASE Head(s).on \notin names
    <3>1. i # 1
      BY <1>3, <1>5, <2>1, <2>3
    <3>2. i - 1 \in 1 .. Len(t) /\ t[i - 1] = x
      <4>1. i - 1 \in 1 .. Len(t) /\ (i - 1) + 1 = i
        BY <1>3, <3>1
      <4> QED BY <1>3, <2>1, <4>1
    <3>3. \A k \in 1 .. Len(t) : t[k].on \in names => k = i - 1
      <4>1. \A k \in 1 .. Len(t) : t[k].on \in names => k + 1 = i
        BY <1>3, <2>1
      <4> QED BY <1>3, <4>1
    <3> QED BY <2>3, <3>2, <3>3 DEF One
  <2> QED BY <2>2, <2>3
<1> QED BY <1>1, <1>2, <1>4, <1>5

-------------------------------------------------------------------------------
(* The readable stream. *)

\* g is s as far as the chunks are concerned.
Alike(s, g) == /\ g \in Readables
               /\ g.state = s.state /\ g.queue = s.queue /\ g.pendingReads = s.pendingReads

\* A call that ends the stream, if it does anything: the queue stays, a pending read fails
\* or finds the end.
Ends(s, g, js) ==
  \/ Alike(s, g) /\ js = <<>>
  \/ /\ g \in Readables /\ g.queue = s.queue /\ g.pendingReads = 0 /\ g.state # "readable"
     /\ \E e \in {Done, Failed} : js = IF s.pendingReads = 1 THEN <<e>> ELSE <<>>

LEMMA PullAlike ==
  ASSUME NEW s \in Readables
  PROVE  Alike(s, PullIfNeeded(s))
<1>1. PICK a : a = [s EXCEPT !.pullAgain = TRUE]
  OBVIOUS
<1>2. PICK b : b = [s EXCEPT !.pullInProgress = TRUE, !.asked = TRUE]
  OBVIOUS
<1>3. Alike(s, s)
  BY DEF Alike
<1>4. Alike(s, a)
  BY <1>1 DEF Alike, Readables
<1>5. Alike(s, b)
  BY <1>2 DEF Alike, Readables
<1>6. PullIfNeeded(s) \in {s, a, b}
  BY <1>1, <1>2 DEF PullIfNeeded
<1> QED BY <1>3, <1>4, <1>5, <1>6

LEMMA SettleShape ==
  ASSUME NEW s \in Readables, NEW state \in {"readable", "closed", "errored"}, NEW e
  PROVE  LET t == Settle(s, state, e)
         IN  /\ t.r \in Readables /\ t.r.queue = s.queue /\ t.r.pendingReads = 0
             /\ t.r.state = state
             /\ t.jobs = IF s.pendingReads = 1 THEN <<e>> ELSE <<>>
<1>1. PICK g : g = [s EXCEPT !.state = state, !.pendingReads = 0]
  OBVIOUS
<1>2. PICK js : js = [i \in 1 .. s.pendingReads |-> e]
  OBVIOUS
<1>3. Settle(s, state, e).r = g /\ Settle(s, state, e).jobs = js
  BY <1>1, <1>2 DEF Settle, Step
<1>4. /\ g \in Readables /\ g.queue = s.queue /\ g.pendingReads = 0 /\ g.state = state
  BY <1>1 DEF Readables
<1>5. s.pendingReads \in {0, 1}
  BY DEF Readables
<1>6. CASE s.pendingReads = 0
  <2>1. js = <<>>
    BY <1>2, <1>6
  <2> QED BY <1>3, <1>4, <1>6, <2>1
<1>7. CASE s.pendingReads = 1
  <2>1. js = <<e>>
    BY <1>2, <1>7
  <2> QED BY <1>3, <1>4, <1>7, <2>1
<1> QED BY <1>5, <1>6, <1>7

LEMMA ErrorEnds ==
  ASSUME NEW s \in Readables
  PROVE  Ends(s, ErrorReadable(s).r, ErrorReadable(s).jobs)
<1>1. CASE s.state = "readable"
  BY <1>1, SettleShape DEF ErrorReadable, Ends
<1>2. CASE s.state # "readable"
  BY <1>2 DEF ErrorReadable, Ends, Alike, Step
<1> QED BY <1>1, <1>2

LEMMA CloseEnds ==
  ASSUME NEW s \in Readables
  PROVE  Ends(s, CloseReadable(s).r, CloseReadable(s).jobs)
<1>1. CASE s.closeRequested
  BY <1>1 DEF CloseReadable, Ends, Alike, Step
<1>2. CASE ~s.closeRequested
  <2>1. PICK a : a = [s EXCEPT !.closeRequested = TRUE]
    OBVIOUS
  <2>2. Alike(s, a)
    BY <2>1 DEF Alike, Readables
  <2>3. CloseReadable(s) = Settle(a, "closed", Done)
    BY <1>2, <2>1 DEF CloseReadable
  <2> QED BY <2>2, <2>3, SettleShape DEF Ends, Alike
<1> QED BY <1>1, <1>2

LEMMA CancelEnds ==
  ASSUME NEW s \in Readables
  PROVE  Ends(s, Cancel(s).r, Cancel(s).jobs)
<1>1. CASE s.state = "readable"
  BY <1>1, SettleShape DEF Cancel, Ends
<1>2. CASE s.state # "readable"
  BY <1>2 DEF Cancel, Ends, Alike, Step
<1> QED BY <1>1, <1>2

LEMMA AlikeEnds ==
  ASSUME NEW s, NEW f, NEW g, NEW js, Alike(s, f), Ends(f, g, js)
  PROVE  Ends(s, g, js)
<1> QED BY DEF Alike, Ends

LEMMA StartedEnds ==
  ASSUME NEW s \in Readables, NEW ok \in BOOLEAN
  PROVE  Ends(s, SourceStarted(s, ok).r, SourceStarted(s, ok).jobs)
<1>1. PICK a : a = [s EXCEPT !.started = TRUE]
  OBVIOUS
<1>2. a \in Readables /\ Alike(s, a)
  BY <1>1 DEF Alike, Readables
<1>3. Alike(s, PullIfNeeded(a))
  BY <1>2, PullAlike DEF Alike
<1>4. CASE ok
  BY <1>1, <1>3, <1>4 DEF SourceStarted, Ends, Step
<1>5. CASE ~ok
  BY <1>5, ErrorEnds DEF SourceStarted
<1> QED BY <1>4, <1>5

LEMMA PulledEnds ==
  ASSUME NEW s \in Readables, NEW ok \in BOOLEAN
  PROVE  Ends(s, Pulled(s, ok).r, Pulled(s, ok).jobs)
<1>1. PICK a : a = [s EXCEPT !.pullInProgress = FALSE]
  OBVIOUS
<1>2. PICK b : b = [a EXCEPT !.pullAgain = FALSE]
  OBVIOUS
<1>3. a \in Readables /\ Alike(s, a)
  BY <1>1 DEF Alike, Readables
<1>4. b \in Readables /\ Alike(a, b)
  BY <1>2, <1>3 DEF Alike, Readables
<1>5. Alike(s, PullIfNeeded(b))
  BY <1>3, <1>4, PullAlike DEF Alike
<1>6. Ends(s, ErrorReadable(a).r, ErrorReadable(a).jobs)
  BY <1>3, ErrorEnds, AlikeEnds
<1>7. Pulled(s, ok) = IF ~ok THEN ErrorReadable(a)
                      ELSE IF s.pullAgain THEN Step(PullIfNeeded(b), <<>>) ELSE Step(a, <<>>)
  BY <1>1, <1>2 DEF Pulled
<1> QED BY <1>3, <1>5, <1>6, <1>7 DEF Ends, Step

\* What read() does: the oldest chunk, the end, or a pending read.
LEMMA ReadShape ==
  ASSUME NEW s \in Readables, s.pendingReads = 0
  PROVE  LET t == Read(s)
         IN  /\ t.r \in Readables /\ t.r.state = s.state
             /\ \/ /\ s.queue # <<>> /\ t.r.queue = Tail(s.queue) /\ t.r.pendingReads = 0
                   /\ t.jobs = <<Value(Head(s.queue))>>
                \/ /\ s.queue = <<>> /\ t.r.queue = <<>> /\ s.state # "readable"
                   /\ t.r.pendingReads = 0 /\ \E e \in {Done, Failed} : t.jobs = <<e>>
                \/ /\ s.queue = <<>> /\ t.r.queue = <<>> /\ s.state = "readable"
                   /\ t.r.pendingReads = 1 /\ t.jobs = <<>>
<1>1. CASE s.queue # <<>>
  <2>1. PICK a : a = [s EXCEPT !.queue = Tail(s.queue)]
    OBVIOUS
  <2>2. Tail(s.queue) \in Seq(Nat \ {0})
    <3>1. s.queue \in Seq(Nat \ {0})
      BY DEF Readables
    <3> QED BY <1>1, <3>1, HeadTailProperties
  <2>3. /\ a \in Readables /\ a.state = s.state /\ a.queue = Tail(s.queue) /\ a.pendingReads = 0
    BY <2>1, <2>2 DEF Readables
  <2>4. Alike(a, PullIfNeeded(a))
    BY <2>3, PullAlike
  <2>5. Read(s).r = PullIfNeeded(a) /\ Read(s).jobs = <<Value(Head(s.queue))>>
    BY <1>1, <2>1 DEF Read, Step
  <2> QED BY <1>1, <2>3, <2>4, <2>5 DEF Alike
<1>2. CASE s.queue = <<>> /\ s.state = "readable"
  <2>1. PICK a : a = [s EXCEPT !.pendingReads = s.pendingReads + 1]
    OBVIOUS
  <2>2. /\ a \in Readables /\ a.state = s.state /\ a.queue = s.queue /\ a.pendingReads = 1
    BY <2>1 DEF Readables
  <2>3. Alike(a, PullIfNeeded(a))
    BY <2>2, PullAlike
  <2>4. Read(s).r = PullIfNeeded(a) /\ Read(s).jobs = <<>>
    BY <1>2, <2>1 DEF Read, Step
  <2> QED BY <1>2, <2>2, <2>3, <2>4 DEF Alike
<1>3. CASE s.queue = <<>> /\ s.state # "readable"
  <2>1. s.state \in {"closed", "errored"}
    BY <1>3 DEF Readables
  <2>2. \E e \in {Done, Failed} : Read(s) = Step(s, <<e>>)
    BY <1>3, <2>1 DEF Read
  <2> QED BY <1>3, <2>2 DEF Step
<1> QED BY <1>1, <1>2, <1>3

-------------------------------------------------------------------------------
(* The writable stream. *)

\* A call that gives the sink its next chunk, or drops what is queued, or neither.
Goes(x, y, js) ==
  /\ y \in Writables /\ js \in Seq(Reactions) /\ Idle(js, {"write"})
  /\ y.state = "writable" => x.state = "writable"
  /\ \/ y.queue = x.queue /\ y.writing = x.writing /\ Idle(js, Turn)
        /\ (y.state # "writable" => x.state # "writable" \/ x.queue = <<>>)
     \/ /\ x.writing = 0 /\ x.queue # <<>> /\ x.state = "writable" /\ y.state = "writable"
        /\ y.queue = Tail(x.queue) /\ y.writing = Head(x.queue) /\ js = <<>>
     \/ /\ y.queue = <<>> /\ y.writing = x.writing /\ y.state # "writable"
        /\ x.queue = <<>> => Idle(js, Turn)
        /\ Len(x.queue) = 1 => \E c \in Nat : One(js, Turn, Refused(c))

LEMMA ProcessGoes ==
  ASSUME NEW x \in Writables
  PROVE  Goes(x, ProcessQueue(x), <<>>)
<1>1. PICK a : a = [x EXCEPT !.queue = Tail(x.queue), !.writing = Head(x.queue)]
  OBVIOUS
<1>2. PICK b : b = CloseStream(x)
  OBVIOUS
<1>3. x.queue \in Seq(Nat \ {0})
  BY DEF Writables
<1>4. <<>> \in Seq(Reactions) /\ Idle(<<>>, {"write"}) /\ Idle(<<>>, Turn)
  BY Few
<1>5. CASE ProcessQueue(x) = x
  BY <1>4, <1>5 DEF Goes
<1>6. CASE ProcessQueue(x) # x /\ x.queue # <<>>
  <2>1. ProcessQueue(x) = a /\ x.writing = 0 /\ x.state = "writable"
    BY <1>1, <1>6 DEF ProcessQueue
  <2>2. Tail(x.queue) \in Seq(Nat \ {0}) /\ Head(x.queue) \in Nat
    BY <1>3, <1>6, HeadTailProperties
  <2>3. /\ a \in Writables /\ a.state = x.state /\ a.queue = Tail(x.queue)
        /\ a.writing = Head(x.queue)
    BY <1>1, <2>2 DEF Writables
  <2> QED BY <1>4, <1>6, <2>1, <2>3 DEF Goes
<1>7. CASE ProcessQueue(x) # x /\ x.queue = <<>>
  <2>1. ProcessQueue(x) = b
    BY <1>2, <1>7 DEF ProcessQueue
  <2>2. /\ b \in Writables /\ b.state = "closed" /\ b.queue = x.queue /\ b.writing = x.writing
    BY <1>2 DEF CloseStream, Writables
  <2> QED BY <1>4, <1>7, <2>1, <2>2 DEF Goes
<1> QED BY <1>5, <1>6, <1>7

LEMMA RejectShape ==
  ASSUME NEW x \in Writables
  PROVE  LET m == RejectPending(x)
         IN  /\ m.w \in Writables /\ m.w.queue = <<>> /\ m.w.writing = x.writing
             /\ m.w.state = x.state
             /\ m.jobs \in Seq(Reactions) /\ Idle(m.jobs, {"write"})
             /\ x.queue = <<>> => Idle(m.jobs, Turn)
             /\ Len(x.queue) = 1 => \E c \in Nat : One(m.jobs, Turn, Refused(c))
<1>1. PICK y : y = [x EXCEPT !.queue = <<>>, !.closePending = FALSE]
  OBVIOUS
<1>2. PICK s : s = [i \in DOMAIN x.queue |-> Refused(x.queue[i])]
  OBVIOUS
<1>3. PICK t : t = IF x.closePending THEN <<ClosePromise(FALSE)>> ELSE <<>>
  OBVIOUS
<1>4. RejectPending(x).w = y /\ RejectPending(x).jobs = s \o t
  BY <1>1, <1>2, <1>3 DEF RejectPending, Move
<1>5. y \in Writables /\ y.queue = <<>> /\ y.writing = x.writing /\ y.state = x.state
  <2>1. <<>> \in Seq(Nat \ {0})
    OBVIOUS
  <2> QED BY <1>1, <2>1 DEF Writables
<1>6. t \in Seq(Reactions) /\ Idle(t, {"write"}) /\ Idle(t, Turn)
  <2>1. ClosePromise(FALSE) \in Reactions /\ ClosePromise(FALSE).on = "closed"
    BY Names
  <2>2. ClosePromise(FALSE).on \notin {"write"} /\ ClosePromise(FALSE).on \notin Turn
    BY <2>1 DEF Turn
  <2>3. t = <<ClosePromise(FALSE)>> \/ t = <<>>
    BY <1>3
  <2> QED BY <2>1, <2>2, <2>3, Few
<1>7. x.queue \in Seq(Nat \ {0}) /\ DOMAIN x.queue = 1 .. Len(x.queue) /\ Len(x.queue) \in Nat
      /\ \A i \in 1 .. Len(x.queue) : x.queue[i] \in Nat
  <2>1. x.queue \in Seq(Nat \ {0})
    BY DEF Writables
  <2> QED BY <2>1
<1>8. /\ \A i \in 1 .. Len(x.queue) : s[i] = Refused(x.queue[i]) /\ s[i] \in Reactions
                                      /\ s[i].on = "entry"
  BY <1>2, <1>7, Names
<1>9. s \in Seq(Reactions) /\ Len(s) = Len(x.queue)
  <2>1. PICK l \in Nat : l = Len(x.queue)
    BY <1>7
  <2>2. s \in [1 .. l -> Reactions]
    BY <1>2, <1>7, <1>8, <2>1
  <2>3. s \in Seq(Reactions)
    BY <2>1, <2>2, SeqDef
  <2>4. DOMAIN s = 1 .. l
    BY <2>2
  <2> QED BY <2>1, <2>3, <2>4, LenProperties
<1>10. Idle(s, {"write"})
  BY <1>8, <1>9 DEF Idle
<1>11. Idle(s \o t, {"write"}) /\ s \o t \in Seq(Reactions)
  BY <1>6, <1>9, <1>10, IdleConcat
<1>12. ASSUME x.queue = <<>> PROVE Idle(s \o t, Turn)
  <2>1. Idle(s, Turn)
    BY <1>9, <1>12 DEF Idle
  <2> QED BY <1>6, <1>9, <2>1, IdleConcat
<1>13. ASSUME Len(x.queue) = 1 PROVE \E c \in Nat : One(s \o t, Turn, Refused(c))
  <2>1. PICK c \in Nat : c = x.queue[1]
    BY <1>7, <1>13
  <2>2. s[1] = Refused(c) /\ 1 \in 1 .. Len(s) /\ \A k \in 1 .. Len(s) : k = 1
    BY <1>8, <1>9, <1>13, <2>1
  <2>3. One(s, Turn, Refused(c))
    BY <2>2 DEF One
  <2>4. One(s \o t, Turn, Refused(c))
    BY <1>6, <1>9, <2>3, OneConcat
  <2> QED BY <2>4
<1> QED BY <1>4, <1>5, <1>11, <1>12, <1>13

LEMMA ErrorGoes ==
  ASSUME NEW x \in Writables
  PROVE  /\ Goes(x, ErrorWritable(x).w, ErrorWritable(x).jobs)
         /\ ErrorWritable(x).w.state # "writable"
         /\ x.state # "closed" => Goes(x, Abort(x).w, Abort(x).jobs)
<1>1. PICK a : a = [x EXCEPT !.state = "errored"]
  OBVIOUS
<1>2. a \in Writables /\ a.state = "errored" /\ a.queue = x.queue /\ a.writing = x.writing
  BY <1>1 DEF Writables
<1>3. Goes(x, RejectPending(a).w, RejectPending(a).jobs) /\ RejectPending(a).w.state = "errored"
  BY <1>2, RejectShape DEF Goes
<1>4. Goes(x, x, <<>>)
  BY Few DEF Goes
<1>5. x.state # "closed" => Abort(x) = RejectPending(a)
  BY <1>1 DEF Abort
<1>6. ErrorWritable(x) = IF x.state = "writable" THEN RejectPending(a) ELSE Move(x, <<>>)
  BY <1>1 DEF ErrorWritable
<1> QED BY <1>3, <1>4, <1>5, <1>6 DEF Move

LEMMA AbortGoes ==
  ASSUME NEW x \in Writables
  PROVE  Goes(x, Abort(x).w, Abort(x).jobs)
<1>1. Goes(x, x, <<>>)
  BY Few DEF Goes
<1>2. x.state = "closed" => Abort(x) = Move(x, <<>>)
  BY DEF Abort
<1> QED BY <1>1, <1>2, ErrorGoes DEF Move

\* A change of other fields first.
LEMMA SameGoes ==
  ASSUME NEW x \in Writables, NEW a, NEW y, NEW js, Goes(a, y, js),
         a.state = x.state, a.queue = x.queue, a.writing = x.writing
  PROVE  Goes(x, y, js)
<1> QED BY DEF Goes

LEMMA StartedGoes ==
  ASSUME NEW x \in Writables, NEW ok \in BOOLEAN
  PROVE  Goes(x, SinkStarted(x, ok).w, SinkStarted(x, ok).jobs)
<1>1. PICK a : a = [x EXCEPT !.started = TRUE]
  OBVIOUS
<1>2. a \in Writables /\ a.state = x.state /\ a.queue = x.queue /\ a.writing = x.writing
  BY <1>1 DEF Writables
<1>3. Goes(a, ProcessQueue(a), <<>>)
  BY <1>2, ProcessGoes
<1>4. Goes(x, ProcessQueue(a), <<>>)
  BY <1>2, <1>3, SameGoes
<1>5. SinkStarted(x, ok) = IF ok THEN Move(ProcessQueue(a), <<>>) ELSE ErrorWritable(x)
  BY <1>1 DEF SinkStarted
<1> QED BY <1>4, <1>5, ErrorGoes DEF Move

LEMMA ClosedGoes ==
  ASSUME NEW x \in Writables, NEW ok \in BOOLEAN
  PROVE  Goes(x, SinkClosed(x, ok).w, SinkClosed(x, ok).jobs)
<1>1. PICK a : a = [x EXCEPT !.closing = IF ok THEN "ok" ELSE "failed"]
  OBVIOUS
<1>2. a \in Writables /\ a.state = x.state /\ a.queue = x.queue /\ a.writing = x.writing
  BY <1>1 DEF Writables
<1>3. ClosePromise(ok) \in Reactions /\ ClosePromise(ok).on \notin {"write"}
      /\ ClosePromise(ok).on \notin Turn
  BY Names DEF Turn
<1>4. SinkClosed(x, ok).w = a /\ SinkClosed(x, ok).jobs = <<ClosePromise(ok)>>
  BY <1>1 DEF SinkClosed, Move
<1>5. <<ClosePromise(ok)>> \in Seq(Reactions) /\ Idle(<<ClosePromise(ok)>>, {"write"})
      /\ Idle(<<ClosePromise(ok)>>, Turn)
  BY <1>3, Few
<1> QED BY <1>2, <1>4, <1>5 DEF Goes

LEMMA CloseGoes ==
  ASSUME NEW x \in Writables
  PROVE  Goes(x, CloseWritable(x).w, CloseWritable(x).jobs)
<1>1. PICK a : a = [x EXCEPT !.closeRequested = TRUE]
  OBVIOUS
<1>2. PICK b : b = CloseStream(a)
  OBVIOUS
<1>3. PICK c : c = [a EXCEPT !.closePending = TRUE]
  OBVIOUS
<1>4. a \in Writables /\ a.state = x.state /\ a.queue = x.queue /\ a.writing = x.writing
  BY <1>1 DEF Writables
<1>5. b \in Writables /\ b.state = "closed" /\ b.queue = x.queue /\ b.writing = x.writing
  BY <1>2, <1>4 DEF CloseStream, Writables
<1>6. c \in Writables /\ c.state = x.state /\ c.queue = x.queue /\ c.writing = x.writing
  BY <1>3, <1>4 DEF Writables
<1>7. PICK js : js = <<ClosePromise(FALSE)>>
  OBVIOUS
<1>8. ClosePromise(FALSE) \in Reactions /\ ClosePromise(FALSE).on \notin {"write"}
      /\ ClosePromise(FALSE).on \notin Turn
  BY Names DEF Turn
<1>9. js \in Seq(Reactions) /\ Idle(js, {"write"}) /\ Idle(js, Turn)
  BY <1>7, <1>8, Few
<1>10. <<>> \in Seq(Reactions) /\ Idle(<<>>, {"write"}) /\ Idle(<<>>, Turn)
  BY Few
<1>11. CASE x.state = "closed" \/ x.closeRequested
  <2>1. CloseWritable(x).w = x /\ CloseWritable(x).jobs = js
    BY <1>7, <1>11 DEF CloseWritable, Move
  <2> QED BY <1>9, <2>1 DEF Goes
<1>12. CASE ~(x.state = "closed" \/ x.closeRequested) /\ x.queue = <<>> /\ x.writing = 0
  <2>1. CloseWritable(x).w = b /\ CloseWritable(x).jobs = <<>>
    BY <1>1, <1>2, <1>12 DEF CloseWritable, Move
  <2> QED BY <1>5, <1>10, <1>12, <2>1 DEF Goes
<1>13. CASE ~(x.state = "closed" \/ x.closeRequested) /\ ~(x.queue = <<>> /\ x.writing = 0)
  <2>1. CloseWritable(x).w = c /\ CloseWritable(x).jobs = <<>>
    BY <1>1, <1>3, <1>13 DEF CloseWritable, Move
  <2> QED BY <1>6, <1>10, <2>1 DEF Goes
<1> QED BY <1>11, <1>12, <1>13

-------------------------------------------------------------------------------
(* Where the chunks are. *)

\* s are the chunks after the k-th, up to the n-th.
Follows(s, k, n) == k + Len(s) = n /\ \A i \in 1 .. Len(s) : s[i] = k + i

Counts(s) == \A i \in 1 .. Len(s) : s[i] = i

\* The sink has been given its d chunks delivered, and the one it is at work on.
Given(x, d) == IF x.writing = d + 1 THEN d + 1 ELSE d

\* The sink's side, with n chunks accepted: a write is under way, or has been answered
\* and its reaction waits.
Sink(x, js, d, n) ==
  /\ x.state # "writable" => x.queue = <<>>
  /\ Given(x, d) + Len(x.queue) <= n
  /\ \A i \in 1 .. Len(x.queue) : x.queue[i] = Given(x, d) + i
  /\ \/ Idle(js, {"write"}) /\ x.writing \in {0, d + 1}
     \/ One(js, {"write"}, Reaction("write", TRUE, 0)) /\ x.writing = d /\ d > 0
     \/ One(js, {"write"}, Reaction("write", FALSE, 0)) /\ x.writing = d + 1

Free(x) == x.writing = 0 /\ x.queue = <<>>

\* What a pipe that runs waits for.
Reads(s, x, js, d, n) ==
  /\ Free(x) /\ Idle(js, Turn)
  /\ s.pendingReads = 1 /\ s.state = "readable" /\ s.queue = <<>> /\ d = n
HasRead(s, x, js, d, n) ==
  /\ Free(x) /\ s.pendingReads = 0
  /\ One(js, Turn, Value(d + 1)) /\ Follows(s.queue, d + 1, n)
AtEnd(s, x, js, d, n) ==
  /\ Free(x) /\ s.pendingReads = 0 /\ s.state # "readable" /\ d = n
  /\ \E e \in {Done, Failed} : One(js, Turn, e)
Writes(s, x, js, d, n) ==
  /\ ~Free(x) /\ s.pendingReads = 0 /\ Idle(js, Turn)
  /\ x.queue = <<>> \/ (x.writing = 0 /\ Len(x.queue) = 1)
  /\ Follows(s.queue, Given(x, d) + Len(x.queue), n)
HasWritten(s, x, js, d, n) ==
  /\ Free(x) /\ s.pendingReads = 0
  /\ \E c \in Nat : One(js, Turn, Wrote(c))
  /\ Follows(s.queue, d, n)
IsRefused(s, x, js) ==
  /\ Free(x) /\ s.pendingReads = 0
  /\ \E c \in Nat : One(js, Turn, Refused(c))

Running(s, x, js, d, n) ==
  \/ Reads(s, x, js, d, n) \/ HasRead(s, x, js, d, n) \/ AtEnd(s, x, js, d, n)
  \/ Writes(s, x, js, d, n) \/ HasWritten(s, x, js, d, n) \/ IsRefused(s, x, js)

\* No pipe yet, and no writer.
Unstarted(s, x, js, d, n) == /\ Free(x) /\ s.pendingReads = 0 /\ Idle(js, Turn)
                             /\ d = 0 /\ Follows(s.queue, 0, n)

\* The jobs may be cut at the front, where another reaction runs, and grow at the end.
LEMMA SinkJobs ==
  ASSUME NEW x, NEW d, NEW n, NEW js \in Seq(Reactions), NEW t \in Seq(Reactions),
         Sink(x, js, d, n), Idle(t, {"write"})
  PROVE  Sink(x, js \o t, d, n)
<1>1. Idle(js, {"write"}) => Idle(js \o t, {"write"})
  BY IdleConcat
<1>2. \A e : One(js, {"write"}, e) => One(js \o t, {"write"}, e)
  BY OneConcat
<1> QED BY <1>1, <1>2 DEF Sink

LEMMA SinkTail ==
  ASSUME NEW x, NEW d, NEW n, NEW js \in Seq(Reactions), js # <<>>,
         Sink(x, js, d, n), Head(js).on # "write"
  PROVE  Sink(x, Tail(js), d, n)
<1>1. Idle(js, {"write"}) => Idle(Tail(js), {"write"})
  BY Tails
<1>2. Reaction("write", TRUE, 0).on = "write" /\ Reaction("write", FALSE, 0).on = "write"
  BY DEF Reaction
<1>3. Head(js).on \notin {"write"}
  OBVIOUS
<1>4. \A e : One(js, {"write"}, e) /\ e.on = "write" => One(Tail(js), {"write"}, e)
  BY <1>3, Tails
<1> QED BY <1>1, <1>2, <1>4 DEF Sink

LEMMA RunningTail ==
  ASSUME NEW s, NEW x, NEW d \in Nat, NEW n, NEW js \in Seq(Reactions), js # <<>>,
         Running(s, x, js, d, n), Head(js).on \notin Turn
  PROVE  Running(s, x, Tail(js), d, n)
<1>1. Idle(js, Turn) => Idle(Tail(js), Turn)
  BY Tails
<1>2. \A e : One(js, Turn, e) /\ e.on \in Turn => One(Tail(js), Turn, e)
  BY Tails
<1>3. /\ Value(d + 1).on \in Turn /\ Done.on \in Turn /\ Failed.on \in Turn
      /\ \A c \in Nat : Wrote(c).on \in Turn /\ Refused(c).on \in Turn
  BY Names DEF Turn
<1> QED BY <1>1, <1>2, <1>3 DEF Running, Reads, HasRead, AtEnd, Writes, HasWritten, IsRefused

LEMMA RunningJobs ==
  ASSUME NEW s, NEW x, NEW d, NEW n, NEW js \in Seq(Reactions), NEW t \in Seq(Reactions),
         Running(s, x, js, d, n), Idle(t, Turn)
  PROVE  Running(s, x, js \o t, d, n)
<1>1. Idle(js, Turn) => Idle(js \o t, Turn)
  BY IdleConcat
<1>2. \A e : One(js, Turn, e) => One(js \o t, Turn, e)
  BY OneConcat
<1> QED BY <1>1, <1>2 DEF Running, Reads, HasRead, AtEnd, Writes, HasWritten, IsRefused

\* The readable stream's calls.
LEMMA EndsRunning ==
  ASSUME NEW s \in Readables, NEW x, NEW d, NEW n, NEW js \in Seq(Reactions),
         Running(s, x, js, d, n), NEW g, NEW t, Ends(s, g, t)
  PROVE  /\ g \in Readables /\ t \in Seq(Reactions) /\ Idle(t, {"write"})
         /\ Running(g, x, js \o t, d, n)
<1>1. Done \in Reactions /\ Failed \in Reactions /\ Done.on = "read" /\ Failed.on = "read"
  BY Names
<1>2. ASSUME NEW e \in {Done, Failed}
      PROVE  /\ e \in Reactions /\ <<e>> \in Seq(Reactions) /\ Idle(<<e>>, {"write"})
             /\ One(<<e>>, Turn, e)
  <2>1. e \in Reactions /\ e.on \notin {"write"}
    BY <1>1
  <2> QED BY <2>1, Few
<1>3. <<>> \in Seq(Reactions) /\ Idle(<<>>, {"write"}) /\ Idle(<<>>, Turn)
  BY Few
<1>4. CASE Alike(s, g) /\ t = <<>>
  <2>1. Running(g, x, js, d, n)
    BY <1>4 DEF Alike, Running, Reads, HasRead, AtEnd, Writes, HasWritten, IsRefused
  <2> QED BY <1>3, <1>4, <2>1, RunningJobs DEF Alike
<1>5. ASSUME g \in Readables, g.queue = s.queue, g.pendingReads = 0, g.state # "readable",
             NEW e \in {Done, Failed}, t = IF s.pendingReads = 1 THEN <<e>> ELSE <<>>
      PROVE  /\ t \in Seq(Reactions) /\ Idle(t, {"write"}) /\ Running(g, x, js \o t, d, n)
  <2>1. t \in Seq(Reactions) /\ Idle(t, {"write"})
    BY <1>2, <1>3, <1>5
  <2>2. CASE Reads(s, x, js, d, n)
    <3>1. t = <<e>>
      BY <1>5, <2>2 DEF Reads
    <3>2. One(js \o t, Turn, e)
      BY <1>2, <2>2, <3>1, OneConcat DEF Reads
    <3>3. AtEnd(g, x, js \o t, d, n)
      BY <1>5, <2>2, <3>2 DEF Reads, AtEnd
    <3> QED BY <2>1, <3>3 DEF Running
  <2>3. CASE ~Reads(s, x, js, d, n)
    <3>1. s.pendingReads = 0
      BY <2>3 DEF Running, HasRead, AtEnd, Writes, HasWritten, IsRefused
    <3>2. Running(g, x, js, d, n)
      BY <1>5, <2>3, <3>1 DEF Running, HasRead, AtEnd, Writes, HasWritten, IsRefused
    <3>3. t = <<>>
      BY <1>5, <3>1
    <3> QED BY <1>3, <2>1, <3>2, <3>3, RunningJobs
  <2> QED BY <2>2, <2>3
<1> QED BY <1>4, <1>5 DEF Ends

LEMMA EndsUnstarted ==
  ASSUME NEW s \in Readables, NEW x, NEW d, NEW n, NEW js \in Seq(Reactions),
         Unstarted(s, x, js, d, n), NEW g, NEW t, Ends(s, g, t)
  PROVE  g \in Readables /\ t = <<>> /\ Unstarted(g, x, js, d, n)
<1> QED BY DEF Ends, Alike, Unstarted

\* Whatever it waits for, it queues no write reaction.
LEMMA EndsSink ==
  ASSUME NEW s \in Readables, NEW g, NEW t, Ends(s, g, t)
  PROVE  g \in Readables /\ t \in Seq(Reactions) /\ Idle(t, {"write"})
<1>1. ASSUME NEW e \in {Done, Failed}
      PROVE  <<e>> \in Seq(Reactions) /\ Idle(<<e>>, {"write"})
  <2>1. e \in Reactions /\ e.on \notin {"write"}
    BY Names
  <2> QED BY <2>1, Few
<1> QED BY <1>1, Few DEF Ends, Alike

LEMMA FollowsAppend ==
  ASSUME NEW q \in Seq(Nat \ {0}), NEW k \in Nat, NEW n \in Nat, Follows(q, k, n)
  PROVE  Append(q, n + 1) \in Seq(Nat \ {0}) /\ Follows(Append(q, n + 1), k, n + 1)
<1>1. PICK u : u = Append(q, n + 1)
  OBVIOUS
<1>2. /\ u \in Seq(Nat \ {0}) /\ Len(u) = Len(q) + 1 /\ Len(q) \in Nat /\ u[Len(u)] = n + 1
      /\ \A i \in 1 .. Len(q) : u[i] = q[i]
      /\ \A i \in 1 .. Len(u) : i \in 1 .. Len(q) \/ i = Len(u)
  BY <1>1
<1>3. k + Len(q) = n /\ \A i \in 1 .. Len(q) : q[i] = k + i
  BY DEF Follows
<1>4. Follows(u, k, n + 1)
  BY <1>2, <1>3 DEF Follows
<1> QED BY <1>1, <1>2, <1>4

LEMMA FollowsTail ==
  ASSUME NEW q \in Seq(Nat \ {0}), q # <<>>, NEW k \in Nat, NEW n \in Nat, Follows(q, k, n)
  PROVE  Head(q) = k + 1 /\ Follows(Tail(q), k + 1, n)
<1>1. PICK u : u = Tail(q)
  OBVIOUS
<1>2. /\ Len(u) = Len(q) - 1 /\ Len(q) \in Nat /\ Len(q) >= 1 /\ Head(q) = q[1]
      /\ \A i \in 1 .. Len(u) : i + 1 \in 1 .. Len(q) /\ u[i] = q[i + 1]
  BY <1>1
<1>3. k + Len(q) = n /\ \A i \in 1 .. Len(q) : q[i] = k + i
  BY DEF Follows
<1>4. Head(q) = k + 1
  BY <1>2, <1>3
<1>5. \A i \in 1 .. Len(u) : u[i] = k + 1 + i
  BY <1>2, <1>3
<1>6. k + 1 + Len(u) = n
  <2>1. k + Len(q) = n /\ Len(u) = Len(q) - 1 /\ Len(q) \in Nat
    BY <1>2, <1>3
  <2> QED BY <2>1
<1>7. Follows(u, k + 1, n)
  BY <1>5, <1>6 DEF Follows
<1> QED BY <1>1, <1>4, <1>7

LEMMA FollowsNothing ==
  ASSUME NEW k \in Nat, NEW n \in Nat
  PROVE  Follows(<<>>, k, n) <=> k = n
<1> QED BY DEF Follows

LEMMA EnqueueShape ==
  ASSUME NEW s \in Readables, Accepts(s), NEW c \in Nat \ {0}, NEW g, Alike(Enqueue(s, c).r, g)
  PROVE  /\ g \in Readables /\ g.state = "readable" /\ g.pendingReads = 0
         /\ \/ /\ s.pendingReads = 1 /\ g.queue = s.queue
               /\ Enqueue(s, c).jobs = <<Value(c)>>
            \/ /\ s.pendingReads = 0 /\ g.queue = Append(s.queue, c)
               /\ Enqueue(s, c).jobs = <<>>
<1>1. PICK a : a = [s EXCEPT !.pendingReads = s.pendingReads - 1]
  OBVIOUS
<1>2. PICK b : b = [s EXCEPT !.queue = Append(s.queue, c)]
  OBVIOUS
<1>3. s.pendingReads \in {0, 1} /\ s.state = "readable" /\ Append(s.queue, c) \in Seq(Nat \ {0})
  BY DEF Readables, Accepts
<1>4. CASE s.pendingReads = 1
  <2>1. Enqueue(s, c).r = a /\ Enqueue(s, c).jobs = <<Value(c)>>
    BY <1>1, <1>4 DEF Enqueue, Step
  <2>2. a.state = s.state /\ a.queue = s.queue /\ a.pendingReads = 0
    BY <1>1, <1>4 DEF Readables
  <2> QED BY <1>3, <1>4, <2>1, <2>2 DEF Alike
<1>5. CASE s.pendingReads = 0
  <2>1. Enqueue(s, c).r = b /\ Enqueue(s, c).jobs = <<>>
    BY <1>2, <1>5 DEF Enqueue, Step
  <2>2. b.state = s.state /\ b.queue = Append(s.queue, c) /\ b.pendingReads = 0
    BY <1>2, <1>5 DEF Readables
  <2> QED BY <1>3, <1>5, <2>1, <2>2 DEF Alike
<1> QED BY <1>3, <1>4, <1>5

\* The source enqueues the next chunk.
LEMMA EnqueueRunning ==
  ASSUME NEW s \in Readables, NEW x \in Writables, NEW d \in Nat, NEW n \in Nat,
         NEW js \in Seq(Reactions), Accepts(s), Running(s, x, js, d, n),
         NEW g, Alike(Enqueue(s, n + 1).r, g), NEW t, t = Enqueue(s, n + 1).jobs
  PROVE  /\ g \in Readables /\ t \in Seq(Reactions) /\ Idle(t, {"write"})
         /\ Running(g, x, js \o t, d, n + 1)
<1>1. s.queue \in Seq(Nat \ {0}) /\ s.state = "readable" /\ Given(x, d) \in Nat
      /\ x.queue \in Seq(Nat \ {0})
  BY DEF Readables, Accepts, Given, Writables
<1>2. g \in Readables /\ g.state = "readable" /\ g.pendingReads = 0
  BY EnqueueShape
<1>3. CASE s.pendingReads = 1 /\ g.queue = s.queue /\ t = <<Value(n + 1)>>
  <2>1. Value(n + 1) \in Reactions /\ Value(n + 1).on \notin {"write"}
    BY Names
  <2>2. t \in Seq(Reactions) /\ Idle(t, {"write"}) /\ One(t, Turn, Value(n + 1))
    BY <1>3, <2>1, Few
  <2>3. Reads(s, x, js, d, n)
    BY <1>3 DEF Running, HasRead, AtEnd, Writes, HasWritten, IsRefused
  <2>4. One(js \o t, Turn, Value(d + 1))
    BY <2>2, <2>3, OneConcat DEF Reads
  <2>5. Follows(g.queue, d + 1, n + 1)
    BY <1>3, <2>3, FollowsNothing DEF Reads
  <2>6. HasRead(g, x, js \o t, d, n + 1)
    BY <1>2, <2>3, <2>4, <2>5 DEF Reads, HasRead
  <2> QED BY <1>2, <2>2, <2>6 DEF Running
<1>4. CASE s.pendingReads = 0 /\ g.queue = Append(s.queue, n + 1) /\ t = <<>>
  <2>1. t \in Seq(Reactions) /\ Idle(t, {"write"}) /\ Idle(t, Turn)
    BY <1>4, Few
  <2>2. \A k \in Nat : Follows(s.queue, k, n) => Follows(g.queue, k, n + 1)
    BY <1>1, <1>4, FollowsAppend
  <2>3. Given(x, d) + Len(x.queue) \in Nat /\ d + 1 \in Nat
    BY <1>1
  <2>4. ~Reads(s, x, js, d, n) /\ ~AtEnd(s, x, js, d, n)
    BY <1>1, <1>4 DEF Reads, AtEnd
  <2>5. HasRead(s, x, js, d, n) => HasRead(g, x, js, d, n + 1)
    BY <1>2, <2>2, <2>3 DEF HasRead
  <2>6. Writes(s, x, js, d, n) => Writes(g, x, js, d, n + 1)
    BY <1>2, <2>2, <2>3 DEF Writes
  <2>7. HasWritten(s, x, js, d, n) => HasWritten(g, x, js, d, n + 1)
    BY <1>2, <2>2 DEF HasWritten
  <2>8. IsRefused(s, x, js) => IsRefused(g, x, js)
    BY <1>2 DEF IsRefused
  <2>9. Running(g, x, js, d, n + 1)
    BY <2>4, <2>5, <2>6, <2>7, <2>8 DEF Running
  <2> QED BY <1>2, <2>1, <2>9, RunningJobs
<1> QED BY <1>3, <1>4, EnqueueShape

LEMMA EnqueueUnstarted ==
  ASSUME NEW s \in Readables, NEW x, NEW d, NEW n \in Nat,
         NEW js \in Seq(Reactions), Accepts(s), Unstarted(s, x, js, d, n),
         NEW g, Alike(Enqueue(s, n + 1).r, g)
  PROVE  g \in Readables /\ Enqueue(s, n + 1).jobs = <<>> /\ Unstarted(g, x, js, d, n + 1)
<1>1. s.queue \in Seq(Nat \ {0}) /\ s.pendingReads = 0 /\ Follows(s.queue, 0, n)
  BY DEF Readables, Unstarted
<1>2. /\ g \in Readables /\ g.pendingReads = 0 /\ g.queue = Append(s.queue, n + 1)
      /\ Enqueue(s, n + 1).jobs = <<>>
  <2>1. PICK c \in Nat \ {0} : c = n + 1
    OBVIOUS
  <2>2. Alike(Enqueue(s, c).r, g)
    BY <2>1
  <2>3. /\ g \in Readables /\ g.pendingReads = 0
        /\ \/ s.pendingReads = 1
           \/ g.queue = Append(s.queue, c) /\ Enqueue(s, c).jobs = <<>>
    BY <2>2, EnqueueShape
  <2> QED BY <1>1, <2>1, <2>3
<1>3. Follows(g.queue, 0, n + 1)
  BY <1>1, <1>2, FollowsAppend
<1> QED BY <1>2, <1>3 DEF Unstarted

\* The pipe reads once more.
LEMMA ReadRunning ==
  ASSUME NEW s \in Readables, NEW x, NEW d \in Nat, NEW n \in Nat, NEW js \in Seq(Reactions),
         Free(x), s.pendingReads = 0, Idle(js, Turn), Follows(s.queue, d, n)
  PROVE  LET t == Read(s)
         IN  /\ t.r \in Readables /\ t.jobs \in Seq(Reactions) /\ Idle(t.jobs, {"write"})
             /\ Running(t.r, x, js \o t.jobs, d, n)
<1>1. PICK g : g = Read(s).r
  OBVIOUS
<1>2. PICK t : t = Read(s).jobs
  OBVIOUS
<1>3. s.queue \in Seq(Nat \ {0})
  BY DEF Readables
<1>4. g \in Readables /\ g.state = s.state
  BY <1>1, ReadShape
<1>5. CASE s.queue # <<>> /\ g.queue = Tail(s.queue) /\ g.pendingReads = 0
           /\ t = <<Value(Head(s.queue))>>
  <2>1. Head(s.queue) = d + 1 /\ Follows(g.queue, d + 1, n)
    BY <1>3, <1>5, FollowsTail
  <2>2. Value(d + 1) \in Reactions /\ Value(d + 1).on \notin {"write"}
    BY Names
  <2>3. t \in Seq(Reactions) /\ Idle(t, {"write"}) /\ One(t, Turn, Value(d + 1))
    BY <1>5, <2>1, <2>2, Few
  <2>4. One(js \o t, Turn, Value(d + 1))
    BY <2>3, OneConcat
  <2> QED BY <1>1, <1>2, <1>4, <1>5, <2>1, <2>3, <2>4 DEF Running, HasRead
<1>6. CASE s.queue = <<>> /\ s.state # "readable" /\ g.pendingReads = 0
           /\ \E e \in {Done, Failed} : t = <<e>>
  <2>1. PICK e \in {Done, Failed} : t = <<e>>
    BY <1>6
  <2>2. e \in Reactions /\ e.on \notin {"write"}
    BY Names
  <2>3. t \in Seq(Reactions) /\ Idle(t, {"write"}) /\ One(t, Turn, e)
    BY <2>1, <2>2, Few
  <2>4. One(js \o t, Turn, e)
    BY <2>3, OneConcat
  <2>5. d = n
    BY <1>6, FollowsNothing
  <2>6. AtEnd(g, x, js \o t, d, n)
    BY <1>4, <1>6, <2>4, <2>5 DEF AtEnd
  <2> QED BY <1>1, <1>2, <1>4, <2>3, <2>6 DEF Running
<1>7. CASE s.queue = <<>> /\ g.queue = <<>> /\ s.state = "readable" /\ g.pendingReads = 1
           /\ t = <<>>
  <2>1. t \in Seq(Reactions) /\ Idle(t, {"write"}) /\ Idle(t, Turn)
    BY <1>7, Few
  <2>2. Idle(js \o t, Turn)
    BY <2>1, IdleConcat
  <2>3. d = n
    BY <1>7, FollowsNothing
  <2> QED BY <1>1, <1>2, <1>4, <1>7, <2>1, <2>2, <2>3 DEF Running, Reads
<1> QED BY <1>1, <1>2, <1>5, <1>6, <1>7, ReadShape

\* The writable stream's calls.
LEMMA GoesSink ==
  ASSUME NEW x \in Writables, NEW d \in Nat, NEW n \in Nat, NEW js \in Seq(Reactions),
         Sink(x, js, d, n), NEW y, NEW t, Goes(x, y, t)
  PROVE  /\ y \in Writables /\ t \in Seq(Reactions) /\ Idle(t, {"write"})
         /\ Sink(y, js, d, n)
         /\ y.state = "writable" => x.state = "writable"
                /\ Given(y, d) + Len(y.queue) = Given(x, d) + Len(x.queue)
<1>1. x.queue \in Seq(Nat \ {0}) /\ Len(x.queue) \in Nat /\ Given(x, d) \in Nat
  BY DEF Writables, Given
<1>2. y \in Writables /\ t \in Seq(Reactions) /\ Idle(t, {"write"})
      /\ (y.state = "writable" => x.state = "writable")
  BY DEF Goes
<1>3. CASE /\ y.queue = x.queue /\ y.writing = x.writing
           /\ (y.state # "writable" => x.state # "writable" \/ x.queue = <<>>)
  <2>1. Given(y, d) = Given(x, d)
    BY <1>3 DEF Given
  <2>2. Sink(y, js, d, n)
    BY <1>3, <2>1 DEF Sink
  <2> QED BY <1>2, <1>3, <2>1, <2>2
<1>4. CASE /\ x.writing = 0 /\ x.queue # <<>> /\ x.state = "writable" /\ y.state = "writable"
           /\ y.queue = Tail(x.queue) /\ y.writing = Head(x.queue)
  <2>1. Given(x, d) = d /\ Idle(js, {"write"})
    <3>1. Given(x, d) = d
      BY <1>4 DEF Given
    <3>2. \/ Idle(js, {"write"})
          \/ x.writing = d /\ d > 0
          \/ x.writing = d + 1
      BY DEF Sink
    <3> QED BY <1>4, <3>1, <3>2
  <2>2. /\ Len(y.queue) = Len(x.queue) - 1 /\ Len(x.queue) >= 1 /\ y.writing = x.queue[1]
        /\ \A i \in 1 .. Len(y.queue) : i + 1 \in 1 .. Len(x.queue) /\ y.queue[i] = x.queue[i + 1]
    BY <1>1, <1>4
  <2>3. \A i \in 1 .. Len(x.queue) : x.queue[i] = d + i
    BY <2>1 DEF Sink
  <2>4. y.writing = d + 1
    BY <2>2, <2>3
  <2>5. Given(y, d) = d + 1
    BY <2>4 DEF Given
  <2>6. \A i \in 1 .. Len(y.queue) : y.queue[i] = (d + 1) + i
    BY <2>2, <2>3
  <2>7. d + Len(x.queue) <= n
    BY <2>1 DEF Sink
  <2>8. Given(y, d) + Len(y.queue) = Given(x, d) + Len(x.queue)
    <3>1. d + 1 + Len(y.queue) = d + Len(x.queue)
      <4>1. PICK k \in Nat : k = Len(x.queue)
        BY <1>1
      <4>2. PICK l \in Nat : l = Len(y.queue)
        <5>1. k - 1 \in Nat
          BY <2>2, <4>1
        <5> QED BY <2>2, <4>1, <5>1
      <4>3. l = k - 1
        BY <2>2, <4>1, <4>2
      <4>4. d + 1 + l = d + k
        BY <4>3
      <4> QED BY <4>1, <4>2, <4>4
    <3> QED BY <2>1, <2>5, <3>1
  <2>9. Sink(y, js, d, n)
    BY <1>4, <2>1, <2>4, <2>5, <2>6, <2>7, <2>8 DEF Sink
  <2> QED BY <1>2, <1>4, <2>8, <2>9
<1>5. CASE y.queue = <<>> /\ y.writing = x.writing /\ y.state # "writable"
  <2>1. Given(y, d) = Given(x, d)
    BY <1>5 DEF Given
  <2>2. Given(x, d) + Len(x.queue) <= n
    BY DEF Sink
  <2>3. Given(y, d) + Len(y.queue) <= n
    BY <1>1, <1>5, <2>1, <2>2
  <2>4. \A i \in 1 .. Len(y.queue) : y.queue[i] = Given(y, d) + i
    BY <1>5
  <2>5. \/ Idle(js, {"write"}) /\ y.writing \in {0, d + 1}
        \/ One(js, {"write"}, Reaction("write", TRUE, 0)) /\ y.writing = d /\ d > 0
        \/ One(js, {"write"}, Reaction("write", FALSE, 0)) /\ y.writing = d + 1
    BY <1>5 DEF Sink
  <2>6. Sink(y, js, d, n)
    BY <1>5, <2>3, <2>4, <2>5 DEF Sink
  <2> QED BY <1>2, <1>5, <2>6
<1> QED BY <1>3, <1>4, <1>5 DEF Goes

LEMMA GoesRunning ==
  ASSUME NEW s, NEW x \in Writables, NEW d \in Nat, NEW n \in Nat, NEW js \in Seq(Reactions),
         Sink(x, js, d, n), Running(s, x, js, d, n), NEW y, NEW t, Goes(x, y, t)
  PROVE  Running(s, y, js \o t, d, n)
<1>1. x.queue \in Seq(Nat \ {0}) /\ Len(x.queue) \in Nat /\ Given(x, d) \in Nat
      /\ t \in Seq(Reactions)
  BY DEF Writables, Given, Goes
<1>2. CASE y.queue = x.queue /\ y.writing = x.writing /\ Idle(t, Turn)
  <2>1. Given(y, d) = Given(x, d) /\ (Free(x) <=> Free(y))
    BY <1>2 DEF Given, Free
  <2>2. Running(s, y, js, d, n)
    BY <1>2, <2>1 DEF Running, Reads, HasRead, AtEnd, Writes, HasWritten, IsRefused
  <2> QED BY <1>1, <1>2, <2>2, RunningJobs
<1>3. CASE /\ x.writing = 0 /\ x.queue # <<>> /\ x.state = "writable" /\ y.state = "writable"
           /\ y.queue = Tail(x.queue) /\ y.writing = Head(x.queue) /\ t = <<>>
  <2>1. Writes(s, x, js, d, n)
    BY <1>3 DEF Running, Reads, HasRead, AtEnd, HasWritten, IsRefused, Free
  <2>2. Len(x.queue) = 1
    BY <1>3, <2>1 DEF Writes
  <2>3. y.queue = <<>> /\ y.writing # 0
    <3>1. x.queue[1] # 0 /\ Head(x.queue) = x.queue[1]
      BY <1>1, <2>2
    <3>2. Tail(x.queue) \in Seq(Nat \ {0}) /\ Len(Tail(x.queue)) = 0
      BY <1>1, <1>3, <2>2, HeadTailProperties
    <3>3. PICK u : u = Tail(x.queue)
      OBVIOUS
    <3>4. u \in Seq(Nat \ {0}) /\ Len(u) = 0
      BY <3>2, <3>3
    <3>5. u = <<>>
      BY <3>4
    <3> QED BY <1>3, <3>1, <3>3, <3>5
  <2>4. Given(y, d) + Len(y.queue) = Given(x, d) + Len(x.queue)
    BY <1>3, GoesSink
  <2>5. Writes(s, y, js, d, n)
    BY <2>1, <2>3, <2>4 DEF Writes, Free
  <2>6. Idle(t, Turn)
    BY <1>3, Few
  <2> QED BY <1>1, <2>5, <2>6, RunningJobs DEF Running
<1>4. CASE /\ y.queue = <<>> /\ y.writing = x.writing /\ y.state # "writable"
           /\ x.queue = <<>> => Idle(t, Turn)
           /\ Len(x.queue) = 1 => \E c \in Nat : One(t, Turn, Refused(c))
  <2>1. CASE x.queue = <<>>
    BY <1>2, <1>4, <2>1
  <2>2. CASE x.queue # <<>>
    <3>1. Writes(s, x, js, d, n)
      BY <2>2 DEF Running, Reads, HasRead, AtEnd, HasWritten, IsRefused, Free
    <3>2. x.writing = 0 /\ Len(x.queue) = 1 /\ Idle(js, Turn) /\ s.pendingReads = 0
      BY <2>2, <3>1 DEF Writes
    <3>3. PICK c \in Nat : One(t, Turn, Refused(c))
      BY <1>4, <3>2
    <3>4. One(js \o t, Turn, Refused(c))
      BY <1>1, <3>2, <3>3, OneConcat
    <3>5. IsRefused(s, y, js \o t)
      BY <1>4, <3>2, <3>4 DEF IsRefused, Free
    <3> QED BY <3>5 DEF Running
  <2> QED BY <2>1, <2>2
<1> QED BY <1>2, <1>3, <1>4 DEF Goes

LEMMA GoesUnstarted ==
  ASSUME NEW s, NEW x \in Writables, NEW d \in Nat, NEW n \in Nat, NEW js \in Seq(Reactions),
         Unstarted(s, x, js, d, n), NEW y, NEW t, Goes(x, y, t)
  PROVE  Unstarted(s, y, js \o t, d, n)
<1>1. t \in Seq(Reactions) /\ Idle(t, Turn) /\ Free(y)
  BY DEF Goes, Unstarted, Free
<1>2. Idle(js \o t, Turn)
  BY <1>1, IdleConcat DEF Unstarted
<1> QED BY <1>1, <1>2 DEF Unstarted

\* The sink has answered a write.
LEMMA SinkWroteSteps ==
  ASSUME NEW x \in Writables, NEW d \in Nat, NEW n \in Nat, NEW js \in Seq(Reactions),
         Sink(x, js, d, n), js # <<>>, Head(js).on = "write",
         NEW y, y = SinkWrote(x, Head(js).ok).w, NEW t, t = SinkWrote(x, Head(js).ok).jobs
  PROVE  /\ y \in Writables /\ t \in Seq(Reactions) /\ Idle(t, {"write"})
         /\ Sink(y, Tail(js) \o t, d, n)
         /\ x.writing # 0
         /\ \A s : Running(s, x, js, d, n) => Running(s, y, Tail(js) \o t, d, n)
         /\ y.state = "writable" => x.state = "writable"
                /\ Given(y, d) + Len(y.queue) = Given(x, d) + Len(x.queue)
<1>1. Reaction("write", TRUE, 0).on = "write" /\ Reaction("write", FALSE, 0).on = "write"
      /\ Reaction("write", TRUE, 0).ok = TRUE /\ Reaction("write", FALSE, 0).ok = FALSE
  BY DEF Reaction
<1> DEFINE v == Tail(js)
<1>2. v \in Seq(Reactions) /\ ~Idle(js, {"write"})
  BY Tails
<1>3. ASSUME NEW e, One(js, {"write"}, e), e.on = "write"
      PROVE  Head(js) = e /\ Idle(v, {"write"})
  BY <1>3, Tails
<1>4. Idle(v, {"write"}) /\ (\/ Head(js).ok = TRUE /\ x.writing = d /\ d > 0
                             \/ Head(js).ok = FALSE /\ x.writing = d + 1)
  <2>1. \/ One(js, {"write"}, Reaction("write", TRUE, 0)) /\ x.writing = d /\ d > 0
        \/ One(js, {"write"}, Reaction("write", FALSE, 0)) /\ x.writing = d + 1
    BY <1>2 DEF Sink
  <2>2. CASE One(js, {"write"}, Reaction("write", TRUE, 0)) /\ x.writing = d /\ d > 0
    <3>1. Head(js) = Reaction("write", TRUE, 0) /\ Idle(v, {"write"})
      BY <1>1, <1>3, <2>2
    <3>2. Head(js).ok = TRUE
      BY <1>1, <3>1
    <3> QED BY <2>2, <3>1, <3>2
  <2>3. CASE One(js, {"write"}, Reaction("write", FALSE, 0)) /\ x.writing = d + 1
    <3>1. Head(js) = Reaction("write", FALSE, 0) /\ Idle(v, {"write"})
      BY <1>1, <1>3, <2>3
    <3>2. Head(js).ok = FALSE
      BY <1>1, <3>1
    <3> QED BY <2>3, <3>1, <3>2
  <2> QED BY <2>1, <2>2, <2>3
<1>5. PICK a : a = [x EXCEPT !.writing = 0]
  OBVIOUS
<1>6. PICK c \in Nat : c = x.writing
  BY <1>4
<1>7. a \in Writables /\ a.state = x.state /\ a.queue = x.queue /\ a.writing = 0
  BY <1>5 DEF Writables
<1>8. Given(a, d) = d
  BY <1>7 DEF Given
<1>9. /\ x.state # "writable" => x.queue = <<>>
      /\ Given(x, d) + Len(x.queue) <= n
      /\ \A i \in 1 .. Len(x.queue) : x.queue[i] = Given(x, d) + i
      /\ Len(x.queue) \in Nat
  BY DEF Sink, Writables
<1>10. ASSUME NEW s, Running(s, x, js, d, n)
       PROVE  /\ s.pendingReads = 0 /\ Idle(v, Turn) /\ x.queue = <<>>
              /\ Follows(s.queue, Given(x, d), n)
  <2>1. Writes(s, x, js, d, n)
    BY <1>4, <1>10 DEF Running, Reads, HasRead, AtEnd, HasWritten, IsRefused, Free
  <2>2. s.pendingReads = 0 /\ Idle(js, Turn) /\ x.queue = <<>>
        /\ Follows(s.queue, Given(x, d) + Len(x.queue), n)
    BY <1>4, <2>1 DEF Writes
  <2>3. Given(x, d) + Len(x.queue) = Given(x, d)
    BY <2>2 DEF Given
  <2>4. Idle(v, Turn)
    BY <2>2, Tails
  <2> QED BY <2>2, <2>3, <2>4
<1> HIDE DEF v
<1>11. ASSUME Head(js).ok = TRUE, x.writing = d, d > 0
       PROVE  /\ y \in Writables /\ t \in Seq(Reactions) /\ Idle(t, {"write"})
              /\ Sink(y, v \o t, d, n)
              /\ \A s : Running(s, x, js, d, n) => Running(s, y, v \o t, d, n)
              /\ y.state = "writable" => x.state = "writable"
                     /\ Given(y, d) + Len(y.queue) = Given(x, d) + Len(x.queue)
  <2>1. y = ProcessQueue(a) /\ t = <<Wrote(c)>>
    BY <1>5, <1>6, <1>11 DEF SinkWrote, Move
  <2>2. Wrote(c) \in Reactions /\ Wrote(c).on \notin {"write"}
    BY Names
  <2>3. t \in Seq(Reactions) /\ Idle(t, {"write"}) /\ One(t, Turn, Wrote(c))
    BY <2>1, <2>2, Few
  <2>4. Given(x, d) = d
    BY <1>11 DEF Given
  <2>5. Sink(a, v, d, n)
    BY <1>4, <1>7, <1>8, <1>9, <2>4 DEF Sink
  <2>6. Goes(a, y, <<>>)
    BY <1>7, <2>1, ProcessGoes
  <2>7. /\ y \in Writables /\ Sink(y, v, d, n)
        /\ y.state = "writable" => a.state = "writable"
                /\ Given(y, d) + Len(y.queue) = Given(a, d) + Len(a.queue)
    <3>1. a \in Writables
      BY <1>7
    <3> QED BY <1>2, <2>5, <2>6, <3>1, GoesSink
  <2>8. Sink(y, v \o t, d, n)
    BY <1>2, <2>3, <2>7, SinkJobs
  <2>9. ASSUME NEW s, Running(s, x, js, d, n)
        PROVE  Running(s, y, v \o t, d, n)
    <3>1. /\ s.pendingReads = 0 /\ Idle(v, Turn) /\ x.queue = <<>>
          /\ Follows(s.queue, d, n)
      BY <1>10, <2>4, <2>9
    <3>2. Free(y)
      BY <1>7, <2>6, <3>1 DEF Goes, Free
    <3>3. One(v \o t, Turn, Wrote(c))
      BY <1>2, <2>3, <3>1, OneConcat
    <3> QED BY <3>1, <3>2, <3>3 DEF Running, HasWritten
  <2>10. \A s : Running(s, x, js, d, n) => Running(s, y, v \o t, d, n)
    BY <2>9
  <2>11. Given(a, d) = Given(x, d) /\ a.queue = x.queue /\ a.state = x.state
    BY <1>7, <1>8, <2>4
  <2>12. y.state = "writable" => x.state = "writable"
                /\ Given(y, d) + Len(y.queue) = Given(x, d) + Len(x.queue)
    BY <2>7, <2>11
  <2> QED BY <2>3, <2>7, <2>8, <2>10, <2>12
<1>12. ASSUME Head(js).ok = FALSE, x.writing = d + 1
       PROVE  /\ y \in Writables /\ t \in Seq(Reactions) /\ Idle(t, {"write"})
              /\ Sink(y, v \o t, d, n)
              /\ \A s : Running(s, x, js, d, n) => Running(s, y, v \o t, d, n)
              /\ y.state = "writable" => x.state = "writable"
                     /\ Given(y, d) + Len(y.queue) = Given(x, d) + Len(x.queue)
  <2>1. PICK u : u = ErrorWritable(a).jobs
    OBVIOUS
  <2>2. y = ErrorWritable(a).w /\ t = <<Refused(c)>> \o u
    BY <1>5, <1>6, <1>12, <2>1 DEF SinkWrote, Move
  <2>3. Goes(a, y, u) /\ y.state # "writable"
    BY <1>7, <2>1, <2>2, ErrorGoes
  <2>4. y \in Writables /\ u \in Seq(Reactions) /\ Idle(u, {"write"})
        /\ y.queue = <<>> /\ y.writing = 0 /\ (x.queue = <<>> => Idle(u, Turn))
    BY <1>7, <1>9, <2>3 DEF Goes
  <2>5. Refused(c) \in Reactions /\ Refused(c).on \notin {"write"}
    BY Names
  <2>6. <<Refused(c)>> \in Seq(Reactions) /\ Idle(<<Refused(c)>>, {"write"})
        /\ One(<<Refused(c)>>, Turn, Refused(c))
    BY <2>5, Few
  <2>7. t \in Seq(Reactions) /\ Idle(t, {"write"})
    BY <2>2, <2>4, <2>6, IdleConcat
  <2>8. Given(x, d) = d + 1 /\ Given(y, d) = d
    BY <1>12, <2>4 DEF Given
  <2>9. Idle(v \o t, {"write"})
    BY <1>2, <1>4, <2>7, IdleConcat
  <2>10. d + Len(y.queue) <= n
    <3>1. PICK k \in Nat : k = Len(x.queue)
      BY <1>9
    <3>2. Len(y.queue) = 0 /\ d + 1 + k <= n
      BY <1>9, <2>4, <2>8, <3>1
    <3> QED BY <3>2
  <2>11. Sink(y, v \o t, d, n)
    <3>1. \A i \in 1 .. Len(y.queue) : y.queue[i] = Given(y, d) + i
      BY <2>4
    <3> QED BY <2>4, <2>8, <2>9, <2>10, <3>1 DEF Sink
  <2>12. ASSUME NEW s, Running(s, x, js, d, n)
         PROVE  Running(s, y, v \o t, d, n)
    <3>1. s.pendingReads = 0 /\ Idle(v, Turn) /\ x.queue = <<>>
      BY <1>10, <2>12
    <3>2. One(t, Turn, Refused(c))
      BY <2>2, <2>4, <2>6, <3>1, OneConcat
    <3>3. One(v \o t, Turn, Refused(c))
      BY <1>2, <2>7, <3>1, <3>2, OneConcat
    <3> QED BY <2>4, <3>1, <3>3 DEF Running, IsRefused, Free
  <2>13. \A s : Running(s, x, js, d, n) => Running(s, y, v \o t, d, n)
    BY <2>12
  <2> QED BY <2>3, <2>4, <2>7, <2>11, <2>13
<1>13. x.writing # 0
  BY <1>4
<1> QED BY <1>4, <1>11, <1>12, <1>13 DEF v

\* The next chunk is queued behind those that are there.
WithQueued(x, c) == [x EXCEPT !.queue = Append(@, c)]

LEMMA QueueSink ==
  ASSUME NEW x \in Writables, NEW d \in Nat, NEW n \in Nat, NEW js \in Seq(Reactions),
         Sink(x, js, d, n), x.state = "writable", NEW c \in Nat \ {0},
         Given(x, d) + Len(x.queue) + 1 = c, NEW m \in Nat, c <= m,
         NEW a, a = WithQueued(x, c)
  PROVE  /\ a \in Writables /\ a.state = x.state /\ a.writing = x.writing
         /\ a.queue = Append(x.queue, c) /\ Given(a, d) = Given(x, d)
         /\ Len(a.queue) = Len(x.queue) + 1
         /\ Sink(a, js, d, m)
<1>1. x.queue \in Seq(Nat \ {0})
  BY DEF Writables
<1>2. PICK u : u = Append(x.queue, c)
  OBVIOUS
<1>3. /\ u \in Seq(Nat \ {0}) /\ Len(u) = Len(x.queue) + 1 /\ Len(x.queue) \in Nat
      /\ u[Len(u)] = c
      /\ \A i \in 1 .. Len(x.queue) : u[i] = x.queue[i]
      /\ \A i \in 1 .. Len(u) : i \in 1 .. Len(x.queue) \/ i = Len(u)
  BY <1>1, <1>2
<1>4. a \in Writables /\ a.state = x.state /\ a.writing = x.writing /\ a.queue = u
  BY <1>2, <1>3 DEF WithQueued, Writables
<1>5. Given(a, d) = Given(x, d) /\ Given(x, d) \in Nat
  BY <1>4 DEF Given
<1>6. \A i \in 1 .. Len(x.queue) : x.queue[i] = Given(x, d) + i
  BY DEF Sink
<1>7. \A i \in 1 .. Len(u) : u[i] = Given(x, d) + i
  <2>1. u[Len(u)] = Given(x, d) + Len(u)
    BY <1>3, <1>5
  <2> QED BY <1>3, <1>6, <2>1
<1>8. Given(x, d) + Len(u) <= m
  BY <1>3, <1>5
<1>9. \/ Idle(js, {"write"}) /\ a.writing \in {0, d + 1}
      \/ One(js, {"write"}, Reaction("write", TRUE, 0)) /\ a.writing = d /\ d > 0
      \/ One(js, {"write"}, Reaction("write", FALSE, 0)) /\ a.writing = d + 1
  BY <1>4 DEF Sink
<1>10. Sink(a, js, d, m)
  BY <1>4, <1>5, <1>7, <1>8, <1>9 DEF Sink
<1> QED BY <1>2, <1>3, <1>4, <1>5, <1>10

\* The pipe writes the chunk it has read; the reaction that brought it was the first of js.
LEMMA WriteRunning ==
  ASSUME NEW s, NEW x \in Writables, NEW d \in Nat, NEW n \in Nat, NEW js \in Seq(Reactions),
         Sink(x, js, d, n), Free(x), s.pendingReads = 0, Idle(js, Turn),
         Follows(s.queue, d + 1, n), s.queue \in Seq(Nat \ {0}),
         NEW y, y = Write(x, d + 1).w, NEW t, t = Write(x, d + 1).jobs
  PROVE  /\ y \in Writables /\ t \in Seq(Reactions) /\ Idle(t, {"write"})
         /\ Sink(y, js \o t, d, n)
         /\ Running(s, y, js \o t, d, n)
<1>1. Given(x, d) = d /\ Len(x.queue) = 0 /\ d + 1 <= n /\ d + 1 \in Nat \ {0}
  <2>1. Given(x, d) = d /\ Len(x.queue) = 0
    BY DEF Given, Free
  <2>2. PICK k \in Nat : k = Len(s.queue)
    OBVIOUS
  <2>3. d + 1 + k = n
    BY <2>2 DEF Follows
  <2>4. d + 1 <= n
    BY <2>3
  <2>5. d + 1 \in Nat \ {0}
    OBVIOUS
  <2> QED BY <2>1, <2>4, <2>5
<1>2. CASE x.state = "writable"
  <2>1. PICK a : a = WithQueued(x, d + 1)
    OBVIOUS
  <2>2. Given(x, d) + Len(x.queue) + 1 = d + 1
    BY <1>1
  <2>3. /\ a \in Writables /\ a.writing = x.writing /\ Given(a, d) = Given(x, d)
        /\ Len(a.queue) = Len(x.queue) + 1
        /\ Sink(a, js, d, n)
    <3>1. n \in Nat /\ n <= n /\ d + 1 \in Nat \ {0} /\ d + 1 <= n
      BY <1>1
    <3> QED BY <1>2, <2>1, <2>2, <3>1, QueueSink
  <2>4. y = ProcessQueue(a) /\ t = <<>>
    BY <1>2, <2>1 DEF WithQueued, Write, Move
  <2>5. Goes(a, y, t)
    BY <2>3, <2>4, ProcessGoes
  <2>6. Writes(s, a, js, d, n)
    <3>1. a.writing = 0 /\ Given(a, d) = d /\ Len(a.queue) = 1
      BY <1>1, <2>3 DEF Free
    <3>2. a.queue # <<>>
      <4>1. ASSUME a.queue = <<>>
            PROVE  Len(a.queue) = 0
        BY <4>1
      <4> QED BY <3>1, <4>1
    <3> QED BY <3>1, <3>2 DEF Writes, Free
  <2>7. Running(s, y, js \o t, d, n)
    BY <2>3, <2>5, <2>6, GoesRunning DEF Running
  <2>8. y \in Writables /\ t \in Seq(Reactions) /\ Idle(t, {"write"}) /\ Sink(y, js, d, n)
    <3>1. a \in Writables /\ Sink(a, js, d, n)
      BY <2>3
    <3> QED BY <2>5, <3>1, GoesSink
  <2> QED BY <2>7, <2>8, SinkJobs
<1>3. CASE x.state # "writable"
  <2>1. y = x /\ t = <<Refused(d + 1)>>
    BY <1>3 DEF Write, Move
  <2>2. Refused(d + 1) \in Reactions /\ Refused(d + 1).on \notin {"write"}
    BY Names
  <2>3. t \in Seq(Reactions) /\ Idle(t, {"write"}) /\ One(t, Turn, Refused(d + 1))
    BY <2>1, <2>2, Few
  <2>4. One(js \o t, Turn, Refused(d + 1))
    BY <2>3, OneConcat
  <2>5. Running(s, y, js \o t, d, n)
    BY <1>1, <2>1, <2>4 DEF Running, IsRefused
  <2> QED BY <2>1, <2>3, <2>5, SinkJobs
<1> QED BY <1>2, <1>3

\* The program's writer writes the next chunk.
LEMMA WriteProgram ==
  ASSUME NEW x \in Writables, NEW d \in Nat, NEW n \in Nat, NEW js \in Seq(Reactions),
         Sink(x, js, d, n), x.state = "writable", Given(x, d) + Len(x.queue) = n,
         NEW y, y = Write(x, n + 1).w, NEW t, t = Write(x, n + 1).jobs
  PROVE  /\ y \in Writables /\ t = <<>> /\ Sink(y, js, d, n + 1)
         /\ y.state = "writable" => Given(y, d) + Len(y.queue) = n + 1
<1>1. PICK a : a = WithQueued(x, n + 1)
  OBVIOUS
<1>2. y = ProcessQueue(a) /\ t = <<>>
  BY <1>1 DEF WithQueued, Write, Move
<1>3. /\ a \in Writables /\ Given(a, d) = Given(x, d) /\ Len(a.queue) = Len(x.queue) + 1
      /\ Sink(a, js, d, n + 1)
  <2>1. n + 1 \in Nat /\ n + 1 \in Nat \ {0} /\ n + 1 <= n + 1
    OBVIOUS
  <2>2. Given(x, d) + Len(x.queue) + 1 = n + 1
    OBVIOUS
  <2> QED BY <1>1, <2>1, <2>2, QueueSink
<1>4. Given(x, d) \in Nat /\ Len(x.queue) \in Nat
  BY DEF Given, Writables
<1>5. Given(a, d) + Len(a.queue) = n + 1
  BY <1>3, <1>4
<1>6. Goes(a, y, t)
  BY <1>2, <1>3, ProcessGoes
<1> QED BY <1>2, <1>3, <1>5, <1>6, GoesSink

-------------------------------------------------------------------------------
(* The whole: the two streams, the jobs, the pipe p and the writer's holder k. *)

Fits(s, x, js, p, k, d, n) ==
  /\ Sink(x, js, d, n)
  /\ p = "none" => k # "pipe"
  /\ p = "none" /\ k = "free" => Unstarted(s, x, js, d, n)
  /\ p = "running" => k = "pipe" /\ Running(s, x, js, d, n)
  /\ p = "closing" => k = "pipe" /\ d = n
  /\ (k = "program" \/ (k = "free" /\ p # "none")) /\ x.state = "writable" =>
        Given(x, d) + Len(x.queue) = n

\* A job of neither the pipe's reads and writes nor the sink's write has been taken.
LEMMA FitsTail ==
  ASSUME NEW s, NEW x, NEW d \in Nat, NEW n \in Nat, NEW p, NEW k, NEW js \in Seq(Reactions),
         js # <<>>, Head(js).on \notin Turn \union {"write"}, Fits(s, x, js, p, k, d, n)
  PROVE  Fits(s, x, Tail(js), p, k, d, n)
<1>1. Sink(x, Tail(js), d, n)
  BY SinkTail DEF Fits
<1>2. Unstarted(s, x, js, d, n) => Unstarted(s, x, Tail(js), d, n)
  <2>1. Idle(js, Turn) => Idle(Tail(js), Turn)
    BY Tails
  <2> QED BY <2>1 DEF Unstarted
<1>3. Running(s, x, js, d, n) => Running(s, x, Tail(js), d, n)
  BY RunningTail
<1> QED BY <1>1, <1>2, <1>3 DEF Fits

\* Jobs of neither have been added.
LEMMA FitsJobs ==
  ASSUME NEW s, NEW x, NEW d \in Nat, NEW n \in Nat, NEW p, NEW k, NEW js \in Seq(Reactions),
         NEW t \in Seq(Reactions), Idle(t, Turn), Idle(t, {"write"}), Fits(s, x, js, p, k, d, n)
  PROVE  Fits(s, x, js \o t, p, k, d, n)
<1>1. Sink(x, js \o t, d, n)
  BY SinkJobs DEF Fits
<1>2. Unstarted(s, x, js, d, n) => Unstarted(s, x, js \o t, d, n)
  <2>1. Idle(js, Turn) => Idle(js \o t, Turn)
    BY IdleConcat
  <2> QED BY <2>1 DEF Unstarted
<1>3. Running(s, x, js, d, n) => Running(s, x, js \o t, d, n)
  BY RunningJobs
<1> QED BY <1>1, <1>2, <1>3 DEF Fits

\* The readable stream has ended, or has been left as it is.
LEMMA FitsEnds ==
  ASSUME NEW s \in Readables, NEW x, NEW d \in Nat, NEW n \in Nat, NEW p, NEW k,
         NEW js \in Seq(Reactions), Fits(s, x, js, p, k, d, n), NEW g, NEW t, Ends(s, g, t)
  PROVE  g \in Readables /\ t \in Seq(Reactions) /\ Fits(g, x, js \o t, p, k, d, n)
<1>1. g \in Readables /\ t \in Seq(Reactions) /\ Idle(t, {"write"})
  BY EndsSink
<1>2. Sink(x, js \o t, d, n)
  BY <1>1, SinkJobs DEF Fits
<1>3. Unstarted(s, x, js, d, n) => Unstarted(g, x, js \o t, d, n)
  <2>1. SUFFICES ASSUME Unstarted(s, x, js, d, n)
                 PROVE  Unstarted(g, x, js \o t, d, n)
    OBVIOUS
  <2>2. t = <<>> /\ Unstarted(g, x, js, d, n)
    BY <2>1, EndsUnstarted
  <2>3. js \o <<>> = js
    BY ConcatEmptySeq
  <2> QED BY <2>2, <2>3
<1>4. Running(s, x, js, d, n) => Running(g, x, js \o t, d, n)
  BY EndsRunning
<1> QED BY <1>1, <1>2, <1>3, <1>4 DEF Fits

\* The writable stream has done one of its steps.
LEMMA FitsGoes ==
  ASSUME NEW s, NEW x \in Writables, NEW d \in Nat, NEW n \in Nat, NEW p, NEW k,
         NEW js \in Seq(Reactions), Fits(s, x, js, p, k, d, n), NEW y, NEW t, Goes(x, y, t)
  PROVE  y \in Writables /\ t \in Seq(Reactions) /\ Fits(s, y, js \o t, p, k, d, n)
<1>1. Sink(x, js, d, n)
  BY DEF Fits
<1>2. /\ y \in Writables /\ t \in Seq(Reactions) /\ Idle(t, {"write"})
      /\ Sink(y, js, d, n)
      /\ y.state = "writable" => x.state = "writable"
             /\ Given(y, d) + Len(y.queue) = Given(x, d) + Len(x.queue)
  BY <1>1, GoesSink
<1>3. Sink(y, js \o t, d, n)
  BY <1>2, SinkJobs
<1>4. Unstarted(s, x, js, d, n) => Unstarted(s, y, js \o t, d, n)
  BY GoesUnstarted
<1>5. Running(s, x, js, d, n) => Running(s, y, js \o t, d, n)
  BY <1>1, GoesRunning
<1> QED BY <1>2, <1>3, <1>4, <1>5 DEF Fits

\* The sink's answer to a write has reached the stream.
LEMMA FitsWrote ==
  ASSUME NEW s, NEW x \in Writables, NEW d \in Nat, NEW n \in Nat, NEW p, NEW k,
         NEW js \in Seq(Reactions), Fits(s, x, js, p, k, d, n), js # <<>>,
         Head(js).on = "write",
         NEW y, y = SinkWrote(x, Head(js).ok).w, NEW t, t = SinkWrote(x, Head(js).ok).jobs
  PROVE  y \in Writables /\ t \in Seq(Reactions) /\ Fits(s, y, Tail(js) \o t, p, k, d, n)
<1>1. Sink(x, js, d, n)
  BY DEF Fits
<1>2. /\ y \in Writables /\ t \in Seq(Reactions)
      /\ Sink(y, Tail(js) \o t, d, n)
      /\ x.writing # 0
      /\ Running(s, x, js, d, n) => Running(s, y, Tail(js) \o t, d, n)
      /\ y.state = "writable" => x.state = "writable"
             /\ Given(y, d) + Len(y.queue) = Given(x, d) + Len(x.queue)
  BY <1>1, SinkWroteSteps
<1>3. ~Unstarted(s, x, js, d, n)
  BY <1>2 DEF Unstarted, Free
<1> QED BY <1>2, <1>3 DEF Fits

\* What the pipe has been told: a chunk it is the next to write, or the stream's end.
LEMMA ReadTold ==
  ASSUME NEW s, NEW x, NEW d \in Nat, NEW n \in Nat, NEW js \in Seq(Reactions), js # <<>>,
         Running(s, x, js, d, n), Head(js).on = "read"
  PROVE  /\ Free(x) /\ s.pendingReads = 0 /\ Idle(Tail(js), Turn)
         /\ \/ Head(js) = Value(d + 1) /\ Follows(s.queue, d + 1, n)
            \/ Head(js) \in {Done, Failed} /\ s.state # "readable" /\ d = n
<1>1. Head(js).on \in Turn /\ ~Idle(js, Turn)
  <2>1. Head(js).on \in Turn
    BY DEF Turn
  <2> QED BY <2>1, Tails
<1>2. /\ Value(d + 1).on = "read" /\ Done.on = "read" /\ Failed.on = "read"
      /\ \A c \in Nat : Wrote(c).on = "entry" /\ Refused(c).on = "entry"
  BY Names
<1>3. ASSUME NEW e, e.on \in Turn, One(js, Turn, e)
      PROVE  Head(js) = e /\ Idle(Tail(js), Turn)
  BY <1>1, <1>3, Tails
<1>4. ASSUME NEW c \in Nat, One(js, Turn, Wrote(c)) \/ One(js, Turn, Refused(c))
      PROVE  FALSE
  <2>1. Wrote(c).on \in Turn /\ Refused(c).on \in Turn
    BY <1>2 DEF Turn
  <2>2. Head(js) = Wrote(c) \/ Head(js) = Refused(c)
    BY <1>3, <1>4, <2>1
  <2> QED BY <1>2, <2>2
<1>5. HasRead(s, x, js, d, n) \/ AtEnd(s, x, js, d, n)
  BY <1>1, <1>4 DEF Running, Reads, Writes, HasWritten, IsRefused
<1>6. CASE HasRead(s, x, js, d, n)
  <2>1. Value(d + 1).on \in Turn
    BY <1>2 DEF Turn
  <2> QED BY <1>3, <1>6, <2>1 DEF HasRead
<1>7. CASE AtEnd(s, x, js, d, n)
  <2>1. Done.on \in Turn /\ Failed.on \in Turn
    BY <1>2 DEF Turn
  <2> QED BY <1>3, <1>7, <2>1 DEF AtEnd
<1> QED BY <1>5, <1>6, <1>7

LEMMA WriteTold ==
  ASSUME NEW s, NEW x, NEW d \in Nat, NEW n \in Nat, NEW js \in Seq(Reactions), js # <<>>,
         Running(s, x, js, d, n), Head(js).on = "entry"
  PROVE  /\ Free(x) /\ s.pendingReads = 0 /\ Idle(Tail(js), Turn)
         /\ Head(js).ok => Follows(s.queue, d, n)
<1>1. Head(js).on \in Turn /\ ~Idle(js, Turn)
  <2>1. Head(js).on \in Turn
    BY DEF Turn
  <2> QED BY <2>1, Tails
<1>2. /\ Value(d + 1).on = "read" /\ Done.on = "read" /\ Failed.on = "read"
      /\ \A c \in Nat : /\ Wrote(c).on = "entry"
                        /\ Refused(c).on = "entry" /\ ~Refused(c).ok
  BY Names
<1>3. ASSUME NEW e, e.on \in Turn, One(js, Turn, e)
      PROVE  Head(js) = e /\ Idle(Tail(js), Turn)
  BY <1>1, <1>3, Tails
<1>4. ~HasRead(s, x, js, d, n) /\ ~AtEnd(s, x, js, d, n)
  <2>1. Value(d + 1).on \in Turn /\ Done.on \in Turn /\ Failed.on \in Turn
    BY <1>2 DEF Turn
  <2>2. ~One(js, Turn, Value(d + 1)) /\ ~One(js, Turn, Done) /\ ~One(js, Turn, Failed)
    BY <1>2, <1>3, <2>1
  <2> QED BY <2>2 DEF HasRead, AtEnd
<1>5. HasWritten(s, x, js, d, n) \/ IsRefused(s, x, js)
  BY <1>1, <1>4 DEF Running, Reads, Writes
<1>6. CASE HasWritten(s, x, js, d, n)
  <2>1. PICK c \in Nat : One(js, Turn, Wrote(c))
    BY <1>6 DEF HasWritten
  <2>2. Wrote(c).on \in Turn
    BY <1>2 DEF Turn
  <2> QED BY <1>3, <1>6, <2>1, <2>2 DEF HasWritten
<1>7. CASE IsRefused(s, x, js)
  <2>1. PICK c \in Nat : One(js, Turn, Refused(c))
    BY <1>7 DEF IsRefused
  <2>2. Refused(c).on \in Turn /\ ~Refused(c).ok
    BY <1>2 DEF Turn
  <2> QED BY <1>3, <1>7, <2>1, <2>2 DEF IsRefused
<1> QED BY <1>5, <1>6, <1>7

\* The sink answers the write it is at work on.
LEMMA FitsAnswered ==
  ASSUME NEW s, NEW x \in Writables, NEW d \in Nat, NEW n \in Nat, NEW p, NEW k,
         NEW js \in Seq(Reactions), Fits(s, x, js, p, k, d, n),
         x.writing # 0, Idle(js, {"write"}),
         NEW ok \in BOOLEAN, NEW m, m = IF ok THEN d + 1 ELSE d
  PROVE  /\ x.writing = d + 1 /\ m \in Nat /\ m <= n
         /\ Fits(s, x, js \o <<Reaction("write", ok, 0)>>, p, k, m, n)
<1>1. PICK e : e = Reaction("write", ok, 0)
  OBVIOUS
<1>2. e \in Reactions /\ e.on = "write" /\ e.on \in {"write"} /\ e.on \notin Turn
  BY <1>1 DEF Reaction, Reactions, Callbacks, Turn
<1>3. PICK t : t = <<e>>
  OBVIOUS
<1>4. t \in Seq(Reactions) /\ One(t, {"write"}, e) /\ Idle(t, Turn)
  BY <1>2, <1>3, Few
<1>5. Reaction("write", TRUE, 0).on = "write" /\ Reaction("write", FALSE, 0).on = "write"
  BY DEF Reaction
<1>6. x.writing = d + 1
  <2>1. ASSUME NEW f, f.on = "write", One(js, {"write"}, f)
        PROVE  FALSE
    BY <2>1 DEF One, Idle
  <2> QED BY <1>5, <2>1 DEF Fits, Sink
<1>7. /\ x.state # "writable" => x.queue = <<>>
      /\ d + 1 + Len(x.queue) <= n
      /\ \A i \in 1 .. Len(x.queue) : x.queue[i] = d + 1 + i
      /\ Len(x.queue) \in Nat
  BY <1>6 DEF Fits, Sink, Given, Writables
<1>8. m \in Nat /\ m <= n /\ d # n
  <2>1. PICK l \in Nat : l = Len(x.queue)
    BY <1>7
  <2>2. d + 1 + l <= n
    BY <1>7, <2>1
  <2>3. d + 1 <= n
    BY <2>2
  <2> QED BY <2>3
<1>9. Given(x, m) = d + 1 /\ Given(x, d) = d + 1
  BY <1>6 DEF Given
<1>10. One(js \o t, {"write"}, e)
  BY <1>4, OneConcat
<1>11. Sink(x, js \o t, m, n)
  <2>1. CASE ok
    <3>1. m = d + 1 /\ m > 0 /\ x.writing = m /\ e = Reaction("write", TRUE, 0)
      BY <1>1, <1>6, <2>1
    <3> QED BY <1>7, <1>9, <1>10, <3>1 DEF Sink
  <2>2. CASE ~ok
    <3>1. m = d /\ x.writing = m + 1 /\ e = Reaction("write", FALSE, 0)
      BY <1>1, <1>6, <2>2
    <3> QED BY <1>7, <1>9, <1>10, <3>1 DEF Sink
  <2> QED BY <2>1, <2>2
<1>12. ~Unstarted(s, x, js, d, n)
  BY DEF Unstarted, Free
<1>13. Running(s, x, js, d, n) => Running(s, x, js \o t, m, n)
  <2>1. SUFFICES ASSUME Running(s, x, js, d, n)
                 PROVE  Running(s, x, js \o t, m, n)
    OBVIOUS
  <2>2. Writes(s, x, js, d, n)
    BY <2>1 DEF Running, Reads, HasRead, AtEnd, HasWritten, IsRefused, Free
  <2>3. Idle(js \o t, Turn)
    BY <1>4, <2>2, IdleConcat DEF Writes
  <2>4. Writes(s, x, js \o t, m, n)
    BY <1>9, <2>2, <2>3 DEF Writes
  <2> QED BY <2>4 DEF Running
<1>14. Fits(s, x, js \o t, p, k, m, n)
  BY <1>8, <1>9, <1>11, <1>12, <1>13 DEF Fits
<1> QED BY <1>1, <1>3, <1>6, <1>8, <1>14

\* A chunk has been accepted by the readable stream.
LEMMA FitsEnqueued ==
  ASSUME NEW s \in Readables, NEW x \in Writables, NEW d \in Nat, NEW n \in Nat, NEW p, NEW k,
         NEW js \in Seq(Reactions), Fits(s, x, js, p, k, d, n),
         Accepts(s), p \in {"none", "running"}, k \in {"free", "pipe"},
         NEW g, Alike(Enqueue(s, n + 1).r, g), NEW t, t = Enqueue(s, n + 1).jobs
  PROVE  g \in Readables /\ t \in Seq(Reactions) /\ Fits(g, x, js \o t, p, k, d, n + 1)
<1>1. Sink(x, js, d, n + 1)
  <2>1. Given(x, d) \in Nat /\ Len(x.queue) \in Nat
    BY DEF Given, Writables
  <2>2. Given(x, d) + Len(x.queue) <= n + 1
    BY <2>1 DEF Fits, Sink
  <2> QED BY <2>2 DEF Fits, Sink
<1>2. CASE p = "running"
  <2>1. k = "pipe" /\ Running(s, x, js, d, n)
    BY <1>2 DEF Fits
  <2>2. /\ g \in Readables /\ t \in Seq(Reactions) /\ Idle(t, {"write"})
        /\ Running(g, x, js \o t, d, n + 1)
    BY <2>1, EnqueueRunning
  <2>3. Sink(x, js \o t, d, n + 1)
    BY <1>1, <2>2, SinkJobs
  <2> QED BY <1>2, <2>1, <2>2, <2>3 DEF Fits
<1>3. CASE p = "none"
  <2>1. k = "free" /\ Unstarted(s, x, js, d, n)
    BY <1>3 DEF Fits
  <2>2. g \in Readables /\ t = <<>> /\ Unstarted(g, x, js, d, n + 1)
    BY <2>1, EnqueueUnstarted
  <2>3. js \o t = js /\ t \in Seq(Reactions)
    BY <2>2, ConcatEmptySeq, Few
  <2> QED BY <1>1, <1>3, <2>1, <2>2, <2>3 DEF Fits
<1> QED BY <1>2, <1>3

LEMMA EndsAlike ==
  ASSUME NEW s, NEW f, NEW g, NEW js, Ends(s, f, js), Alike(f, g)
  PROVE  Ends(s, g, js)
BY DEF Ends, Alike

LEMMA CountsAppend ==
  ASSUME NEW q \in Seq(Nat), Counts(q), NEW c, c = Len(q) + 1
  PROVE  LET u == Append(q, c) IN u \in Seq(Nat) /\ Len(u) = Len(q) + 1 /\ Counts(u)
<1>1. PICK u : u = Append(q, c)
  OBVIOUS
<1>2. /\ u \in Seq(Nat) /\ Len(u) = Len(q) + 1 /\ Len(q) \in Nat /\ u[Len(q) + 1] = c
      /\ \A i \in 1 .. Len(q) : u[i] = q[i]
      /\ \A i \in 1 .. Len(u) : i \in 1 .. Len(q) \/ i = Len(q) + 1
  BY <1>1
<1>3. Counts(u)
  BY <1>2 DEF Counts
<1> QED BY <1>1, <1>2, <1>3

-------------------------------------------------------------------------------
(* The invariant. *)

PipeStates == {"none", "running", "closing", "failing", "blank", "fulfilled", "rejected"}

Typed == /\ r \in Readables /\ w \in Writables /\ jobs \in Seq(Reactions)
         /\ starts \subseteq {"rstart", "wstart"}
         /\ awaited \subseteq {"abort", "cancel"}
         /\ pipe \in PipeStates
         /\ writer \in {"free", "pipe", "program"}
         /\ accepted \in Seq(Nat) /\ delivered \in Seq(Nat)

In == Len(accepted)
Out == Len(delivered)

PipeInv == /\ Typed
           /\ Counts(accepted) /\ Counts(delivered)
           /\ Out <= In
           /\ Fits(r, w, jobs, pipe, writer, Out, In)

LEMMA InitPipe == Init => PipeInv
<1> SUFFICES ASSUME Init PROVE PipeInv
  OBVIOUS
<1>2. PICK s \in BOOLEAN : r = [NewReadable EXCEPT !.started = s]
  BY DEF Init
<1>3. PICK t \in BOOLEAN : w = [NewWritable EXCEPT !.started = t]
  BY DEF Init
<1>4. <<>> \in Seq(Nat \ {0}) /\ <<>> \in Seq(Nat) /\ <<>> \in Seq(Reactions) /\ Len(<<>>) = 0
  OBVIOUS
<1>5. r \in Readables /\ r.queue = <<>> /\ r.pendingReads = 0
  BY <1>2, <1>4 DEF NewReadable, Readables
<1>6. w \in Writables /\ w.queue = <<>> /\ w.writing = 0 /\ w.state = "writable"
  BY <1>3, <1>4 DEF NewWritable, Writables
<1>7. Typed
  BY <1>4, <1>5, <1>6 DEF Typed, Init, PipeStates
<1>8. /\ accepted = <<>> /\ delivered = <<>> /\ jobs = <<>> /\ pipe = "none" /\ writer = "free"
  BY DEF Init
<1>9. Counts(accepted) /\ Counts(delivered) /\ Out = 0 /\ In = 0
  BY <1>4, <1>8 DEF Counts, Out, In
<1>10. Idle(jobs, Turn) /\ Idle(jobs, {"write"})
  BY <1>8, Few
<1>11. Sink(w, jobs, 0, 0)
  <2>1. Given(w, 0) = 0
    BY <1>6 DEF Given
  <2> QED BY <1>4, <1>6, <1>10, <2>1 DEF Sink
<1>12. Unstarted(r, w, jobs, 0, 0)
  <2>1. Follows(r.queue, 0, 0)
    BY <1>5, FollowsNothing
  <2> QED BY <1>5, <1>6, <1>10, <2>1 DEF Unstarted, Free
<1>13. Fits(r, w, jobs, pipe, writer, 0, 0)
  BY <1>8, <1>11, <1>12 DEF Fits
<1> QED BY <1>7, <1>9, <1>13 DEF PipeInv

-------------------------------------------------------------------------------
(* The steps. *)

LEMMA Now ==
  ASSUME PipeInv
  PROVE  /\ r \in Readables /\ w \in Writables /\ jobs \in Seq(Reactions)
         /\ starts \subseteq {"rstart", "wstart"} /\ awaited \subseteq {"abort", "cancel"}
         /\ pipe \in PipeStates
         /\ writer \in {"free", "pipe", "program"}
         /\ Out \in Nat /\ In \in Nat /\ Out <= In
         /\ Fits(r, w, jobs, pipe, writer, Out, In)
BY DEF PipeInv, Typed, Out, In

\* No chunk has been accepted and none delivered.
LEMMA Then ==
  ASSUME PipeInv, UNCHANGED <<accepted, delivered>>,
         r' \in Readables, w' \in Writables, jobs' \in Seq(Reactions),
         starts' \subseteq {"rstart", "wstart"}, awaited' \subseteq {"abort", "cancel"},
         pipe' \in PipeStates,
         writer' \in {"free", "pipe", "program"},
         Fits(r', w', jobs', pipe', writer', Out, In)
  PROVE  PipeInv'
<1>1. Typed'
  BY DEF PipeInv, Typed
<1>2. Out' = Out /\ In' = In
  BY DEF Out, In
<1>3. Counts(accepted') /\ Counts(delivered') /\ Out' <= In'
  BY <1>2 DEF PipeInv
<1> QED BY <1>1, <1>2, <1>3 DEF PipeInv

LEMMA AnswerPipe ==
  ASSUME PipeInv, NEW c \in Callbacks, NEW ok \in BOOLEAN, Answer(c, ok)
  PROVE  PipeInv'
<1>1. PICK e : e = Reaction(c, ok, 0)
  OBVIOUS
<1>2. e \in Reactions /\ e.on = c /\ e.on \notin Turn
  BY <1>1 DEF Reaction, Reactions, Callbacks, Turn
<1>3. PICK t : t = <<e>>
  OBVIOUS
<1>4. /\ t \in Seq(Reactions) /\ Idle(t, Turn)
      /\ c # "write" => Idle(t, {"write"})
  BY <1>2, <1>3, Few
<1>5. jobs' = jobs \o t /\ jobs' \in Seq(Reactions)
  <2>1. jobs \in Seq(Reactions)
    BY Now
  <2>2. jobs' = Append(jobs, e)
    BY <1>1 DEF Answer
  <2>3. Append(jobs, e) = jobs \o <<e>>
    BY <1>2, <2>1, AppendIsConcat
  <2> QED BY <1>3, <1>4, <2>1, <2>2, <2>3, ConcatProperties
<1>6. UNCHANGED <<r, w, starts, pipe, prevent, awaited, writer, accepted>>
  BY DEF Answer
<1>7. CASE c # "write"
  <2>1. delivered' = delivered
    BY <1>7 DEF Answer
  <2>2. Fits(r, w, jobs \o t, pipe, writer, Out, In)
    BY <1>4, <1>7, Now, FitsJobs
  <2> QED BY <1>5, <1>6, <2>1, <2>2, Now, Then
<1>8. CASE c = "write"
  <2>1. w.writing # 0 /\ Idle(jobs, {"write"})
    <3>1. "write" \in Called /\ \A i \in DOMAIN jobs : jobs[i].on # "write"
      BY <1>8 DEF Answer, Unsettled
    <3>2. DOMAIN jobs = 1 .. Len(jobs)
      BY Now
    <3>3. w.writing # 0
      BY <3>1 DEF Called, PipeInv, Typed
    <3> QED BY <3>1, <3>2, <3>3 DEF Idle
  <2>2. PICK m : m = IF ok THEN Out + 1 ELSE Out
    OBVIOUS
  <2>3. /\ w.writing = Out + 1 /\ m \in Nat /\ m <= In
        /\ Fits(r, w, jobs \o t, pipe, writer, m, In)
    BY <1>1, <1>3, <1>8, <2>1, <2>2, Now, FitsAnswered
  <2>4. delivered' \in Seq(Nat) /\ Len(delivered') = m /\ Counts(delivered')
    <3>1. delivered \in Seq(Nat) /\ Counts(delivered)
      BY DEF PipeInv, Typed
    <3>2. CASE ok
      <4>1. delivered' = Append(delivered, w.writing) /\ m = Out + 1
        BY <1>8, <2>2, <3>2 DEF Answer
      <4> QED BY <2>3, <3>1, <4>1, CountsAppend DEF Out
    <3>3. CASE ~ok
      <4>1. delivered' = delivered /\ m = Out
        BY <1>8, <2>2, <3>3 DEF Answer
      <4> QED BY <3>1, <4>1 DEF Out
    <3> QED BY <3>2, <3>3
  <2>5. Out' = m /\ In' = In
    BY <1>6, <2>4 DEF Out, In
  <2>6. Typed'
    BY <1>5, <1>6, <2>4 DEF PipeInv, Typed
  <2>7. Counts(accepted')
    BY <1>6 DEF PipeInv
  <2>8. Fits(r', w', jobs', pipe', writer', Out', In')
    BY <1>5, <1>6, <2>3, <2>5
  <2> QED BY <2>3, <2>4, <2>5, <2>6, <2>7, <2>8 DEF PipeInv
<1> QED BY <1>7, <1>8

LEMMA SourceReactionPipe == PipeInv /\ SourceReaction => PipeInv'
<1> SUFFICES ASSUME PipeInv, SourceReaction PROVE PipeInv'
  OBVIOUS
<1>1. /\ jobs # <<>> /\ job.on \in {"rstart", "pull"} /\ starts' = starts \ {job.on}
      /\ UNCHANGED <<w, pipe, prevent, awaited, writer, accepted, delivered>>
  BY DEF SourceReaction, Runs, job
<1>2. job.ok \in BOOLEAN /\ rest \in Seq(Reactions) /\ job.on \notin Turn \union {"write"}
  <2>1. job \in Reactions /\ rest \in Seq(Reactions)
    BY <1>1, Now, Tails DEF job, rest
  <2> QED BY <1>1, <2>1 DEF Reactions, Turn
<1>3. Fits(r, w, rest, pipe, writer, Out, In)
  BY <1>1, <1>2, Now, FitsTail DEF job, rest
<1>4. PICK t : Ends(r, r', t) /\ jobs' = rest \o t
  <2>1. CASE job.on = "rstart"
    <3>1. r' = SourceStarted(r, job.ok).r /\ jobs' = rest \o SourceStarted(r, job.ok).jobs
      BY <2>1 DEF SourceReaction
    <3>2. Ends(r, r', SourceStarted(r, job.ok).jobs)
      BY <1>2, <3>1, Now, StartedEnds
    <3> QED BY <3>1, <3>2
  <2>2. CASE job.on = "pull"
    <3>1. r' = Pulled(r, job.ok).r /\ jobs' = rest \o Pulled(r, job.ok).jobs
      BY <2>2 DEF SourceReaction
    <3>2. Ends(r, r', Pulled(r, job.ok).jobs)
      BY <1>2, <3>1, Now, PulledEnds
    <3> QED BY <3>1, <3>2
  <2> QED BY <1>1, <2>1, <2>2
<1>5. r' \in Readables /\ t \in Seq(Reactions) /\ Fits(r', w, rest \o t, pipe, writer, Out, In)
  BY <1>2, <1>3, <1>4, Now, FitsEnds
<1>6. jobs' \in Seq(Reactions)
  BY <1>2, <1>4, <1>5, ConcatProperties
<1>7. /\ w' \in Writables /\ starts' \subseteq {"rstart", "wstart"}
      /\ awaited' \subseteq {"abort", "cancel"}
      /\ pipe' \in PipeStates
      /\ writer' \in {"free", "pipe", "program"}
  BY <1>1, Now
<1> QED BY <1>1, <1>4, <1>5, <1>6, <1>7, Then

LEMMA SinkReactionPipe == PipeInv /\ SinkReaction => PipeInv'
<1> SUFFICES ASSUME PipeInv, SinkReaction PROVE PipeInv'
  OBVIOUS
<1>1. /\ jobs # <<>> /\ job.on \in {"wstart", "write", "close"} /\ starts' = starts \ {job.on}
      /\ UNCHANGED <<r, pipe, prevent, awaited, writer, accepted, delivered>>
  BY DEF SinkReaction, Runs, job
<1>2. job.ok \in BOOLEAN /\ rest \in Seq(Reactions)
  <2>1. job \in Reactions /\ rest \in Seq(Reactions)
    BY <1>1, Now, Tails DEF job, rest
  <2> QED BY <2>1 DEF Reactions
<1>3. PICK t : /\ w' \in Writables /\ t \in Seq(Reactions) /\ jobs' = rest \o t
               /\ Fits(r, w', rest \o t, pipe, writer, Out, In)
  <2>1. CASE job.on = "write"
    <3>1. w' = SinkWrote(w, job.ok).w /\ jobs' = rest \o SinkWrote(w, job.ok).jobs
      BY <2>1 DEF SinkReaction
    <3> QED BY <1>1, <2>1, <3>1, Now, FitsWrote DEF job, rest
  <2>2. CASE job.on \in {"wstart", "close"}
    <3>1. Fits(r, w, rest, pipe, writer, Out, In)
      <4>1. job.on \notin Turn \union {"write"}
        BY <2>2 DEF Turn
      <4> QED BY <1>1, <4>1, Now, FitsTail DEF job, rest
    <3>2. PICK t : Goes(w, w', t) /\ jobs' = rest \o t
      <4>1. CASE job.on = "wstart"
        <5>1. w' = SinkStarted(w, job.ok).w /\ jobs' = rest \o SinkStarted(w, job.ok).jobs
          BY <4>1 DEF SinkReaction
        <5>2. Goes(w, w', SinkStarted(w, job.ok).jobs)
          BY <1>2, <5>1, Now, StartedGoes
        <5> QED BY <5>1, <5>2
      <4>2. CASE job.on = "close"
        <5>1. w' = SinkClosed(w, job.ok).w /\ jobs' = rest \o SinkClosed(w, job.ok).jobs
          BY <4>2 DEF SinkReaction
        <5>2. Goes(w, w', SinkClosed(w, job.ok).jobs)
          BY <1>2, <5>1, Now, ClosedGoes
        <5> QED BY <5>1, <5>2
      <4> QED BY <2>2, <4>1, <4>2
    <3> QED BY <1>2, <3>1, <3>2, Now, FitsGoes
  <2> QED BY <1>1, <2>1, <2>2
<1>4. jobs' \in Seq(Reactions)
  BY <1>2, <1>3, ConcatProperties
<1>5. /\ r' \in Readables /\ starts' \subseteq {"rstart", "wstart"}
      /\ awaited' \subseteq {"abort", "cancel"}
      /\ pipe' \in PipeStates
      /\ writer' \in {"free", "pipe", "program"}
  BY <1>1, Now
<1> QED BY <1>1, <1>3, <1>4, <1>5, Then

\* The jobs that the pipe's own reaction leaves behind.
LEMMA Rest ==
  ASSUME PipeInv, jobs # <<>>, job.on # "write"
  PROVE  /\ job \in Reactions /\ rest \in Seq(Reactions)
         /\ Sink(w, rest, Out, In)
         /\ job.on \notin Turn => Fits(r, w, rest, pipe, writer, Out, In)
         /\ pipe # "running" => Fits(r, w, rest, pipe, writer, Out, In)
<1>1. job \in Reactions /\ rest \in Seq(Reactions)
  BY Now, Tails DEF job, rest
<1>2. Sink(w, jobs, Out, In)
  BY Now DEF Fits
<1>3. Sink(w, rest, Out, In)
  BY <1>2, Now, SinkTail DEF job, rest
<1>4. ASSUME job.on \notin Turn
      PROVE  Fits(r, w, rest, pipe, writer, Out, In)
  <2>1. job.on \notin Turn \union {"write"}
    BY <1>4
  <2> QED BY <2>1, Now, FitsTail DEF job, rest
<1>5. ASSUME pipe # "running"
      PROVE  Fits(r, w, rest, pipe, writer, Out, In)
  <2>1. Idle(jobs, Turn) => Idle(rest, Turn)
    BY Now, Tails DEF rest
  <2>2. Unstarted(r, w, jobs, Out, In) => Unstarted(r, w, rest, Out, In)
    BY <2>1 DEF Unstarted
  <2>3. Fits(r, w, jobs, pipe, writer, Out, In)
    BY Now
  <2> QED BY <1>3, <1>5, <2>2, <2>3 DEF Fits
<1> QED BY <1>1, <1>3, <1>4, <1>5

\* The pipe fails and calls the actions.
LEMMA FailWithPipe ==
  ASSUME PipeInv, NEW actions \in SUBSET {"abort", "cancel"}, NEW before \in Seq(Reactions),
         NEW undefined \in BOOLEAN, Sink(w, before, Out, In),
         FailWith(actions, before, undefined), writer' = "pipe",
         UNCHANGED <<starts, accepted, delivered>>
  PROVE  PipeInv'
<1>1. PICK a : a = IF "abort" \in actions THEN Abort(w) ELSE Move(w, <<>>)
  OBVIOUS
<1>2. PICK c : c = IF "cancel" \in actions THEN Cancel(r) ELSE Step(r, <<>>)
  OBVIOUS
<1>10. PICK ok \in BOOLEAN : ok = ~("cancel" \in actions /\ r.state = "errored")
  OBVIOUS
<1>3. PICK t : t = IF awaited' = {} THEN <<Reaction("action", ok, 0)>> ELSE <<>>
  OBVIOUS
<1>4. /\ w' = a.w /\ r' = c.r /\ pipe' \in {"failing", "blank"} /\ awaited' \subseteq actions
      /\ jobs' = before \o a.jobs \o c.jobs \o t
  BY <1>1, <1>2, <1>3, <1>10 DEF FailWith
<1>5. a.w \in Writables /\ a.jobs \in Seq(Reactions) /\ Idle(a.jobs, {"write"})
      /\ Sink(a.w, before, Out, In)
  <2>1. Goes(w, a.w, a.jobs)
    <3>1. CASE "abort" \in actions
      BY <1>1, <3>1, Now, AbortGoes
    <3>2. CASE "abort" \notin actions
      <4>1. a.w = w /\ a.jobs = <<>>
        BY <1>1, <3>2 DEF Move
      <4>2. Idle(<<>>, Turn) /\ Idle(<<>>, {"write"}) /\ <<>> \in Seq(Reactions)
        BY Few
      <4>3. w \in Writables /\ (w.state # "writable" => w.state # "writable" \/ w.queue = <<>>)
        BY Now
      <4> QED BY <4>1, <4>2, <4>3 DEF Goes
    <3> QED BY <3>1, <3>2
  <2> QED BY <2>1, Now, GoesSink
<1>6. c.r \in Readables /\ c.jobs \in Seq(Reactions) /\ Idle(c.jobs, {"write"})
  <2>1. Ends(r, c.r, c.jobs)
    <3>1. CASE "cancel" \in actions
      BY <1>2, <3>1, Now, CancelEnds
    <3>2. CASE "cancel" \notin actions
      <4>1. c.r = r /\ c.jobs = <<>>
        BY <1>2, <3>2 DEF Step
      <4> QED BY <4>1, Now DEF Ends, Alike
    <3> QED BY <3>1, <3>2
  <2> QED BY <2>1, Now, EndsSink
<1>7. t \in Seq(Reactions) /\ Idle(t, {"write"})
  <2>1. PICK e : e = Reaction("action", ok, 0)
    OBVIOUS
  <2>2. e \in Reactions /\ e.on \notin {"write"}
    BY <2>1 DEF Reaction, Reactions
  <2>3. t = <<e>> \/ t = <<>>
    BY <1>3, <2>1
  <2> QED BY <2>2, <2>3, Few
<1>8. jobs' \in Seq(Reactions) /\ Sink(w', jobs', Out, In)
  <2>1. PICK u : u = before \o a.jobs
    OBVIOUS
  <2>2. u \in Seq(Reactions) /\ Sink(a.w, u, Out, In)
    BY <1>5, <2>1, SinkJobs, ConcatProperties
  <2>3. PICK v : v = u \o c.jobs
    OBVIOUS
  <2>4. v \in Seq(Reactions) /\ Sink(a.w, v, Out, In)
    BY <1>6, <2>2, <2>3, SinkJobs, ConcatProperties
  <2>5. jobs' = v \o t
    BY <1>4, <2>1, <2>3
  <2> QED BY <1>4, <1>7, <2>4, <2>5, SinkJobs, ConcatProperties
<1>9. Fits(r', w', jobs', pipe', writer', Out, In)
  BY <1>4, <1>8 DEF Fits
<1>11. pipe' \in PipeStates
  BY <1>4 DEF PipeStates
<1> QED BY <1>4, <1>5, <1>6, <1>8, <1>9, <1>11, Now, Then

LEMMA ReadSettledPipe == PipeInv /\ ReadSettled => PipeInv'
<1> SUFFICES ASSUME PipeInv, ReadSettled PROVE PipeInv'
  OBVIOUS
<1>1. jobs # <<>> /\ job.on = "read" /\ UNCHANGED <<starts, prevent, accepted, delivered>>
  BY DEF ReadSettled, Runs, job
<1>2. /\ job \in Reactions /\ rest \in Seq(Reactions) /\ Sink(w, rest, Out, In)
      /\ pipe # "running" => Fits(r, w, rest, pipe, writer, Out, In)
  BY <1>1, Rest
<1>3. ASSUME pipe = "running"
      PROVE  /\ writer = "pipe" /\ Free(w) /\ r.pendingReads = 0 /\ Idle(rest, Turn)
             /\ \/ job = Value(Out + 1) /\ Follows(r.queue, Out + 1, In)
                \/ job \in {Done, Failed} /\ r.state # "readable" /\ Out = In
  <2>1. writer = "pipe" /\ Running(r, w, jobs, Out, In)
    BY <1>3, Now DEF Fits
  <2>2. Out \in Nat /\ In \in Nat /\ jobs \in Seq(Reactions)
    BY Now
  <2>3. jobs # <<>> /\ Head(jobs).on = "read"
    BY <1>1 DEF job
  <2>4. /\ Free(w) /\ r.pendingReads = 0 /\ Idle(Tail(jobs), Turn)
        /\ \/ Head(jobs) = Value(Out + 1) /\ Follows(r.queue, Out + 1, In)
           \/ Head(jobs) \in {Done, Failed} /\ r.state # "readable" /\ Out = In
    BY ONLY <2>1, <2>2, <2>3, ReadTold
  <2> QED BY <2>1, <2>4 DEF job, rest
<1>4. /\ Done.ok /\ Done.chunk = 0 /\ ~Failed.ok
      /\ Value(Out + 1).ok /\ Value(Out + 1).chunk = Out + 1
  BY Now, Names
<1>5. CASE /\ pipe = "running" /\ job.ok /\ job.chunk # 0
           /\ w' = Write(w, job.chunk).w /\ jobs' = rest \o Write(w, job.chunk).jobs
           /\ UNCHANGED <<r, pipe, awaited, writer>>
  <2>1. job.chunk = Out + 1 /\ Follows(r.queue, Out + 1, In) /\ Free(w)
        /\ r.pendingReads = 0 /\ Idle(rest, Turn) /\ writer = "pipe"
    BY <1>3, <1>4, <1>5
  <2>2. w \in Writables /\ r.queue \in Seq(Nat \ {0}) /\ Out \in Nat /\ In \in Nat
    BY Now DEF Readables
  <2>3. PICK t : t = Write(w, Out + 1).jobs
    OBVIOUS
  <2>4. w' = Write(w, Out + 1).w /\ jobs' = rest \o t
    BY <1>5, <2>1, <2>3
  <2>5. /\ w' \in Writables /\ t \in Seq(Reactions) /\ Sink(w', rest \o t, Out, In)
        /\ Running(r, w', rest \o t, Out, In)
    BY <1>2, <2>1, <2>2, <2>3, <2>4, WriteRunning
  <2>6. jobs' \in Seq(Reactions)
    BY <1>2, <2>4, <2>5, ConcatProperties
  <2>7. Fits(r', w', jobs', pipe', writer', Out, In)
    BY <1>5, <2>1, <2>4, <2>5 DEF Fits
  <2> QED BY <1>1, <1>5, <2>5, <2>6, <2>7, Now, Then DEF PipeStates
<1>6. CASE /\ pipe = "running" /\ job = Done
           /\ w' = CloseWritable(w).w /\ jobs' = rest \o CloseWritable(w).jobs
           /\ pipe' = "closing" /\ UNCHANGED <<r, awaited, writer>>
  <2>1. Out = In /\ writer = "pipe"
    BY <1>3, <1>4, <1>6, Now
  <2>2. PICK t : t = CloseWritable(w).jobs
    OBVIOUS
  <2>3. Goes(w, w', t)
    BY <1>6, <2>2, Now, CloseGoes
  <2>4. w' \in Writables /\ t \in Seq(Reactions) /\ Idle(t, {"write"}) /\ Sink(w', rest, Out, In)
    BY <1>2, <2>3, Now, GoesSink
  <2>5. jobs' \in Seq(Reactions) /\ Sink(w', jobs', Out, In)
    BY <1>2, <1>6, <2>2, <2>4, SinkJobs, ConcatProperties
  <2>6. Fits(r', w', jobs', pipe', writer', Out, In)
    BY <1>6, <2>1, <2>5 DEF Fits
  <2> QED BY <1>1, <1>6, <2>4, <2>5, <2>6, Now, Then DEF PipeStates
<1>7. CASE /\ pipe = "running" /\ (job = Done \/ ~job.ok)
           /\ pipe' \in {"fulfilled", "rejected"} /\ writer' = "free" /\ jobs' = rest
           /\ UNCHANGED <<r, w, awaited>>
  <2>1. Out = In /\ Free(w)
    BY <1>3, <1>4, <1>7, Now
  <2>2. Given(w, Out) + Len(w.queue) = In
    <3>1. Given(w, Out) = Out /\ Len(w.queue) = 0
      BY <2>1, Now DEF Free, Given
    <3> QED BY <2>1, <3>1, Now
  <2>3. Fits(r', w', jobs', pipe', writer', Out, In)
    BY <1>2, <1>7, <2>2 DEF Fits
  <2> QED BY <1>1, <1>2, <1>7, <2>3, Now, Then DEF PipeStates
<1>8. CASE /\ pipe = "running" /\ UNCHANGED writer
           /\ \E undefined \in BOOLEAN : FailWith({"abort"}, rest, undefined)
  <2>1. writer' = "pipe" /\ {"abort"} \in SUBSET {"abort", "cancel"}
    BY <1>3, <1>8
  <2> QED BY <1>1, <1>2, <1>8, <2>1, FailWithPipe
<1>9. CASE /\ pipe # "running" /\ jobs' = rest
           /\ UNCHANGED <<r, w, pipe, awaited, writer>>
  BY <1>1, <1>2, <1>9, Now, Then DEF PipeStates
<1> QED BY <1>5, <1>6, <1>7, <1>8, <1>9 DEF ReadSettled

LEMMA EntrySettledPipe == PipeInv /\ EntrySettled => PipeInv'
<1> SUFFICES ASSUME PipeInv, EntrySettled PROVE PipeInv'
  OBVIOUS
<1>1. jobs # <<>> /\ job.on = "entry" /\ UNCHANGED <<starts, prevent, writer, accepted, delivered>>
  BY DEF EntrySettled, Runs, job
<1>2. /\ rest \in Seq(Reactions) /\ Sink(w, rest, Out, In)
      /\ pipe # "running" => Fits(r, w, rest, pipe, writer, Out, In)
  BY <1>1, Rest
<1>3. ASSUME pipe = "running"
      PROVE  /\ writer = "pipe" /\ Free(w) /\ r.pendingReads = 0 /\ Idle(rest, Turn)
             /\ job.ok => Follows(r.queue, Out, In)
  <2>1. writer = "pipe" /\ Running(r, w, jobs, Out, In)
    BY <1>3, Now DEF Fits
  <2> QED BY <1>1, <2>1, Now, WriteTold DEF job, rest
<1>4. CASE /\ pipe = "running" /\ job.ok /\ Pump(rest) /\ UNCHANGED pipe
  <2>1. /\ r' = Read(r).r /\ jobs' = rest \o Read(r).jobs /\ UNCHANGED <<w, awaited>>
    BY <1>4 DEF Pump
  <2>2. writer = "pipe" /\ Free(w) /\ r.pendingReads = 0 /\ Idle(rest, Turn)
        /\ Follows(r.queue, Out, In)
    BY <1>3, <1>4
  <2>3. PICK t : t = Read(r).jobs
    OBVIOUS
  <2>4. /\ r' \in Readables /\ t \in Seq(Reactions) /\ Idle(t, {"write"})
        /\ Running(r', w, rest \o t, Out, In)
    BY <1>2, <2>1, <2>2, <2>3, Now, ReadRunning
  <2>5. jobs' \in Seq(Reactions) /\ Sink(w, jobs', Out, In)
    BY <1>2, <2>1, <2>3, <2>4, SinkJobs, ConcatProperties
  <2>6. Fits(r', w', jobs', pipe', writer', Out, In)
    BY <1>1, <1>4, <2>1, <2>2, <2>3, <2>4, <2>5 DEF Fits
  <2> QED BY <1>1, <1>4, <2>1, <2>4, <2>5, <2>6, Now, Then DEF PipeStates
<1>5. CASE /\ pipe = "running"
           /\ \E undefined \in BOOLEAN : FailWith({"cancel"}, rest, undefined)
  <2>1. writer' = "pipe" /\ {"cancel"} \in SUBSET {"abort", "cancel"}
    BY <1>1, <1>3, <1>5
  <2> QED BY <1>1, <1>2, <1>5, <2>1, FailWithPipe
<1>6. CASE /\ pipe = "running"
           /\ r' = ReleaseReader(r).r /\ jobs' = rest \o ReleaseReader(r).jobs
           /\ pipe' = "rejected" /\ UNCHANGED <<w, awaited>>
  <2>1. r.pendingReads = 0 /\ writer = "pipe"
    BY <1>3, <1>6
  <2>2. r' \in Readables /\ ReleaseReader(r).jobs = <<>>
    <3>1. r \in Readables /\ r.state \in {"readable", "closed", "errored"}
      BY Now DEF Readables
    <3>2. PICK m : m = Settle(r, r.state, Failed)
      OBVIOUS
    <3>3. m.r \in Readables /\ m.jobs = IF r.pendingReads = 1 THEN <<Failed>> ELSE <<>>
      BY <3>1, <3>2, SettleShape
    <3>4. ReleaseReader(r) = m
      BY <3>2 DEF ReleaseReader
    <3> QED BY <1>6, <2>1, <3>3, <3>4
  <2>3. jobs' = rest
    BY <1>2, <1>6, <2>2, ConcatEmptySeq
  <2>4. Fits(r', w', jobs', pipe', writer', Out, In)
    BY <1>1, <1>2, <1>6, <2>1, <2>3 DEF Fits
  <2> QED BY <1>1, <1>2, <1>6, <2>2, <2>3, <2>4, Now, Then DEF PipeStates
<1>7. CASE pipe # "running" /\ jobs' = rest /\ UNCHANGED <<r, w, pipe, awaited>>
  BY <1>1, <1>2, <1>7, Now, Then DEF PipeStates
<1> QED BY <1>4, <1>5, <1>6, <1>7 DEF EntrySettled

LEMMA ActionEndedPipe == PipeInv /\ ActionEnded => PipeInv'
<1> SUFFICES ASSUME PipeInv, ActionEnded PROVE PipeInv'
  OBVIOUS
<1>1. /\ jobs # <<>> /\ job.on \in {"closed", "abort", "cancel", "action"} /\ jobs' = rest
      /\ UNCHANGED <<r, w, starts, prevent, writer, accepted, delivered>>
  BY DEF ActionEnded, Runs, job
<1>2. rest \in Seq(Reactions) /\ Fits(r, w, rest, pipe, writer, Out, In)
  <2>1. job.on \notin Turn /\ job.on # "write"
    BY <1>1 DEF Turn
  <2> QED BY <1>1, <2>1, Rest
<1>3. awaited' \subseteq {"abort", "cancel"}
  BY Now DEF ActionEnded
<1>4. \/ pipe \in {"closing", "failing", "blank"} /\ pipe' \in {"fulfilled", "rejected"}
      \/ pipe' = pipe
  BY DEF ActionEnded
<1>5. pipe' \in PipeStates
  BY <1>4, Now DEF PipeStates
<1>6. Fits(r', w', jobs', pipe', writer', Out, In)
  <2>1. CASE pipe' = pipe
    BY <1>1, <1>2, <2>1
  <2>2. CASE pipe \in {"closing", "failing", "blank"} /\ pipe' \in {"fulfilled", "rejected"}
    BY <1>1, <1>2, <2>2 DEF Fits
  <2> QED BY <1>4, <2>1, <2>2
<1> QED BY <1>1, <1>2, <1>3, <1>5, <1>6, Now, Then

LEMMA CallPipeToPipe ==
  ASSUME PipeInv, NEW options, NEW aborted \in BOOLEAN, CallPipeTo(options, aborted)
  PROVE  PipeInv'
<1>1. pipe = "none" /\ UNCHANGED <<starts, accepted, delivered>>
  BY DEF CallPipeTo
<1>2. Fits(r, w, jobs, pipe, writer, Out, In) /\ Sink(w, jobs, Out, In)
  BY Now DEF Fits
<1>3. CASE writer # "free" /\ pipe' = "rejected" /\ UNCHANGED <<r, w, jobs, awaited, writer>>
  <2>1. writer = "program"
    BY <1>1, <1>2, <1>3, Now DEF Fits
  <2>2. Fits(r', w', jobs', pipe', writer', Out, In)
    BY <1>2, <1>3, <2>1 DEF Fits
  <2> QED BY <1>1, <1>3, <2>2, Now, Then DEF PipeStates
<1>4. CASE writer' = "pipe" /\ FailWith({"abort", "cancel"} \ options, jobs, FALSE)
  <2>1. {"abort", "cancel"} \ options \in SUBSET {"abort", "cancel"}
    OBVIOUS
  <2> QED BY <1>1, <1>2, <1>4, <2>1, Now, FailWithPipe
<1>5. CASE writer = "free" /\ writer' = "pipe" /\ pipe' = "running" /\ Pump(jobs)
  <2>1. /\ r' = Read(r).r /\ jobs' = jobs \o Read(r).jobs /\ UNCHANGED <<w, awaited>>
    BY <1>5 DEF Pump
  <2>2. Unstarted(r, w, jobs, Out, In)
    BY <1>1, <1>2, <1>5 DEF Fits
  <2>3. Free(w) /\ r.pendingReads = 0 /\ Idle(jobs, Turn) /\ Follows(r.queue, Out, In)
    BY <2>2 DEF Unstarted
  <2>4. PICK t : t = Read(r).jobs
    OBVIOUS
  <2>5. /\ r' \in Readables /\ t \in Seq(Reactions) /\ Idle(t, {"write"})
        /\ Running(r', w, jobs \o t, Out, In)
    BY <2>1, <2>3, <2>4, Now, ReadRunning
  <2>6. jobs' \in Seq(Reactions) /\ Sink(w, jobs', Out, In)
    BY <1>2, <2>1, <2>4, <2>5, Now, SinkJobs, ConcatProperties
  <2>7. Fits(r', w', jobs', pipe', writer', Out, In)
    BY <1>5, <2>1, <2>4, <2>5, <2>6 DEF Fits
  <2> QED BY <1>1, <1>5, <2>1, <2>5, <2>6, <2>7, Now, Then DEF PipeStates
<1> QED BY <1>3, <1>4, <1>5 DEF CallPipeTo

LEMMA AbortSignalPipe == PipeInv /\ AbortSignal => PipeInv'
<1> SUFFICES ASSUME PipeInv, AbortSignal PROVE PipeInv'
  OBVIOUS
<1>1. /\ pipe = "running" /\ FailWith({"abort", "cancel"} \ prevent, jobs, FALSE)
      /\ UNCHANGED <<starts, writer, accepted, delivered>>
  BY DEF AbortSignal
<1>2. writer' = "pipe" /\ Sink(w, jobs, Out, In)
  BY <1>1, Now DEF Fits
<1>3. {"abort", "cancel"} \ prevent \in SUBSET {"abort", "cancel"}
  OBVIOUS
<1> QED BY <1>1, <1>2, <1>3, Now, FailWithPipe

LEMMA SourceActsPipe ==
  ASSUME PipeInv, NEW call \in {"enqueue", "close", "error"}, SourceActs(call)
  PROVE  PipeInv'
<1>1. PICK s : s = CASE call = "enqueue" -> Enqueue(r, In + 1)
                     [] call = "close"   -> CloseReadable(r)
                     [] call = "error"   -> ErrorReadable(r)
  OBVIOUS
<1>2. /\ r' = [s.r EXCEPT !.asked = FALSE] /\ jobs' = jobs \o s.jobs
      /\ accepted' = IF call = "enqueue" /\ Accepts(r) THEN Append(accepted, In + 1) ELSE accepted
      /\ UNCHANGED <<w, starts, pipe, prevent, awaited, writer, delivered>>
  BY <1>1 DEF SourceActs, In
<1>3. pipe \in {"none", "running"} /\ writer \in {"free", "pipe"}
  BY Now DEF SourceActs, Unread
<1>4. s.r \in Readables => Alike(s.r, r')
  <2>1. PICK f : f = s.r
    OBVIOUS
  <2>2. f \in Readables => Alike(f, r')
    BY <1>2, <2>1 DEF Alike, Readables
  <2> QED BY <2>1, <2>2
<1>5. CASE call = "enqueue" /\ Accepts(r)
  <2>1. s = Enqueue(r, In + 1) /\ accepted' = Append(accepted, In + 1)
    BY <1>1, <1>2, <1>5
  <2>2. s.r \in Readables
    <3>1. In + 1 \in Nat \ {0} /\ r \in Readables
      BY Now
    <3>2. PICK f : f = [r EXCEPT !.pendingReads = @ - 1]
      OBVIOUS
    <3>3. PICK g : g = [r EXCEPT !.queue = Append(@, In + 1)]
      OBVIOUS
    <3>4. r.pendingReads > 0 => f \in Readables
      BY <3>1, <3>2 DEF Readables
    <3>5. g \in Readables
      <4>1. Append(r.queue, In + 1) \in Seq(Nat \ {0})
        BY <3>1 DEF Readables
      <4> QED BY <3>1, <3>3, <4>1 DEF Readables
    <3>6. (s.r = f /\ r.pendingReads > 0) \/ s.r = g
      BY <1>5, <2>1, <3>2, <3>3 DEF Enqueue, Step
    <3> QED BY <3>4, <3>5, <3>6
  <2>3. Alike(Enqueue(r, In + 1).r, r')
    BY <1>4, <2>1, <2>2
  <2>4. PICK t : t = Enqueue(r, In + 1).jobs
    OBVIOUS
  <2>5. /\ r' \in Readables /\ t \in Seq(Reactions)
        /\ Fits(r', w, jobs \o t, pipe, writer, Out, In + 1)
    BY <1>3, <1>5, <2>3, <2>4, Now, FitsEnqueued
  <2>6. jobs' = jobs \o t /\ jobs' \in Seq(Reactions)
    BY <1>2, <2>1, <2>4, <2>5, Now, ConcatProperties
  <2>7. accepted' \in Seq(Nat) /\ Len(accepted') = In + 1 /\ Counts(accepted')
    <3>1. accepted \in Seq(Nat) /\ Counts(accepted)
      BY DEF PipeInv, Typed
    <3> QED BY <2>1, <3>1, CountsAppend DEF In
  <2>8. Out' = Out /\ In' = In + 1 /\ Out' <= In'
    BY <1>2, <2>7, Now DEF Out, In
  <2>9. Typed'
    BY <1>2, <2>5, <2>6, <2>7 DEF PipeInv, Typed
  <2>10. Counts(delivered')
    BY <1>2 DEF PipeInv
  <2>11. Fits(r', w', jobs', pipe', writer', Out', In')
    BY <1>2, <2>5, <2>6, <2>8
  <2> QED BY <2>7, <2>8, <2>9, <2>10, <2>11 DEF PipeInv
<1>6. CASE ~(call = "enqueue" /\ Accepts(r))
  <2>1. accepted' = accepted
    BY <1>2, <1>6
  <2>2. Ends(r, s.r, s.jobs) /\ s.r \in Readables
    <3>1. CASE call = "enqueue"
      <4>1. s.r = r /\ s.jobs = <<>>
        BY <1>1, <1>6, <3>1 DEF Enqueue, Step
      <4> QED BY <4>1, Now DEF Ends, Alike
    <3>2. CASE call = "close"
      <4>1. Ends(r, s.r, s.jobs)
        BY <1>1, <3>2, Now, CloseEnds
      <4> QED BY <4>1, Now, EndsSink
    <3>3. CASE call = "error"
      <4>1. Ends(r, s.r, s.jobs)
        BY <1>1, <3>3, Now, ErrorEnds
      <4> QED BY <4>1, Now, EndsSink
    <3> QED BY <3>1, <3>2, <3>3
  <2>3. Ends(r, r', s.jobs)
    BY <1>4, <2>2, EndsAlike
  <2>4. /\ r' \in Readables /\ s.jobs \in Seq(Reactions)
        /\ Fits(r', w, jobs \o s.jobs, pipe, writer, Out, In)
    BY <2>3, Now, FitsEnds
  <2>5. jobs' \in Seq(Reactions)
    BY <1>2, <2>4, Now, ConcatProperties
  <2> QED BY <1>2, <2>1, <2>4, <2>5, Now, Then
<1> QED BY <1>5, <1>6

LEMMA ProgramCancelsPipe == PipeInv /\ ProgramCancels => PipeInv'
<1> SUFFICES ASSUME PipeInv, ProgramCancels PROVE PipeInv'
  OBVIOUS
<1>1. PICK t : t = Cancel(r).jobs
  OBVIOUS
<1>2. /\ r' = Cancel(r).r /\ jobs' = jobs \o t
      /\ UNCHANGED <<w, starts, pipe, prevent, awaited, writer, accepted, delivered>>
  BY <1>1 DEF ProgramCancels
<1>3. Ends(r, r', t)
  BY <1>1, <1>2, Now, CancelEnds
<1>4. r' \in Readables /\ t \in Seq(Reactions) /\ Fits(r', w, jobs \o t, pipe, writer, Out, In)
  BY <1>3, Now, FitsEnds
<1>5. jobs' \in Seq(Reactions)
  BY <1>2, <1>4, Now, ConcatProperties
<1> QED BY <1>2, <1>4, <1>5, Now, Then

\* The writable stream's own steps.
LEMMA GoesPipe ==
  ASSUME PipeInv, NEW t, Goes(w, w', t), jobs' = jobs \o t,
         UNCHANGED <<r, starts, pipe, prevent, awaited, writer, accepted, delivered>>
  PROVE  PipeInv'
<1>1. w' \in Writables /\ t \in Seq(Reactions) /\ Fits(r, w', jobs \o t, pipe, writer, Out, In)
  BY Now, FitsGoes
<1>2. jobs' \in Seq(Reactions)
  BY <1>1, Now, ConcatProperties
<1> QED BY <1>1, <1>2, Now, Then

LEMMA SinkErrorsPipe == PipeInv /\ SinkErrors => PipeInv'
<1> SUFFICES ASSUME PipeInv, SinkErrors PROVE PipeInv'
  OBVIOUS
<1>1. /\ w' = ErrorWritable(w).w /\ jobs' = jobs \o ErrorWritable(w).jobs
      /\ UNCHANGED <<r, starts, pipe, prevent, awaited, writer, accepted, delivered>>
  BY DEF SinkErrors
<1>2. Goes(w, w', ErrorWritable(w).jobs)
  BY <1>1, Now, ErrorGoes
<1> QED BY <1>1, <1>2, GoesPipe

LEMMA ProgramEndsPipe == PipeInv /\ ProgramEnds => PipeInv'
<1> SUFFICES ASSUME PipeInv, ProgramEnds PROVE PipeInv'
  OBVIOUS
<1>1. UNCHANGED <<r, starts, pipe, prevent, awaited, writer, accepted, delivered>>
  BY DEF ProgramEnds
<1>2. PICK m \in {CloseWritable(w), Abort(w)} : w' = m.w /\ jobs' = jobs \o m.jobs
  BY DEF ProgramEnds
<1>3. Goes(w, w', m.jobs)
  BY <1>2, Now, CloseGoes, AbortGoes
<1> QED BY <1>1, <1>2, <1>3, GoesPipe

LEMMA TakeWriterPipe == PipeInv /\ TakeWriter => PipeInv'
<1> SUFFICES ASSUME PipeInv, TakeWriter PROVE PipeInv'
  OBVIOUS
<1>1. /\ writer = "free" /\ writer' = "program" /\ (pipe = "none" => accepted = <<>>)
      /\ UNCHANGED <<r, w, jobs, starts, pipe, prevent, awaited, accepted, delivered>>
  BY DEF TakeWriter
<1>2. Fits(r, w, jobs, pipe, writer, Out, In)
  BY Now
<1>3. w.state = "writable" => Given(w, Out) + Len(w.queue) = In
  <2>1. CASE pipe = "none"
    <3>1. Out = 0 /\ Free(w)
      BY <1>1, <1>2, <2>1 DEF Fits, Unstarted
    <3>2. In = 0
      BY <1>1, <2>1 DEF In
    <3>3. Given(w, Out) = 0 /\ Len(w.queue) = 0
      BY <3>1 DEF Free, Given
    <3> QED BY <3>2, <3>3
  <2>2. CASE pipe # "none"
    BY <1>1, <1>2, <2>2 DEF Fits
  <2> QED BY <2>1, <2>2
<1>4. pipe \notin {"running", "closing"}
  BY <1>1, <1>2 DEF Fits
<1>5. Fits(r', w', jobs', pipe', writer', Out, In)
  BY <1>1, <1>2, <1>3, <1>4 DEF Fits
<1> QED BY <1>1, <1>5, Now, Then

LEMMA ProgramWritesPipe == PipeInv /\ ProgramWrites => PipeInv'
<1> SUFFICES ASSUME PipeInv, ProgramWrites PROVE PipeInv'
  OBVIOUS
<1>1. /\ writer = "program" /\ w.state = "writable"
      /\ w' = Write(w, In + 1).w /\ jobs' = jobs \o Write(w, In + 1).jobs
      /\ accepted' = Append(accepted, In + 1)
      /\ UNCHANGED <<r, starts, pipe, prevent, awaited, writer, delivered>>
  BY DEF ProgramWrites, In
<1>2. Sink(w, jobs, Out, In) /\ Given(w, Out) + Len(w.queue) = In
      /\ pipe \notin {"running", "closing"}
  BY <1>1, Now DEF Fits
<1>3. PICK t : t = Write(w, In + 1).jobs
  OBVIOUS
<1>4. /\ w' \in Writables /\ t = <<>> /\ Sink(w', jobs, Out, In + 1)
      /\ w'.state = "writable" => Given(w', Out) + Len(w'.queue) = In + 1
  <2>1. w \in Writables /\ Out \in Nat /\ In \in Nat /\ jobs \in Seq(Reactions)
    BY Now
  <2>2. w.state = "writable" /\ w' = Write(w, In + 1).w
    BY <1>1
  <2>3. Sink(w, jobs, Out, In) /\ Given(w, Out) + Len(w.queue) = In
    BY <1>2
  <2>4. PICK y : y = w'
    OBVIOUS
  <2>5. /\ y \in Writables /\ t = <<>> /\ Sink(y, jobs, Out, In + 1)
        /\ y.state = "writable" => Given(y, Out) + Len(y.queue) = In + 1
    BY <1>3, <2>1, <2>2, <2>3, <2>4, WriteProgram, SMTT(30)
  <2> QED BY <2>4, <2>5
<1>5. jobs' = jobs
  BY <1>1, <1>3, <1>4, Now, ConcatEmptySeq
<1>6. accepted' \in Seq(Nat) /\ Len(accepted') = In + 1 /\ Counts(accepted')
  <2>1. accepted \in Seq(Nat) /\ Counts(accepted)
    BY DEF PipeInv, Typed
  <2> QED BY <1>1, <2>1, CountsAppend DEF In
<1>7. Out' = Out /\ In' = In + 1 /\ Out' <= In'
  BY <1>1, <1>6, Now DEF Out, In
<1>8. Typed'
  BY <1>1, <1>4, <1>5, <1>6 DEF PipeInv, Typed
<1>9. Counts(delivered')
  BY <1>1 DEF PipeInv
<1>10. Fits(r', w', jobs', pipe', writer', Out, In + 1)
  BY <1>1, <1>2, <1>4, <1>5 DEF Fits
<1>11. Fits(r', w', jobs', pipe', writer', Out', In')
  BY <1>7, <1>10
<1> QED BY <1>6, <1>7, <1>8, <1>9, <1>11 DEF PipeInv

LEMMA StutterPipe == PipeInv /\ UNCHANGED vars => PipeInv'
<1> SUFFICES ASSUME PipeInv, UNCHANGED vars PROVE PipeInv'
  OBVIOUS
<1> QED BY Now, Then DEF vars

-------------------------------------------------------------------------------
(* The theorems. *)

\* What holds between any two steps of the program, the streams and the pipe.
LEMMA PipeHolds == Spec => []PipeInv
<1>1. PipeInv /\ [Next]_vars => PipeInv'
  BY AnswerPipe, SourceReactionPipe, SinkReactionPipe, ReadSettledPipe, EntrySettledPipe,
     ActionEndedPipe, CallPipeToPipe, AbortSignalPipe, SourceActsPipe, ProgramCancelsPipe,
     SinkErrorsPipe, TakeWriterPipe, ProgramWritesPipe, ProgramEndsPipe, StutterPipe
     DEF Next, Microtask
<1> QED BY <1>1, InitPipe, PTL DEF Spec

\* The sink has reported the chunks written that the readable stream, or the program's
\* writer, took first, in that order, none twice and none left out: through the stream's
\* queue, pending reads, the reactions of pipeTo's pump and the writable stream's queue,
\* whoever closes, cancels, aborts or errs in between.
THEOREM ChunksInOrder == Spec => []InOrder
<1>1. PipeInv => InOrder
  <2> SUFFICES ASSUME PipeInv PROVE InOrder
    OBVIOUS
  <2>1. /\ Counts(accepted) /\ Counts(delivered) /\ Out <= In
        /\ accepted \in Seq(Nat) /\ delivered \in Seq(Nat)
    BY DEF PipeInv, Typed
  <2>2. Len(delivered) <= Len(accepted) /\ Len(delivered) \in Nat /\ Len(accepted) \in Nat
    BY <2>1 DEF Out, In
  <2>3. \A i \in 1 .. Len(delivered) : delivered[i] = i /\ accepted[i] = i
    BY <2>1, <2>2 DEF Counts
  <2>4. SubSeq(delivered, 1, Len(delivered)) = SubSeq(accepted, 1, Len(delivered))
    BY <2>1, <2>2, <2>3
  <2> QED BY <2>2, <2>4 DEF InOrder, IsPrefix
<1> QED BY <1>1, PipeHolds, PTL

\* When the promise of pipeTo is fulfilled, every chunk the source had enqueued has been
\* written, wherever the chunks were when the source was closed or cancelled; but for a
\* pipe that has failed with an error that is undefined.
THEOREM FulfilledPipesAreComplete == Spec => FulfilledIsComplete
<1>1. PipeInv /\ [Next]_vars =>
         (pipe' = "fulfilled" /\ pipe \notin {"fulfilled", "blank"} => delivered' = accepted')
  <2> SUFFICES ASSUME PipeInv, [Next]_vars, pipe' = "fulfilled",
                      pipe \notin {"fulfilled", "blank"}
               PROVE  delivered' = accepted'
    OBVIOUS
  <2>1. ReadSettled \/ ActionEnded
    BY DEF Next, vars, Microtask, SourceReaction, SinkReaction, EntrySettled, FailWith, Answer,
           CallPipeTo, SourceActs, AbortSignal, ProgramCancels, SinkErrors, TakeWriter,
           ProgramWrites, ProgramEnds
  <2>2. Fits(r, w, jobs, pipe, writer, Out, In)
    BY Now
  <2>3. Out = In /\ UNCHANGED <<accepted, delivered>>
    <3>1. CASE ReadSettled
      <4>1. jobs # <<>> /\ Head(jobs) = Done /\ pipe = "running"
            /\ UNCHANGED <<accepted, delivered>>
        BY <3>1 DEF ReadSettled, FailWith, Runs, job
      <4>2. Running(r, w, jobs, Out, In)
        BY <2>2, <4>1 DEF Fits
      <4>3. Head(jobs).on = "read" /\ Head(jobs).chunk = 0
            /\ Value(Out + 1).chunk = Out + 1
        BY <4>1, Now, Names
      <4>4. \/ Head(jobs) = Value(Out + 1)
            \/ Out = In
        <5>1. Out \in Nat /\ In \in Nat /\ jobs \in Seq(Reactions)
          BY Now
        <5>2. jobs # <<>> /\ Head(jobs).on = "read"
          BY <4>1, <4>3
        <5>3. /\ Free(w) /\ r.pendingReads = 0 /\ Idle(Tail(jobs), Turn)
              /\ \/ Head(jobs) = Value(Out + 1) /\ Follows(r.queue, Out + 1, In)
                 \/ Head(jobs) \in {Done, Failed} /\ r.state # "readable" /\ Out = In
          BY ONLY <4>2, <5>1, <5>2, ReadTold
        <5> QED BY <5>3
      <4>5. Head(jobs) # Value(Out + 1)
        <5>1. Out \in Nat /\ Out + 1 # 0
          BY Now
        <5> QED BY <4>3, <5>1
      <4> QED BY <4>1, <4>4, <4>5
    <3>2. CASE ActionEnded
      <4>1. pipe = "closing" /\ UNCHANGED <<accepted, delivered>>
        BY <3>2 DEF ActionEnded
      <4> QED BY <2>2, <4>1 DEF Fits
    <3> QED BY <2>1, <3>1, <3>2
  <2>4. /\ Counts(accepted) /\ Counts(delivered) /\ Len(accepted) = Len(delivered)
        /\ accepted \in Seq(Nat) /\ delivered \in Seq(Nat)
    BY <2>3 DEF PipeInv, Typed, Out, In
  <2>5. ASSUME NEW i \in 1 .. Len(accepted) PROVE delivered[i] = accepted[i]
    BY <2>4, <2>5 DEF Counts
  <2>6. delivered = accepted
    BY <2>4, <2>5, SeqEqual
  <2> QED BY <2>3, <2>6
<1> QED BY <1>1, PipeHolds, PTL DEF Spec, FulfilledIsComplete

================================================================================
