------------------------------- MODULE Web_proof -------------------------------
(***************************************************************************)
(* Proofs about Web: fetch() under a program, an XMLHttpRequest and an     *)
(* EventSource, for every number of requests, bytes, sends and calls.      *)
(*                                                                         *)
(* EsInv and XhrInv bind an object to what Fetch_proof says of fetch();    *)
(* Tale follows the events of each send().  The objects come first, then   *)
(* the actions, then the theorems.                                         *)
(***************************************************************************)
EXTENDS Web, Fetch_proof

-------------------------------------------------------------------------------
(* The EventSource.  It resumes where it stopped, and while it is not closed       *)
(* exactly one thing is under way.                                                 *)

EsKeys == {"readyState", "closed", "conn", "controller", "lastEventId", "base", "nth", "buf",
           "timers", "pump", "seen"}

EsType(s) == /\ s = [k \in EsKeys |-> s[k]]
             /\ s.closed \in BOOLEAN /\ s.pump \in BOOLEAN /\ s.timers \in {0, 1}
             /\ s.lastEventId \in Nat /\ s.base \in Nat /\ s.nth \in Nat /\ s.buf \in Nat
             /\ s.seen \in Seq(Nat)

Resumes(s) == /\ s.lastEventId = Len(s.seen) /\ s.base + s.nth = Len(s.seen)
              /\ \A i \in 1 .. Len(s.seen) : s.seen[i] = i

Bound(f, s) == s.conn \in Ids /\ s.conn < f.next /\ s.controller \in {0, s.conn}

Nobody(f) == \A d \in Ids : ~Connecting(f, d) /\ ~Reading(f, d)

Lifeline(f, s) ==
  /\ \A d \in Ids : d # s.conn => ~Connecting(f, d) /\ ~Reading(f, d)
  /\ s.pump <=> Reading(f, s.conn)
  /\ s.timers = 1 <=> ~Connecting(f, s.conn) /\ ~Reading(f, s.conn)

EsInv(f, s) == /\ FetchInv(f) /\ EsType(s) /\ Bound(f, s) /\ Resumes(s)
               /\ ~s.closed => Lifeline(f, s)

\* A step of fetch() that nobody who waits notices.
LEMMA EsUntouched ==
  ASSUME NEW f, NEW s, EsInv(f, s), NEW g, FetchInv(g), g.next = f.next,
         \A d \in Ids : KeepsWaiting(f, g, d)
  PROVE  EsInv(g, s)
<1>1. s.conn \in Ids
  BY DEF EsInv, Bound
<1>2. \A d \in Ids : (Connecting(g, d) <=> Connecting(f, d)) /\ (Reading(g, d) <=> Reading(f, d))
  BY DEF KeepsWaiting
<1>3. ~s.closed => Lifeline(g, s)
  BY <1>1, <1>2 DEF EsInv, Lifeline
<1> QED BY <1>3 DEF EsInv, Bound

Pair(w) == w = [k \in {"f", "es"} |-> w[k]] /\ EsType(w.es)

SetEs(w, s) == [w EXCEPT !.es = s]

LEMMA SetEsIs ==
  ASSUME NEW w, Pair(w), NEW s, EsType(s)
  PROVE  Pair(SetEs(w, s)) /\ SetEs(w, s).f = w.f /\ SetEs(w, s).es = s
BY DEF Pair, SetEs

\* In a reaction: nobody waits, and no timer is set but by a source that is closed.
Poised(w) == /\ Pair(w) /\ FetchInv(w.f) /\ Bound(w.f, w.es) /\ Resumes(w.es)
             /\ ~Connecting(w.f, w.es.conn) /\ ~Reading(w.f, w.es.conn)
             /\ ~w.es.closed => w.es.timers = 0 /\ Nobody(w.f)

Alike(s, t) == /\ t.conn = s.conn /\ t.base = s.base /\ t.nth = s.nth
               /\ t.lastEventId = s.lastEventId /\ t.seen = s.seen /\ t.timers = s.timers
               /\ t.pump = s.pump /\ t.controller \in {0, s.controller}

Shuts(w, g, closes) == /\ Pair(g) /\ Goes(w.f, g.f) /\ Alike(w.es, g.es)
                       /\ g.es.closed <=> w.es.closed \/ closes

LEMMA CloseIfDoes ==
  ASSUME NEW w, Pair(w), FetchInv(w.f), Bound(w.f, w.es), NEW closes \in BOOLEAN,
         NEW g, g = CloseIf(w, closes)
  PROVE  Shuts(w, g, closes)
<1>1. CASE ~closes
  <2>1. g = w
    BY <1>1 DEF CloseIf
  <2>2. Goes(w.f, w.f)
    BY DEF Goes, KeepsWaiting
  <2> QED BY <1>1, <2>1, <2>2 DEF Shuts, Alike
<1>2. CASE closes
  <2>1. PICK s : s = [w.es EXCEPT !.closed = TRUE, !.readyState = CLOSED, !.controller = 0]
    OBVIOUS
  <2>2. EsType(s) /\ s.closed /\ Alike(w.es, s)
    BY <2>1 DEF Pair, EsType, EsKeys, Alike
  <2>3. PICK v : v = SetEs(w, s)
    OBVIOUS
  <2>4. Pair(v) /\ v.f = w.f /\ v.es = s
    BY <2>2, <2>3, SetEsIs
  <2>5. [w EXCEPT !.es.closed = TRUE, !.es.readyState = CLOSED, !.es.controller = 0] = v
    BY <2>1, <2>3 DEF Pair, SetEs, EsType, EsKeys
  <2>6. CASE w.es.controller = 0
    <3>1. g = v
      BY <1>2, <2>5, <2>6 DEF CloseIf, Close
    <3>2. Goes(w.f, w.f)
      BY DEF Goes, KeepsWaiting
    <3> QED BY <1>2, <2>2, <2>4, <3>1, <3>2 DEF Shuts
  <2>7. CASE w.es.controller # 0
    <3>1. PICK id \in Ids : id = w.es.controller
      BY <2>7 DEF Bound
    <3>2. PICK h : h = AbortRequest(w.f, id, FALSE)
      OBVIOUS
    <3>3. Goes(w.f, h)
      <4>1. FALSE \in BOOLEAN
        OBVIOUS
      <4> QED BY <3>2, <4>1, AbortStep
    <3>4. g = [v EXCEPT !.f = h]
      BY <1>2, <2>4, <2>5, <2>7, <3>1, <3>2 DEF CloseIf, Close
    <3>5. Pair(g) /\ g.f = h /\ g.es = s
      BY <2>2, <2>4, <3>4 DEF Pair
    <3> QED BY <1>2, <2>2, <3>3, <3>5 DEF Shuts
  <2> QED BY <2>6, <2>7
<1> QED BY <1>1, <1>2

LEMMA ShutPoised ==
  ASSUME NEW w, Poised(w), NEW closes \in BOOLEAN, NEW g, g = CloseIf(w, closes)
  PROVE  /\ Poised(g) /\ g.es.conn = w.es.conn /\ (g.es.closed <=> w.es.closed \/ closes)
         /\ g.f.told[w.es.conn] = w.f.told[w.es.conn] \/ w.f.told[w.es.conn] = "nothing"
<1>1. Shuts(w, g, closes)
  <2>1. Pair(w) /\ FetchInv(w.f) /\ Bound(w.f, w.es)
    BY DEF Poised
  <2> QED BY <2>1, CloseIfDoes
<1>2. w.es.conn \in Ids /\ g.es.conn = w.es.conn /\ g.f.next = w.f.next
  BY <1>1 DEF Poised, Bound, Shuts, Alike, Goes
<1>3. /\ \A d \in Ids : (Connecting(g.f, d) <=> Connecting(w.f, d)) /\ (Reading(g.f, d) <=> Reading(w.f, d))
      /\ \A d \in Ids : w.f.told[d] # "nothing" => g.f.told[d] = w.f.told[d]
      /\ FetchInv(g.f)
  BY <1>1 DEF Shuts, Goes, KeepsWaiting
<1>4. Bound(g.f, g.es)
  BY <1>1, <1>2 DEF Poised, Bound, Shuts, Alike
<1>5. Resumes(g.es)
  BY <1>1 DEF Poised, Resumes, Shuts, Alike
<1>6. ~g.es.closed => g.es.timers = 0 /\ Nobody(g.f)
  BY <1>1, <1>3 DEF Poised, Shuts, Alike, Nobody
<1> QED BY <1>1, <1>2, <1>3, <1>4, <1>5, <1>6 DEF Poised, Shuts

\* A failure outside of a source that is closed.
LEMMA FailDoes ==
  ASSUME NEW w, Poised(w), ~w.es.closed, NEW closes \in BOOLEAN,
         NEW g, g = FailAndReconnect(w, closes)
  PROVE  EsInv(g.f, g.es)
<1>1. PICK s : s = [w.es EXCEPT !.readyState = CONNECTING, !.pump = FALSE]
  OBVIOUS
<1>2. /\ EsType(s) /\ Bound(w.f, s) /\ Resumes(s) /\ ~s.closed /\ ~s.pump
      /\ s.conn = w.es.conn /\ s.timers = w.es.timers
  BY <1>1 DEF Poised, Pair, EsType, EsKeys, Bound, Resumes
<1>3. PICK v : v = SetEs(w, s)
  OBVIOUS
<1>4. Pair(v) /\ v.f = w.f /\ v.es = s
  BY <1>2, <1>3, SetEsIs DEF Poised
<1>5. [w EXCEPT !.es.readyState = CONNECTING, !.es.pump = FALSE] = v
  BY <1>1, <1>3 DEF Poised, Pair, SetEs, EsType, EsKeys
<1>6. Poised(v)
  BY <1>2, <1>4 DEF Poised
<1>7. PICK h : h = CloseIf(v, closes)
  OBVIOUS
<1>8. Poised(h) /\ (h.es.closed <=> closes) /\ h.es.conn = s.conn /\ ~h.es.pump
  <2>1. Poised(h) /\ h.es.conn = v.es.conn /\ (h.es.closed <=> v.es.closed \/ closes)
    BY <1>6, <1>7, ShutPoised
  <2>2. Pair(v) /\ FetchInv(v.f) /\ Bound(v.f, v.es)
    BY <1>6 DEF Poised
  <2>3. Shuts(v, h, closes)
    BY <1>7, <2>2, CloseIfDoes
  <2> QED BY <1>2, <1>4, <2>1, <2>3 DEF Shuts, Alike
<1>9. g = IF h.es.closed THEN h ELSE [h EXCEPT !.es.timers = @ + 1]
  BY <1>5, <1>7 DEF FailAndReconnect
<1>10. CASE h.es.closed
  BY <1>8, <1>9, <1>10 DEF EsInv, Poised, Pair
<1>11. CASE ~h.es.closed
  <2>1. h.es.timers = 0 /\ Nobody(h.f) /\ Pair(h) /\ FetchInv(h.f)
    BY <1>8, <1>11 DEF Poised
  <2>2. PICK t : t = [h.es EXCEPT !.timers = 1]
    OBVIOUS
  <2>3. /\ EsType(t) /\ Bound(h.f, t) /\ Resumes(t) /\ t.timers = 1 /\ ~t.pump /\ t.conn = h.es.conn
    BY <1>8, <2>1, <2>2 DEF Poised, Pair, EsType, EsKeys, Bound, Resumes
  <2>4. g.f = h.f /\ g.es = t
    BY <1>9, <1>11, <2>1, <2>2 DEF Pair, EsType, EsKeys
  <2>5. Lifeline(h.f, t)
    BY <2>1, <2>3 DEF Lifeline, Nobody, Bound
  <2> QED BY <2>1, <2>3, <2>4, <2>5 DEF EsInv
<1> QED BY <1>10, <1>11

LEMMA PumpDoes ==
  ASSUME NEW w, Poised(w), w.f.told[w.es.conn] = "response", NEW g, g = PumpStream(w)
  PROVE  EsInv(g.f, g.es)
<1>1. PICK id \in Ids : id = w.es.conn
  BY DEF Poised, Bound
<1>2. PICK h : h = ReadBody(w.f, id)
  OBVIOUS
<1>3. Reads(w.f, h, id)
  <2>1. PICK f : f = w.f
    OBVIOUS
  <2>2. FetchInv(f) /\ f.told[id] = "response" /\ ~Connecting(f, id) /\ ~Reading(f, id)
    BY <1>1, <2>1 DEF Poised
  <2>3. Reads(f, h, id)
    BY ONLY <1>2, <2>1, <2>2, id \in Ids, ReadStep
  <2> QED BY <2>1, <2>3
<1>4. PICK s : s = [w.es EXCEPT !.pump = TRUE]
  OBVIOUS
<1>5. /\ EsType(s) /\ Bound(w.f, s) /\ Resumes(s) /\ s.pump /\ s.conn = id
      /\ s.closed = w.es.closed /\ s.timers = w.es.timers
  BY <1>1, <1>4 DEF Poised, Pair, EsType, EsKeys, Bound, Resumes
<1>6. g.f = h /\ g.es = s
  BY <1>1, <1>2, <1>4 DEF PumpStream, Poised, Pair, EsType, EsKeys
<1>7. Bound(h, s)
  BY <1>3, <1>5 DEF Bound, Reads
<1>8. ~s.closed => Lifeline(h, s)
  <2> SUFFICES ASSUME ~s.closed PROVE Lifeline(h, s)
    OBVIOUS
  <2>1. w.es.timers = 0 /\ Nobody(w.f)
    BY <1>5 DEF Poised
  <2>2. \A d \in Ids : d # id => ~Connecting(h, d) /\ ~Reading(h, d)
    BY <1>3, <2>1 DEF Reads, Nobody, KeepsWaiting
  <2> QED BY <1>3, <1>5, <2>1, <2>2 DEF Reads, Lifeline
<1> QED BY <1>3, <1>5, <1>6, <1>7, <1>8 DEF EsInv, Reads

LEMMA OpenedDoes ==
  ASSUME NEW w, Poised(w), ~w.es.closed, w.f.told[w.es.conn] = "response",
         NEW okay \in BOOLEAN, NEW closes \in BOOLEAN, NEW g, g = Opened(w, okay, closes)
  PROVE  EsInv(g.f, g.es)
<1>1. CASE ~okay
  <2>1. g = FailAndReconnect(w, closes)
    BY <1>1 DEF Opened
  <2> QED BY <2>1, FailDoes
<1>2. CASE okay
  <2>1. PICK s : s = [w.es EXCEPT !.readyState = OPEN]
    OBVIOUS
  <2>2. /\ EsType(s) /\ Bound(w.f, s) /\ Resumes(s) /\ ~s.closed
        /\ s.conn = w.es.conn /\ s.timers = w.es.timers
    BY <2>1 DEF Poised, Pair, EsType, EsKeys, Bound, Resumes
  <2>3. PICK v : v = SetEs(w, s)
    OBVIOUS
  <2>4. Pair(v) /\ v.f = w.f /\ v.es = s
    BY <2>2, <2>3, SetEsIs DEF Poised
  <2>5. [w EXCEPT !.es.readyState = OPEN] = v
    BY <2>1, <2>3 DEF Poised, Pair, SetEs, EsType, EsKeys
  <2>6. Poised(v) /\ v.f.told[v.es.conn] = "response"
    BY <2>2, <2>4 DEF Poised
  <2>7. PICK h : h = CloseIf(v, closes)
    OBVIOUS
  <2>8. Poised(h) /\ h.f.told[h.es.conn] = "response"
    <3>1. /\ Poised(h) /\ h.es.conn = v.es.conn
          /\ h.f.told[v.es.conn] = v.f.told[v.es.conn] \/ v.f.told[v.es.conn] = "nothing"
      BY ONLY <2>6, <2>7, closes \in BOOLEAN, ShutPoised
    <3> QED BY <2>6, <3>1
  <2>9. g = IF h.es.closed THEN h ELSE PumpStream(h)
    BY <1>2, <2>5, <2>7 DEF Opened
  <2>10. CASE h.es.closed
    BY <2>8, <2>9, <2>10 DEF EsInv, Poised, Pair
  <2>11. CASE ~h.es.closed
    <3>1. g = PumpStream(h)
      BY <2>9, <2>11
    <3> QED BY <2>8, <3>1, PumpDoes
  <2> QED BY <2>10, <2>11
<1> QED BY <1>1, <1>2

-------------------------------------------------------------------------------
(* A chunk: the events that it completes, one after the other.                     *)

LEMMA EventDoes ==
  ASSUME NEW w, Poised(w), NEW g, g = ProcessEvent(w)
  PROVE  Poised(g) /\ g.f = w.f /\ g.es.conn = w.es.conn
<1>1. PICK n \in Nat : n = w.es.base + w.es.nth + 1
  BY DEF Poised, Pair, EsType
<1>2. PICK s : s = [w.es EXCEPT !.lastEventId = n, !.nth = @ + 1, !.seen = Append(@, n)]
  OBVIOUS
<1>3. EsType(w.es) /\ Resumes(w.es)
  BY DEF Poised, Pair
<1>4. /\ s.lastEventId = n /\ s.nth = w.es.nth + 1 /\ s.seen = Append(w.es.seen, n)
      /\ s.base = w.es.base /\ s.conn = w.es.conn /\ s.controller = w.es.controller
      /\ s.closed = w.es.closed /\ s.timers = w.es.timers /\ s.pump = w.es.pump
      /\ s.buf = w.es.buf /\ s = [k \in EsKeys |-> s[k]]
  BY <1>2, <1>3 DEF EsType, EsKeys
<1>5. PICK q \in Seq(Nat) : q = w.es.seen
  BY <1>3 DEF EsType
<1>6. Len(q) \in Nat /\ n = Len(q) + 1 /\ Append(q, n) \in Seq(Nat)
      /\ Len(Append(q, n)) = Len(q) + 1
      /\ \A i \in 1 .. Len(q) : Append(q, n)[i] = q[i]
      /\ Append(q, n)[Len(q) + 1] = n
  BY <1>1, <1>3, <1>5, AppendProperties DEF Resumes
<1>7. EsType(s)
  <2>1. s.seen \in Seq(Nat)
    BY <1>4, <1>5, <1>6
  <2>2. s.nth \in Nat /\ s.lastEventId \in Nat
    <3>1. w.es.nth \in Nat
      BY <1>3 DEF EsType
    <3> QED BY <1>4, <3>1
  <2> QED BY <1>3, <1>4, <2>1, <2>2 DEF EsType
<1>8. Resumes(s)
  <2>1. s.lastEventId = Len(s.seen) /\ s.base + s.nth = Len(s.seen)
    <3>1. Len(s.seen) = Len(q) + 1 /\ w.es.base + w.es.nth = Len(q)
      BY <1>3, <1>4, <1>5, <1>6 DEF Resumes
    <3>2. w.es.base \in Nat /\ w.es.nth \in Nat /\ Len(q) \in Nat
      BY <1>3, <1>6 DEF EsType
    <3>4. w.es.base + (w.es.nth + 1) = Len(q) + 1
      <4>1. PICK a \in Nat, b \in Nat, l \in Nat : a = w.es.base /\ b = w.es.nth /\ l = Len(q)
        BY ONLY <3>2
      <4>2. a + b = l
        BY ONLY <3>1, <4>1
      <4>3. a + (b + 1) = l + 1
        BY ONLY <4>2, a \in Nat, b \in Nat, l \in Nat
      <4> QED BY ONLY <4>1, <4>3
    <3>5. s.base = w.es.base /\ s.nth = w.es.nth + 1 /\ s.lastEventId = n /\ n = Len(q) + 1
      BY <1>4, <1>6
    <3> QED BY ONLY <3>1, <3>4, <3>5
  <2>2. \A i \in 1 .. Len(s.seen) : s.seen[i] = i
    <3> SUFFICES ASSUME NEW i \in 1 .. Len(q) + 1 PROVE Append(q, n)[i] = i
      BY <1>4, <1>5, <1>6
    <3>1. CASE i = Len(q) + 1
      BY <1>6, <3>1
    <3>2. CASE i # Len(q) + 1
      <4>1. i \in 1 .. Len(q)
        BY <1>6, <3>2
      <4> QED BY <1>3, <1>5, <1>6, <4>1 DEF Resumes
    <3> QED BY <3>1, <3>2
  <2> QED BY <2>1, <2>2 DEF Resumes
<1>9. g = SetEs(w, s)
  BY <1>1, <1>2 DEF ProcessEvent, SetEs, Poised, Pair, EsType, EsKeys
<1>10. Pair(g) /\ g.f = w.f /\ g.es = s
  BY <1>7, <1>9, SetEsIs DEF Poised
<1> QED BY <1>4, <1>8, <1>10 DEF Poised, Bound

EventAt(w, i, k) == CloseIf(ProcessEvent(w), i = k)
Filled(w, units) == [w EXCEPT !.es.buf = (@ + units) % 2]

LEMMA EventAtDoes ==
  ASSUME NEW w, Poised(w), w.f.told[w.es.conn] = "response", NEW i, NEW k,
         NEW g, g = EventAt(w, i, k)
  PROVE  Poised(g) /\ g.f.told[g.es.conn] = "response"
<1>1. PICK v : v = ProcessEvent(w)
  OBVIOUS
<1>2. Poised(v) /\ v.f.told[v.es.conn] = "response"
  BY <1>1, EventDoes
<1>3. PICK closes \in BOOLEAN : closes <=> i = k
  OBVIOUS
<1>4. g = CloseIf(v, closes)
  BY <1>1, <1>3 DEF EventAt, CloseIf
<1> QED BY <1>2, <1>4, ShutPoised

LEMMA FilledDoes ==
  ASSUME NEW w, Poised(w), NEW units \in Nat, NEW g, g = Filled(w, units)
  PROVE  Poised(g) /\ g.f = w.f /\ g.es.conn = w.es.conn
<1>1. PICK s : s = [w.es EXCEPT !.buf = (@ + units) % 2]
  OBVIOUS
<1>2. EsType(s)
  <2>1. (w.es.buf + units) % 2 \in Nat
    BY DEF Poised, Pair, EsType
  <2> QED BY <1>1, <2>1 DEF Poised, Pair, EsType, EsKeys
<1>3. Bound(w.f, s) /\ Resumes(s) /\ s.conn = w.es.conn /\ s.timers = w.es.timers
      /\ s.closed = w.es.closed
  BY <1>1 DEF Poised, Pair, EsType, EsKeys, Bound, Resumes
<1>4. g = SetEs(w, s)
  BY <1>1 DEF Filled, SetEs, Poised, Pair, EsType, EsKeys
<1>5. Pair(g) /\ g.f = w.f /\ g.es = s
  BY <1>2, <1>4, SetEsIs DEF Poised
<1> QED BY <1>3, <1>5 DEF Poised

\* After every event of the chunk.
Dispatched(h, m, c, k) ==
  /\ h = [i \in 0 .. m |-> h[i]] /\ h[0] = c
  /\ \A i \in 1 .. m : h[i] = EventAt(h[i - 1], i, k)

LEMMA DispatchedExists ==
  ASSUME NEW c, NEW k, NEW n \in Nat
  PROVE  \E h : Dispatched(h, n, c, k)
<1>1. PICK T : T = {m \in 0 .. n : \E h : Dispatched(h, m, c, k)}
  OBVIOUS
<1>2. 0 \in T
  <2>1. PICK h : h = [i \in 0 .. 0 |-> c]
    OBVIOUS
  <2>2. Dispatched(h, 0, c, k)
    BY <2>1 DEF Dispatched
  <2> QED BY <1>1, <2>2
<1>3. ASSUME NEW m \in 0 .. n - 1, m \in T PROVE m + 1 \in T
  <2>1. PICK h : Dispatched(h, m, c, k)
    BY <1>1, <1>3
  <2>2. PICK v : v = EventAt(h[m], m + 1, k)
    OBVIOUS
  <2>3. PICK g : g = [i \in 0 .. m + 1 |-> IF i = m + 1 THEN v ELSE h[i]]
    OBVIOUS
  <2>4. \A i \in 0 .. m : g[i] = h[i]
    BY <2>3
  <2>5. g[m + 1] = v /\ g = [i \in 0 .. m + 1 |-> g[i]] /\ g[0] = c
    BY <2>1, <2>3 DEF Dispatched
  <2>6. \A i \in 1 .. m + 1 : g[i] = EventAt(g[i - 1], i, k)
    <3> SUFFICES ASSUME NEW i \in 1 .. m + 1 PROVE g[i] = EventAt(g[i - 1], i, k)
      OBVIOUS
    <3>1. CASE i = m + 1
      <4>1. g[i - 1] = h[m]
        BY <2>4, <3>1
      <4> QED BY <2>2, <2>5, <3>1, <4>1
    <3>2. CASE i # m + 1
      <4>1. i \in 1 .. m /\ i - 1 \in 0 .. m /\ i \in 0 .. m
        BY <3>2
      <4>2. g[i] = h[i] /\ g[i - 1] = h[i - 1]
        BY <2>4, <4>1
      <4> QED BY <2>1, <4>1, <4>2 DEF Dispatched
    <3> QED BY <3>1, <3>2
  <2>7. Dispatched(g, m + 1, c, k)
    BY <2>5, <2>6 DEF Dispatched
  <2> QED BY <1>1, <2>7
<1>4. 0 .. n \subseteq T
  BY <1>1, <1>2, <1>3, UpTo
<1> QED BY <1>1, <1>4

LEMMA DispatchedPoised ==
  ASSUME NEW c, Poised(c), c.f.told[c.es.conn] = "response", NEW k, NEW n \in Nat,
         NEW h, Dispatched(h, n, c, k)
  PROVE  Poised(h[n]) /\ h[n].f.told[h[n].es.conn] = "response"
<1>1. PICK T : T = {m \in 0 .. n : Poised(h[m]) /\ h[m].f.told[h[m].es.conn] = "response"}
  OBVIOUS
<1>2. 0 \in T
  BY <1>1 DEF Dispatched
<1>3. ASSUME NEW m \in 0 .. n - 1, m \in T PROVE m + 1 \in T
  <2>1. PICK v : v = h[m]
    OBVIOUS
  <2>2. Poised(v) /\ v.f.told[v.es.conn] = "response"
    BY <1>1, <1>3, <2>1
  <2>3. PICK g : g = h[m + 1]
    OBVIOUS
  <2>4. g = EventAt(v, m + 1, k)
    <3>1. m + 1 \in 1 .. n /\ (m + 1) - 1 = m
      OBVIOUS
    <3> QED BY <2>1, <2>3, <3>1 DEF Dispatched
  <2>5. Poised(g) /\ g.f.told[g.es.conn] = "response"
    BY <2>2, <2>4, EventAtDoes
  <2> QED BY <1>1, <2>3, <2>5
<1>4. 0 .. n \subseteq T
  BY <1>1, <1>2, <1>3, UpTo
<1> QED BY <1>1, <1>4

Events(n, c, k) == CHOOSE D : D = [i \in 0 .. n |-> IF i = 0 THEN c ELSE EventAt(D[i - 1], i, k)]

LEMMA DispatchedAll ==
  ASSUME NEW c, NEW k, NEW n \in Nat,
         NEW h, h = Events(n, c, k)
  PROVE  Dispatched(h, n, c, k)
<1>1. PICK g : Dispatched(g, n, c, k)
  BY DispatchedExists
<1>2. g = [i \in 0 .. n |-> IF i = 0 THEN c ELSE EventAt(g[i - 1], i, k)]
  <2>1. ASSUME NEW i \in 0 .. n
        PROVE  g[i] = IF i = 0 THEN c ELSE EventAt(g[i - 1], i, k)
    <3>1. CASE i = 0
      BY <1>1, <3>1 DEF Dispatched
    <3>2. CASE i # 0
      <4>1. i \in 1 .. n
        BY <3>2
      <4> QED BY <1>1, <3>2, <4>1 DEF Dispatched
    <3> QED BY <3>1, <3>2
  <2>2. g = [i \in 0 .. n |-> g[i]]
    BY <1>1 DEF Dispatched
  <2> QED BY <2>1, <2>2
<1>3. h = [i \in 0 .. n |-> IF i = 0 THEN c ELSE EventAt(h[i - 1], i, k)]
  BY <1>2 DEF Events
<1> QED BY <1>3 DEF Dispatched

LEMMA ChunkReadIs ==
  ASSUME NEW w, NEW units, NEW k, NEW n, n = (w.es.buf + units) \div 2,
         NEW c, c = Filled(w, units),
         NEW h, h = Events(n, c, k)
  PROVE  ChunkRead(w, units, k) = PumpStream(h[n])
<1>1. ChunkRead(w, units, k) =
        PumpStream((CHOOSE D : D = [i \in 0 .. n |-> IF i = 0 THEN Filled(w, units)
                                                     ELSE EventAt(D[i - 1], i, k)])[n])
  BY DEF ChunkRead, EventAt, Filled
<1> QED BY <1>1 DEF Events

LEMMA ChunkDoes ==
  ASSUME NEW w, Poised(w), w.f.told[w.es.conn] = "response", NEW units \in Nat, NEW k,
         NEW g, g = ChunkRead(w, units, k)
  PROVE  EsInv(g.f, g.es)
<1>1. PICK n \in Nat : n = (w.es.buf + units) \div 2
  BY DEF Poised, Pair, EsType
<1>2. PICK c : c = Filled(w, units)
  OBVIOUS
<1>3. Poised(c) /\ c.f.told[c.es.conn] = "response"
  BY <1>2, FilledDoes
<1>4. PICK h : h = Events(n, c, k)
  OBVIOUS
<1>5. Dispatched(h, n, c, k)
  BY <1>4, DispatchedAll
<1>6. PICK v : v = h[n]
  OBVIOUS
<1>7. Poised(v) /\ v.f.told[v.es.conn] = "response"
  BY <1>3, <1>5, <1>6, DispatchedPoised
<1>8. g = PumpStream(v)
  BY <1>1, <1>2, <1>4, <1>6, ChunkReadIs
<1> QED BY <1>7, <1>8, PumpDoes

LEMMA StreamReadDoes ==
  ASSUME NEW w, Poised(w), ~w.es.closed, w.f.told[w.es.conn] = "response",
         NEW ok \in BOOLEAN, NEW units \in Nat, NEW closes \in BOOLEAN, NEW k,
         NEW g, g = StreamRead(w, ok, units, closes, k)
  PROVE  EsInv(g.f, g.es)
<1>1. CASE ~ok \/ units = 0
  <2>1. g = FailAndReconnect(w, closes)
    BY <1>1 DEF StreamRead
  <2> QED BY <2>1, FailDoes
<1>2. CASE ~(~ok \/ units = 0)
  <2>1. g = ChunkRead(w, units, k)
    BY <1>2 DEF StreamRead
  <2> QED BY <2>1, ChunkDoes
<1> QED BY <1>1, <1>2

\* A source that is closed only drops what it gets.
LEMMA ClosedDoes ==
  ASSUME NEW w, Pair(w), EsInv(w.f, w.es), w.es.closed,
         NEW g, g = w \/ g = [w EXCEPT !.es.pump = FALSE]
  PROVE  EsInv(g.f, g.es)
<1>1. CASE g = w
  BY <1>1
<1>2. CASE g = [w EXCEPT !.es.pump = FALSE]
  <2>1. PICK s : s = [w.es EXCEPT !.pump = FALSE]
    OBVIOUS
  <2>2. EsType(s) /\ Bound(w.f, s) /\ Resumes(s) /\ s.closed
    BY <2>1 DEF EsInv, EsType, EsKeys, Bound, Resumes
  <2>3. g.f = w.f /\ g.es = s
    BY <1>2, <2>1 DEF Pair
  <2> QED BY <2>2, <2>3 DEF EsInv
<1> QED BY <1>1, <1>2

\* A new connection resumes from the last id.
LEMMA ConnectDoes ==
  ASSUME NEW w, Pair(w), FetchInv(w.f), Resumes(w.es), ~w.es.closed, ~w.es.pump,
         w.es.timers = 0, Nobody(w.f), NEW id \in Ids, id = w.f.next, NEW allowed \in BOOLEAN,
         NEW g, g = Connect(w, allowed)
  PROVE  EsInv(g.f, g.es)
<1>1. PICK h : h = IF allowed THEN StartTransfer(w.f) ELSE RejectAtOnce(w.f, "denied")
  OBVIOUS
<1>2. Begins(w.f, h, id)
  <2>1. PICK f : f = w.f
    OBVIOUS
  <2>2. FetchInv(f) /\ id \in Ids /\ id = f.next
    BY <2>1
  <2>3. CASE allowed
    <3>1. h = StartTransfer(f)
      BY <1>1, <2>1, <2>3
    <3> QED BY <2>1, <2>2, <3>1, StartStep
  <2>4. CASE ~allowed
    <3>1. \E outcome \in {"denied", "network", "aborted"} : h = RejectAtOnce(f, outcome)
      BY <1>1, <2>1, <2>4
    <3> QED BY <2>1, <2>2, <3>1, StartStep
  <2> QED BY <2>3, <2>4
<1>3. PICK s : s = [w.es EXCEPT !.readyState = CONNECTING, !.conn = id, !.controller = id,
                                !.base = w.es.lastEventId, !.nth = 0, !.buf = 0]
  OBVIOUS
<1>4. /\ EsType(s) /\ s.conn = id /\ s.controller = id /\ s.base = w.es.lastEventId /\ s.nth = 0
      /\ s.timers = 0 /\ ~s.pump /\ s.seen = w.es.seen /\ s.lastEventId = w.es.lastEventId
  BY <1>3 DEF Pair, EsType, EsKeys
<1>5. g.f = h /\ g.es = s
  BY <1>1, <1>3 DEF Connect
<1>6. Bound(h, s)
  <2>1. id < id + 1
    BY FetchAssumption DEF Ids
  <2> QED BY <1>2, <1>4, <2>1 DEF Bound, Begins
<1>7. Resumes(s)
  <2>1. w.es.lastEventId \in Nat
    BY DEF Pair, EsType
  <2> QED BY <1>4, <2>1 DEF Resumes
<1>8. Lifeline(h, s)
  <2>1. \A d \in Ids : d # id => ~Connecting(h, d) /\ ~Reading(h, d)
    BY <1>2 DEF Begins, KeepsWaiting, Nobody
  <2> QED BY <1>2, <1>4, <2>1 DEF Lifeline, Begins
<1> QED BY <1>2, <1>4, <1>5, <1>6, <1>7, <1>8 DEF EsInv, Begins

LEMMA ReconnectDoes ==
  ASSUME NEW w, Pair(w), EsInv(w.f, w.es), w.es.timers > 0, w.f.next <= MaxRequests,
         NEW allowed \in BOOLEAN, NEW g, g = Reconnect(w, allowed)
  PROVE  EsInv(g.f, g.es)
<1>1. PICK s : s = [w.es EXCEPT !.timers = 0]
  OBVIOUS
<1>2. w.es.timers = 1
  BY DEF Pair, EsType
<1>3. /\ EsType(s) /\ Bound(w.f, s) /\ Resumes(s) /\ s.timers = 0
      /\ s.closed = w.es.closed /\ s.pump = w.es.pump /\ s.conn = w.es.conn
  BY <1>1 DEF EsInv, EsType, EsKeys, Bound, Resumes
<1>4. PICK v : v = SetEs(w, s)
  OBVIOUS
<1>5. Pair(v) /\ v.f = w.f /\ v.es = s
  BY <1>3, <1>4, SetEsIs
<1>6. [w EXCEPT !.es.timers = @ - 1] = v
  BY <1>1, <1>2, <1>4 DEF Pair, SetEs, EsType, EsKeys
<1>7. g = Connect(v, allowed)
  BY <1>6 DEF Reconnect
<1>8. CASE s.closed
  <2>1. g = v
    BY <1>5, <1>7, <1>8 DEF Connect
  <2> QED BY <1>3, <1>5, <1>8, <2>1 DEF EsInv
<1>9. CASE ~s.closed
  <2>1. Nobody(v.f) /\ ~s.pump
    BY <1>2, <1>3, <1>5, <1>9 DEF EsInv, Lifeline, Bound, Nobody
  <2>2. PICK id \in Ids : id = v.f.next
    <3>1. w.f.next \in 1 .. MaxRequests + 1
      BY DEF EsInv, FetchInv, Sound, IsFetch
    <3>2. w.f.next \in Ids
      BY <3>1, FetchAssumption DEF Ids
    <3> QED BY <1>5, <3>2
  <2>3. FetchInv(v.f) /\ Resumes(v.es) /\ ~v.es.closed /\ ~v.es.pump /\ v.es.timers = 0
    BY <1>3, <1>5, <1>9, <2>1 DEF EsInv
  <2> QED BY <1>5, <1>7, <2>1, <2>2, <2>3, ConnectDoes
<1> QED BY <1>8, <1>9

LEMMA EsCloseDoes ==
  ASSUME NEW w, Pair(w), EsInv(w.f, w.es), NEW g, g = Close(w)
  PROVE  EsInv(g.f, g.es)
<1>1. g = CloseIf(w, TRUE)
  BY DEF CloseIf
<1>2. Shuts(w, g, TRUE)
  <2>1. FetchInv(w.f) /\ Bound(w.f, w.es)
    BY DEF EsInv
  <2>2. PICK closes \in BOOLEAN : closes
    OBVIOUS
  <2>3. Shuts(w, g, closes)
    BY <1>1, <2>1, <2>2, CloseIfDoes DEF CloseIf
  <2> QED BY <2>2, <2>3 DEF Shuts
<1>3. Bound(g.f, g.es) /\ Resumes(g.es)
  BY <1>2 DEF EsInv, Bound, Resumes, Shuts, Alike, Goes
<1> QED BY <1>2, <1>3 DEF EsInv, Shuts, Goes, Pair

-------------------------------------------------------------------------------
(* The XMLHttpRequest: what it captured of each send(), and what is left to do.    *)

EventTypes == {"loadstart", "load", "loadend", "error", "abort", "timeout"}

Steps == [do : {"state", "ifbody"}, arg : Nat] \union [do : {"progress"}]
           \union [do : {"guard"}, seq : Nat] \union [do : {"event"}, type : EventTypes, n : Nat]
           \union [do : {"fetch", "respond", "body", "send", "unsend"}, n : Nat]

XKeys == {"state", "send", "hasBody", "controller", "timer", "seq", "response", "timeout", "n",
          "calls", "aborted", "armed", "script", "frame", "flight", "hist"}

XType(z) == /\ z = [k \in XKeys |-> z[k]]
            /\ z.seq \in Nat /\ z.n \in 0 .. MaxSends /\ z.controller \in 0 .. MaxSends
            /\ z.frame \in 0 .. MaxSends
            /\ z.flight \in [1 .. MaxSends -> [id : 0 .. MaxRequests, seq : Nat]]
            /\ z.script \in Seq(Steps)

Flown(z) == {n \in 1 .. MaxSends : z.flight[n].id # 0}

\* A send() that has called fetch() has a request of its own.
Flights(f, z) ==
  /\ \A n \in 1 .. MaxSends : /\ z.flight[n].id < f.next
                              /\ n > z.n => z.flight[n].id = 0
  /\ \A n \in Flown(z) : \A m \in Flown(z) : z.flight[n].id = z.flight[m].id => n = m
  /\ \A id \in Ids : id < f.next => \E n \in Flown(z) : z.flight[n].id = id
  /\ Cardinality(Flown(z)) = f.next - 1
  /\ z.frame # 0 => z.frame \in Flown(z)

Calls(step) == step.do = "fetch"
Takes(step) == step.do \in {"respond", "body"}

\* fetch() is called once for a send(), its body taken once, of a response nobody reads.
StepOk(f, z, step) ==
  /\ Calls(step) => step.n \in 1 .. z.n /\ z.flight[step.n].id = 0
  /\ Takes(step) => /\ step.n \in Flown(z)
                    /\ f.told[z.flight[step.n].id] = "response"
                    /\ ~Connecting(f, z.flight[step.n].id) /\ ~Reading(f, z.flight[step.n].id)

Marks(a, b) == a.n = b.n /\ ((Calls(a) /\ Calls(b)) \/ (Takes(a) /\ Takes(b)))

ScriptOk(f, z, s) == /\ \A p \in 1 .. Len(s) : StepOk(f, z, s[p])
                     /\ \A p \in 1 .. Len(s) : \A o \in 1 .. Len(s) : Marks(s[p], s[o]) => p = o

XhrInv(f, z) == FetchInv(f) /\ XType(z) /\ Flights(f, z) /\ ScriptOk(f, z, z.script)

XPair(w) == w = [k \in {"f", "x"} |-> w[k]]
XInv(w) == XPair(w) /\ XhrInv(w.f, w.x)

SetX(w, z) == [w EXCEPT !.x = z]

LEMMA SetXIs ==
  ASSUME NEW w, XPair(w), NEW z
  PROVE  XPair(SetX(w, z)) /\ SetX(w, z).f = w.f /\ SetX(w, z).x = z
BY DEF XPair, SetX

\* Between scripts only the number of requests matters.
LEMMA XhrUntouched ==
  ASSUME NEW f, NEW z, XhrInv(f, z), z.script = <<>>, NEW g, FetchInv(g), g.next = f.next
  PROVE  XhrInv(g, z)
<1>1. ScriptOk(g, z, z.script)
  BY DEF ScriptOk
<1> QED BY <1>1 DEF XhrInv, Flights

\* Nothing of what the script relies on is changed.
Kept(y, z) == z.n = y.n /\ z.flight = y.flight /\ z.script = y.script /\ z.frame \in {0, y.frame}

LEMMA KeptDoes ==
  ASSUME NEW w, XInv(w), NEW z, XType(z), Kept(w.x, z), NEW g, g = SetX(w, z)
  PROVE  XInv(g) /\ g.f = w.f /\ g.x = z
<1>1. XPair(g) /\ g.f = w.f /\ g.x = z
  BY SetXIs DEF XInv
<1>2. Flown(z) = Flown(w.x)
  BY DEF Flown, Kept
<1>3. Flights(w.f, z)
  BY <1>2 DEF XInv, XhrInv, Flights, Kept
<1>4. \A step : StepOk(w.f, w.x, step) => StepOk(w.f, z, step)
  BY <1>2 DEF StepOk, Kept
<1>5. ScriptOk(w.f, z, z.script)
  BY <1>4 DEF XInv, XhrInv, ScriptOk, Kept
<1> QED BY <1>1, <1>3, <1>5 DEF XInv, XhrInv

LEMMA PushDoes ==
  ASSUME NEW w, XInv(w), NEW steps \in Seq(Steps), ScriptOk(w.f, w.x, steps),
         \A p \in 1 .. Len(steps) : \A o \in 1 .. Len(w.x.script) : ~Marks(steps[p], w.x.script[o]),
         NEW g, g = Push(w, steps)
  PROVE  XInv(g) /\ g.f = w.f /\ g.x.n = w.x.n /\ g.x.flight = w.x.flight /\ g.x.frame = w.x.frame
<1>1. PICK s \in Seq(Steps) : s = w.x.script
  BY DEF XInv, XhrInv, XType
<1>2. PICK t : t = steps \o s
  OBVIOUS
<1>3. /\ t \in Seq(Steps) /\ Len(s) \in Nat /\ Len(steps) \in Nat /\ Len(t) = Len(steps) + Len(s)
      /\ \A p \in 1 .. Len(t) : t[p] = IF p <= Len(steps) THEN steps[p] ELSE s[p - Len(steps)]
  BY <1>2, ConcatProperties
<1>4. ASSUME NEW p \in 1 .. Len(t)
      PROVE  \/ p \in 1 .. Len(steps) /\ t[p] = steps[p]
             \/ p - Len(steps) \in 1 .. Len(s) /\ t[p] = s[p - Len(steps)]
  BY <1>3
<1>5. PICK z : z = [w.x EXCEPT !.script = t]
  OBVIOUS
<1>6. /\ XType(z) /\ z.script = t /\ z.n = w.x.n /\ z.flight = w.x.flight /\ z.frame = w.x.frame
  BY <1>3, <1>5 DEF XInv, XhrInv, XType, XKeys
<1>7. Flown(z) = Flown(w.x)
  BY <1>6 DEF Flown
<1>8. Flights(w.f, z)
  BY <1>6, <1>7 DEF XInv, XhrInv, Flights
<1>9. \A step : StepOk(w.f, w.x, step) => StepOk(w.f, z, step)
  BY <1>6, <1>7 DEF StepOk
<1>10. ScriptOk(w.f, w.x, s)
  BY <1>1 DEF XInv, XhrInv
<1>11. \A p \in 1 .. Len(t) : StepOk(w.f, z, t[p])
  BY <1>4, <1>9, <1>10 DEF ScriptOk
<1>12. ASSUME NEW p \in 1 .. Len(t), NEW o \in 1 .. Len(t), Marks(t[p], t[o]) PROVE p = o
  <2>1. Marks(t[o], t[p])
    BY <1>12 DEF Marks, Calls, Takes
  <2>2. CASE p <= Len(steps) /\ o <= Len(steps)
    <3>1. p \in 1 .. Len(steps) /\ o \in 1 .. Len(steps) /\ t[p] = steps[p] /\ t[o] = steps[o]
      BY <1>3, <2>2
    <3> QED BY <1>12, <3>1 DEF ScriptOk
  <2>3. CASE ~(p <= Len(steps)) /\ ~(o <= Len(steps))
    <3>1. /\ p - Len(steps) \in 1 .. Len(s) /\ o - Len(steps) \in 1 .. Len(s)
          /\ t[p] = s[p - Len(steps)] /\ t[o] = s[o - Len(steps)]
      BY <1>3, <2>3
    <3>2. p - Len(steps) = o - Len(steps)
      BY <1>10, <1>12, <3>1 DEF ScriptOk
    <3> QED BY <1>3, <3>2
  <2>4. CASE p <= Len(steps) /\ ~(o <= Len(steps))
    <3>1. p \in 1 .. Len(steps) /\ o - Len(steps) \in 1 .. Len(s)
          /\ t[p] = steps[p] /\ t[o] = s[o - Len(steps)]
      BY <1>3, <2>4
    <3> QED BY <1>1, <1>12, <3>1
  <2>5. CASE ~(p <= Len(steps)) /\ o <= Len(steps)
    <3>1. o \in 1 .. Len(steps) /\ p - Len(steps) \in 1 .. Len(s)
          /\ t[o] = steps[o] /\ t[p] = s[p - Len(steps)]
      BY <1>3, <2>5
    <3> QED BY <1>1, <2>1, <3>1
  <2> QED BY <2>2, <2>3, <2>4, <2>5
<1>13. ScriptOk(w.f, z, z.script)
  BY <1>6, <1>11, <1>12 DEF ScriptOk
<1>14. g = SetX(w, z)
  BY <1>1, <1>2, <1>5 DEF Push, SetX, XInv, XPair
<1>15. XPair(g) /\ g.f = w.f /\ g.x = z
  BY <1>14, SetXIs DEF XInv
<1> QED BY <1>6, <1>8, <1>13, <1>15 DEF XInv, XhrInv

\* Steps that neither call fetch() nor take a response.
Plain(s) == s \in Seq(Steps) /\ \A p \in 1 .. Len(s) : ~Calls(s[p]) /\ ~Takes(s[p])

LEMMA PlainDoes ==
  ASSUME NEW w, XInv(w), NEW steps, Plain(steps), NEW g, g = Push(w, steps)
  PROVE  XInv(g) /\ g.f = w.f /\ g.x.n = w.x.n /\ g.x.flight = w.x.flight /\ g.x.frame = w.x.frame
<1>1. ScriptOk(w.f, w.x, steps)
  BY DEF Plain, ScriptOk, StepOk, Marks
<1>2. \A p \in 1 .. Len(steps) : \A o \in 1 .. Len(w.x.script) : ~Marks(steps[p], w.x.script[o])
  BY DEF Plain, Marks
<1>3. steps \in Seq(Steps)
  BY DEF Plain
<1> QED BY <1>1, <1>2, <1>3, PushDoes

Easy(step) == step \in Steps /\ ~Calls(step) /\ ~Takes(step)

LEMMA EasySteps ==
  ASSUME NEW a \in Nat, NEW type \in EventTypes
  PROVE  /\ Easy(ToState(a)) /\ Easy(Event(type, a)) /\ Easy(Progress) /\ Easy(IfBody(a))
         /\ Easy(Guard(a)) /\ Easy(Call("send", a)) /\ Easy(Call("unsend", a))
BY DEF Easy, Steps, Calls, Takes, ToState, Event, Progress, IfBody, Guard, Call

LEMMA EasyIsPlain ==
  ASSUME NEW a, Easy(a), NEW b, Easy(b), NEW c, Easy(c), NEW d, Easy(d)
  PROVE  Plain(<<a>>) /\ Plain(<<a, b>>) /\ Plain(<<a, b, c>>) /\ Plain(<<a, b, c, d>>)
BY DEF Easy, Plain

-------------------------------------------------------------------------------
(* The events of the XMLHttpRequest: what each send() has had, and what is left.   *)

Rank(type) == IF type = "loadstart" THEN 1 ELSE IF type = "loadend" THEN 3 ELSE 2

EventOf(step, n) == step.do = "event" /\ step.n = n
Silent(s, n) == \A p \in 1 .. Len(s) : ~EventOf(s[p], n)

\* The events of n in s go on after the first k: in order, and none left out.
InTurn(s, n, k) == \A p \in 1 .. Len(s) :
  EventOf(s[p], n) => /\ Rank(s[p].type) > k
                      /\ \/ Rank(s[p].type) = k + 1
                         \/ \E q \in 1 .. Len(s) : /\ q < p /\ EventOf(s[q], n)
                                                   /\ Rank(s[q].type) = Rank(s[p].type) - 1
Rising(s, n) == \A p \in 1 .. Len(s) : \A q \in 1 .. Len(s) :
  EventOf(s[p], n) /\ EventOf(s[q], n) /\ p < q => Rank(s[p].type) < Rank(s[q].type)

IsLoad(step, n) == EventOf(step, n) /\ step.type = "load"
Loads(z, n) == \/ \E i \in 1 .. Len(z.hist[n]) : z.hist[n][i] = "load"
               \/ \E p \in 1 .. Len(z.script) : IsLoad(z.script[p], n)
MayLoad(f, z, n) == /\ n \notin z.aborted /\ z.controller # n /\ z.flight[n].id # 0
                    /\ f.end[z.flight[n].id] \notin {"running", "denied"}

\* What a send() has had and what the script holds of it.
TaleAt(f, z, n) == /\ \A i \in 1 .. Len(z.hist[n]) : Rank(z.hist[n][i]) = i
                   /\ n > z.n => z.hist[n] = <<>>
                   /\ InTurn(z.script, n, Len(z.hist[n])) /\ Rising(z.script, n)
                   /\ Loads(z, n) => MayLoad(f, z, n)

\* The seq of the object is that of one send() at most, which is in flight; of what
\* was aborted it is past.
Dated(z) == /\ \A m \in 1 .. z.n : z.flight[m].seq <= z.seq
                                   /\ (z.flight[m].seq = z.seq => m = z.n /\ z.send)
            /\ \A c \in z.aborted : c \in 1 .. z.n /\ z.flight[c].seq < z.seq
            /\ z.controller \in 0 .. z.n
            /\ \A q \in z.armed : \E m \in 1 .. z.n : z.flight[m].seq = q

Tale(f, z) == /\ z.send \in BOOLEAN /\ z.hist \in [1 .. MaxSends -> Seq(EventTypes)]
              /\ \A n \in 1 .. MaxSends : TaleAt(f, z, n)
              /\ \A p \in 1 .. Len(z.script) :
                   z.script[p].do = "event" => z.script[p].n \in 1 .. z.n
              /\ Dated(z)

\* The send() in flight has had loadstart and nothing more; or that is the next step.
Begun(z) == z.send => z.n # 0 /\ Len(z.hist[z.n]) = 1 /\ Silent(z.script, z.n)
Fresh(z) == /\ z.n # 0 /\ z.hist[z.n] = <<>> /\ 1 \in 1 .. Len(z.script)
            /\ EventOf(z.script[1], z.n) /\ z.script[1].type = "loadstart"
            /\ \A p \in 1 .. Len(z.script) : p # 1 => ~EventOf(z.script[p], z.n)

Heard(w) == Tale(w.f, w.x) /\ Begun(w.x)
Known(w) == Tale(w.f, w.x) /\ (Begun(w.x) \/ Fresh(w.x))
Follows(w, g) == Heard(w) => Heard(g)

LEMMA RankIs == \A type : Rank(type) \in 1 .. 3
BY DEF Rank

LEMMA EmptyTells ==
  ASSUME NEW n, NEW k
  PROVE  Silent(<<>>, n) /\ InTurn(<<>>, n, k) /\ Rising(<<>>, n)
BY DEF Silent, InTurn, Rising

\* Steps are put in front of a script.
LEMMA JoinedAt ==
  ASSUME NEW steps \in Seq(Steps), NEW s \in Seq(Steps), NEW t, t = steps \o s
  PROVE  /\ t \in Seq(Steps) /\ Len(s) \in Nat /\ Len(steps) \in Nat /\ Len(t) = Len(steps) + Len(s)
         /\ \A p \in 1 .. Len(t) : \/ p \in 1 .. Len(steps) /\ t[p] = steps[p]
                                   \/ p - Len(steps) \in 1 .. Len(s) /\ t[p] = s[p - Len(steps)]
         /\ \A p \in 1 .. Len(steps) : p \in 1 .. Len(t) /\ t[p] = steps[p]
         /\ \A p \in 1 .. Len(s) : p + Len(steps) \in 1 .. Len(t) /\ t[p + Len(steps)] = s[p]
<1>1. /\ t \in Seq(Steps) /\ Len(s) \in Nat /\ Len(steps) \in Nat /\ Len(t) = Len(steps) + Len(s)
      /\ \A p \in 1 .. Len(t) : t[p] = IF p <= Len(steps) THEN steps[p] ELSE s[p - Len(steps)]
  BY ConcatProperties
<1>2. ASSUME NEW p \in 1 .. Len(t)
      PROVE  \/ p \in 1 .. Len(steps) /\ t[p] = steps[p]
             \/ p - Len(steps) \in 1 .. Len(s) /\ t[p] = s[p - Len(steps)]
  BY <1>1
<1>3. ASSUME NEW p \in 1 .. Len(steps) PROVE p \in 1 .. Len(t) /\ t[p] = steps[p]
  BY <1>1
<1>4. ASSUME NEW p \in 1 .. Len(s) PROVE p + Len(steps) \in 1 .. Len(t) /\ t[p + Len(steps)] = s[p]
  <2>1. p + Len(steps) \in 1 .. Len(t) /\ ~(p + Len(steps) <= Len(steps))
        /\ (p + Len(steps)) - Len(steps) = p
    BY <1>1
  <2> QED BY <1>1, <2>1
<1> QED BY <1>1, <1>2, <1>3, <1>4

LEMMA JoinedTells ==
  ASSUME NEW steps \in Seq(Steps), NEW s \in Seq(Steps), NEW t, t = steps \o s,
         NEW n, NEW k \in Nat
  PROVE  /\ Silent(steps, n) /\ Silent(s, n) => Silent(t, n)
         /\ Silent(steps, n) /\ InTurn(s, n, k) /\ Rising(s, n) => InTurn(t, n, k) /\ Rising(t, n)
         /\ InTurn(steps, n, k) /\ Rising(steps, n) /\ Silent(s, n)
              => InTurn(t, n, k) /\ Rising(t, n)
<1>1. /\ t \in Seq(Steps) /\ Len(s) \in Nat /\ Len(steps) \in Nat /\ Len(t) = Len(steps) + Len(s)
      /\ \A p \in 1 .. Len(t) : \/ p \in 1 .. Len(steps) /\ t[p] = steps[p]
                                \/ p - Len(steps) \in 1 .. Len(s) /\ t[p] = s[p - Len(steps)]
      /\ \A p \in 1 .. Len(steps) : p \in 1 .. Len(t) /\ t[p] = steps[p]
      /\ \A p \in 1 .. Len(s) : p + Len(steps) \in 1 .. Len(t) /\ t[p + Len(steps)] = s[p]
  BY JoinedAt
<1>2. Silent(steps, n) /\ Silent(s, n) => Silent(t, n)
  BY <1>1 DEF Silent
<1>3. ASSUME Silent(steps, n), InTurn(s, n, k), Rising(s, n) PROVE InTurn(t, n, k) /\ Rising(t, n)
  <2>1. \A p \in 1 .. Len(t) : EventOf(t[p], n) =>
           p - Len(steps) \in 1 .. Len(s) /\ t[p] = s[p - Len(steps)]
    BY <1>1, <1>3 DEF Silent
  <2>2. Rising(t, n)
    <3> SUFFICES ASSUME NEW p \in 1 .. Len(t), NEW q \in 1 .. Len(t),
                        EventOf(t[p], n), EventOf(t[q], n), p < q
                 PROVE  Rank(t[p].type) < Rank(t[q].type)
      BY DEF Rising
    <3>1. PICK a \in 1 .. Len(s) : a = p - Len(steps) /\ t[p] = s[a]
      BY <2>1
    <3>2. PICK b \in 1 .. Len(s) : b = q - Len(steps) /\ t[q] = s[b]
      BY <2>1
    <3>3. a < b
      BY <1>1, <3>1, <3>2
    <3> QED BY <1>3, <3>1, <3>2, <3>3 DEF Rising
  <2>3. InTurn(t, n, k)
    <3> SUFFICES ASSUME NEW p \in 1 .. Len(t), EventOf(t[p], n)
                 PROVE  /\ Rank(t[p].type) > k
                        /\ \/ Rank(t[p].type) = k + 1
                           \/ \E q \in 1 .. Len(t) : /\ q < p /\ EventOf(t[q], n)
                                                     /\ Rank(t[q].type) = Rank(t[p].type) - 1
      BY DEF InTurn
    <3>1. PICK a \in 1 .. Len(s) : a = p - Len(steps) /\ t[p] = s[a]
      BY <2>1
    <3>2. Rank(s[a].type) > k
      BY <1>3, <3>1 DEF InTurn
    <3>3. CASE Rank(s[a].type) = k + 1
      BY <3>1, <3>2, <3>3
    <3>4. CASE \E q \in 1 .. Len(s) : /\ q < a /\ EventOf(s[q], n)
                                      /\ Rank(s[q].type) = Rank(s[a].type) - 1
      <4>1. PICK q \in 1 .. Len(s) : /\ q < a /\ EventOf(s[q], n)
                                     /\ Rank(s[q].type) = Rank(s[a].type) - 1
        BY <3>4
      <4>2. PICK b \in 1 .. Len(t) : b = q + Len(steps) /\ t[b] = s[q]
        BY <1>1
      <4>3. b < p
        BY <1>1, <3>1, <4>1, <4>2
      <4> QED BY <3>1, <3>2, <4>1, <4>2, <4>3
    <3> QED BY <1>3, <3>1, <3>3, <3>4 DEF InTurn
  <2> QED BY <2>2, <2>3
<1>4. ASSUME InTurn(steps, n, k), Rising(steps, n), Silent(s, n)
      PROVE  InTurn(t, n, k) /\ Rising(t, n)
  <2>1. \A p \in 1 .. Len(t) : EventOf(t[p], n) => p \in 1 .. Len(steps) /\ t[p] = steps[p]
    BY <1>1, <1>4 DEF Silent
  <2>2. Rising(t, n)
    BY <1>4, <2>1 DEF Rising
  <2>3. InTurn(t, n, k)
    <3> SUFFICES ASSUME NEW p \in 1 .. Len(t), EventOf(t[p], n)
                 PROVE  /\ Rank(t[p].type) > k
                        /\ \/ Rank(t[p].type) = k + 1
                           \/ \E q \in 1 .. Len(t) : /\ q < p /\ EventOf(t[q], n)
                                                     /\ Rank(t[q].type) = Rank(t[p].type) - 1
      BY DEF InTurn
    <3>1. p \in 1 .. Len(steps) /\ t[p] = steps[p]
      BY <2>1
    <3>2. \A q \in 1 .. Len(steps) : q \in 1 .. Len(t) /\ t[q] = steps[q]
      BY <1>1
    <3> QED BY <1>4, <3>1, <3>2 DEF InTurn
  <2> QED BY <2>2, <2>3
<1> QED BY <1>2, <1>3, <1>4

\* The first step of a script is taken.
LEMMA TailTells ==
  ASSUME NEW s \in Seq(Steps), s # <<>>, NEW a, a = Head(s), NEW t, t = Tail(s),
         NEW n, NEW k \in Nat
  PROVE  /\ Silent(s, n) => Silent(t, n)
         /\ Rising(s, n) => Rising(t, n)
         /\ InTurn(s, n, k) /\ ~EventOf(a, n) => InTurn(t, n, k)
         /\ InTurn(s, n, k) /\ EventOf(a, n) => Rank(a.type) = k + 1
         /\ InTurn(s, n, k) /\ Rising(s, n) /\ EventOf(a, n) => InTurn(t, n, k + 1)
<1>1. /\ t \in Seq(Steps) /\ Len(s) \in Nat /\ Len(s) > 0 /\ Len(t) = Len(s) - 1
      /\ \A i \in 1 .. Len(t) : t[i] = s[i + 1]
      /\ a = s[1]
  BY HeadTailProperties, EmptySeq, LenProperties
<1>2. 1 \in 1 .. Len(s) /\ \A i \in 1 .. Len(t) : i + 1 \in 1 .. Len(s) /\ i \in Int
  BY <1>1
<1>3. Silent(s, n) => Silent(t, n)
  BY <1>1, <1>2 DEF Silent
<1>4. ASSUME Rising(s, n) PROVE Rising(t, n)
  <2> SUFFICES ASSUME NEW p \in 1 .. Len(t), NEW q \in 1 .. Len(t),
                      EventOf(t[p], n), EventOf(t[q], n), p < q
               PROVE  Rank(t[p].type) < Rank(t[q].type)
    BY DEF Rising
  <2>1. PICK c \in 1 .. Len(s), d \in 1 .. Len(s) :
          c = p + 1 /\ d = q + 1 /\ t[p] = s[c] /\ t[q] = s[d]
    BY <1>1, <1>2
  <2>2. c < d
    BY <1>2, <2>1
  <2> QED BY <1>4, <2>1, <2>2 DEF Rising
<1>5. ASSUME InTurn(s, n, k), EventOf(a, n) PROVE Rank(a.type) = k + 1
  <2>1. EventOf(s[1], n) /\ ~(\E q \in 1 .. Len(s) : q < 1)
    BY <1>1, <1>5
  <2> QED BY <1>1, <1>2, <1>5, <2>1 DEF InTurn
<1>6. ASSUME InTurn(s, n, k), ~EventOf(a, n) PROVE InTurn(t, n, k)
  <2> SUFFICES ASSUME NEW p \in 1 .. Len(t), EventOf(t[p], n)
               PROVE  /\ Rank(t[p].type) > k
                      /\ \/ Rank(t[p].type) = k + 1
                         \/ \E q \in 1 .. Len(t) : /\ q < p /\ EventOf(t[q], n)
                                                   /\ Rank(t[q].type) = Rank(t[p].type) - 1
    BY DEF InTurn
  <2>1. PICK c \in 1 .. Len(s) : c = p + 1 /\ t[p] = s[c]
    BY <1>1, <1>2
  <2>2. Rank(s[c].type) > k
    BY <1>6, <2>1 DEF InTurn
  <2>3. CASE Rank(s[c].type) = k + 1
    BY <2>1, <2>2, <2>3
  <2>4. CASE \E q \in 1 .. Len(s) : /\ q < c /\ EventOf(s[q], n)
                                    /\ Rank(s[q].type) = Rank(s[c].type) - 1
    <3>1. PICK q \in 1 .. Len(s) : /\ q < c /\ EventOf(s[q], n)
                                   /\ Rank(s[q].type) = Rank(s[c].type) - 1
      BY <2>4
    <3>2. q # 1
      BY <1>1, <1>6, <3>1
    <3>3. PICK b \in 1 .. Len(t) : b = q - 1 /\ b < p
      BY <1>1, <2>1, <3>1, <3>2
    <3>4. t[b] = s[q]
      BY <1>1, <3>3
    <3> QED BY <2>1, <2>2, <3>1, <3>3, <3>4
  <2> QED BY <1>6, <2>1, <2>3, <2>4 DEF InTurn
<1>7. ASSUME InTurn(s, n, k), Rising(s, n), EventOf(a, n) PROVE InTurn(t, n, k + 1)
  <2> SUFFICES ASSUME NEW p \in 1 .. Len(t), EventOf(t[p], n)
               PROVE  /\ Rank(t[p].type) > k + 1
                      /\ \/ Rank(t[p].type) = (k + 1) + 1
                         \/ \E q \in 1 .. Len(t) : /\ q < p /\ EventOf(t[q], n)
                                                   /\ Rank(t[q].type) = Rank(t[p].type) - 1
    BY DEF InTurn
  <2>1. PICK c \in 1 .. Len(s) : c = p + 1 /\ t[p] = s[c]
    BY <1>1, <1>2
  <2>2. Rank(a.type) = k + 1 /\ Rank(a.type) < Rank(s[c].type) /\ Rank(s[c].type) \in Int
    <3>1. 1 < c /\ EventOf(s[1], n) /\ EventOf(s[c], n)
      BY <1>1, <1>2, <1>7, <2>1
    <3>2. Rank(s[1].type) < Rank(s[c].type)
      BY <1>2, <1>7, <2>1, <3>1 DEF Rising
    <3>3. Rank(s[c].type) \in Int
      BY RankIs
    <3> QED BY <1>1, <1>5, <1>7, <3>2, <3>3
  <2>3. Rank(s[c].type) > k + 1
    BY <2>2
  <2>4. CASE Rank(s[c].type) = (k + 1) + 1
    BY <2>1, <2>3, <2>4
  <2>5. CASE Rank(s[c].type) # (k + 1) + 1
    <3>1. PICK q \in 1 .. Len(s) : /\ q < c /\ EventOf(s[q], n)
                                   /\ Rank(s[q].type) = Rank(s[c].type) - 1
      BY <1>7, <2>1, <2>3 DEF InTurn
    <3>2. q # 1
      <4>1. Rank(s[q].type) # k + 1
        BY <2>2, <2>5, <3>1
      <4> QED BY <1>1, <2>2, <4>1
    <3>3. PICK b \in 1 .. Len(t) : b = q - 1 /\ b < p
      BY <1>1, <2>1, <3>1, <3>2
    <3>4. t[b] = s[q]
      BY <1>1, <3>3
    <3> QED BY <2>1, <2>3, <3>1, <3>3, <3>4
  <2> QED BY <2>4, <2>5
<1> QED BY <1>3, <1>4, <1>5, <1>6, <1>7

\* An end that has come stays.
EndsStay(f, h) == \A d \in Ids : f.end[d] # "running" => h.end[d] = f.end[d]

\* What the events depend on is the same.
Aside(y, z) == /\ z.hist = y.hist /\ z.n = y.n /\ z.flight = y.flight /\ z.seq = y.seq
               /\ z.send = y.send /\ z.controller = y.controller /\ z.aborted = y.aborted
               /\ z.armed = y.armed

\* What was in flight is given up.
Later(y, z) == /\ z.hist = y.hist /\ z.n = y.n /\ z.flight = y.flight /\ z.script = y.script
               /\ z.seq = y.seq + 1 /\ z.send \in {y.send, FALSE} /\ z.controller = 0
               /\ z.aborted \subseteq y.aborted \union ({y.controller} \ {0})
               /\ z.armed \subseteq y.armed

LEMMA MayLoadStill ==
  ASSUME NEW f, NEW y, XType(y), NEW n \in 1 .. MaxSends, MayLoad(f, y, n), NEW h, EndsStay(f, h),
         NEW z, z.flight[n].id = y.flight[n].id, n \notin z.aborted, z.controller # n
  PROVE  MayLoad(h, z, n)
<1>1. y.flight[n] \in [id : 0 .. MaxRequests, seq : Nat]
  BY DEF XType
<1>2. y.flight[n].id \in Ids
  BY <1>1, FetchAssumption DEF MayLoad, Ids
<1> QED BY <1>2 DEF MayLoad, EndsStay

LEMMA GoesEnds ==
  ASSUME NEW f, NEW g, Goes(f, g)
  PROVE  EndsStay(f, g)
BY DEF Goes, KeepsWaiting, EndsStay

\* Nothing but the script has changed.
LEMMA ScriptTale ==
  ASSUME NEW f, NEW y, XType(y), Tale(f, y), NEW h, EndsStay(f, h), NEW z, Aside(y, z),
         \A n \in 1 .. MaxSends : InTurn(z.script, n, Len(z.hist[n])) /\ Rising(z.script, n),
         \A n \in 1 .. MaxSends : Loads(z, n) => Loads(y, n) \/ MayLoad(f, y, n),
         \A p \in 1 .. Len(z.script) : z.script[p].do = "event" => z.script[p].n \in 1 .. z.n
  PROVE  Tale(h, z)
<1>1. ASSUME NEW n \in 1 .. MaxSends PROVE TaleAt(h, z, n)
  <2>1. TaleAt(f, y, n)
    BY DEF Tale
  <2>2. Loads(z, n) => MayLoad(f, y, n)
    BY <2>1 DEF TaleAt
  <2>3. MayLoad(f, y, n) => MayLoad(h, z, n)
    <3>1. ASSUME MayLoad(f, y, n) PROVE MayLoad(h, z, n)
      <4>1. z.flight[n].id = y.flight[n].id /\ n \notin z.aborted /\ z.controller # n
        BY <3>1 DEF Aside, MayLoad
      <4> QED BY ONLY XType(y), n \in 1 .. MaxSends, <3>1, EndsStay(f, h), <4>1, MayLoadStill
    <3> QED BY <3>1
  <2>4. /\ \A i \in 1 .. Len(z.hist[n]) : Rank(z.hist[n][i]) = i
        /\ n > z.n => z.hist[n] = <<>>
    BY <2>1 DEF TaleAt, Aside
  <2> QED BY <2>2, <2>3, <2>4 DEF TaleAt
<1>2. Dated(z)
  BY DEF Tale, Dated, Aside
<1>3. z.send \in BOOLEAN /\ z.hist \in [1 .. MaxSends -> Seq(EventTypes)]
  BY DEF Tale, Aside
<1> QED BY <1>1, <1>2, <1>3 DEF Tale

LEMMA AsideTale ==
  ASSUME NEW f, NEW y, XType(y), Tale(f, y), NEW h, EndsStay(f, h), NEW z, Aside(y, z),
         z.script \in {y.script, <<>>}
  PROVE  Tale(h, z) /\ (Begun(y) => Begun(z))
<1>1. CASE z.script = y.script
  <2>1. \A n \in 1 .. MaxSends : InTurn(z.script, n, Len(z.hist[n])) /\ Rising(z.script, n)
    BY <1>1 DEF Tale, TaleAt, Aside
  <2>2. \A n \in 1 .. MaxSends : Loads(z, n) => Loads(y, n)
    BY <1>1 DEF Loads, Aside
  <2>3. \A p \in 1 .. Len(z.script) : z.script[p].do = "event" => z.script[p].n \in 1 .. z.n
    BY <1>1 DEF Tale, Aside
  <2>4. Tale(h, z)
    BY ONLY XType(y), Tale(f, y), EndsStay(f, h), Aside(y, z), <2>1, <2>2, <2>3, ScriptTale
  <2> QED BY <1>1, <2>4 DEF Begun, Aside
<1>2. CASE z.script = <<>>
  <2>1. \A n \in 1 .. MaxSends : InTurn(z.script, n, Len(z.hist[n])) /\ Rising(z.script, n)
    BY <1>2, EmptyTells
  <2>2. \A n \in 1 .. MaxSends : Loads(z, n) => Loads(y, n)
    BY <1>2 DEF Loads, Aside
  <2>3. \A p \in 1 .. Len(z.script) : z.script[p].do = "event" => z.script[p].n \in 1 .. z.n
    BY <1>2
  <2>4. Tale(h, z)
    BY ONLY XType(y), Tale(f, y), EndsStay(f, h), Aside(y, z), <2>1, <2>2, <2>3, ScriptTale
  <2> QED BY <1>2, <2>4, EmptyTells DEF Begun, Aside
<1> QED BY <1>1, <1>2

LEMMA LaterTale ==
  ASSUME NEW f, NEW y, XType(y), Tale(f, y), NEW h, EndsStay(f, h), NEW z, Later(y, z)
  PROVE  Tale(h, z) /\ (Begun(y) => Begun(z))
<1>0. y.seq \in Nat /\ y.n \in 0 .. MaxSends /\ MaxSends \in Nat
  BY XhrAssumption, FetchAssumption DEF XType
<1>1. ASSUME NEW n \in 1 .. MaxSends PROVE TaleAt(h, z, n)
  <2>1. TaleAt(f, y, n)
    BY DEF Tale
  <2>2. Loads(z, n) => MayLoad(f, y, n)
    BY <2>1 DEF TaleAt, Loads, Later
  <2>3. ASSUME MayLoad(f, y, n) PROVE MayLoad(h, z, n)
    <3>1. z.flight[n].id = y.flight[n].id /\ n \notin z.aborted /\ z.controller # n
      BY <2>3 DEF Later, MayLoad
    <3> QED BY ONLY XType(y), n \in 1 .. MaxSends, <2>3, EndsStay(f, h), <3>1, MayLoadStill
  <2>4. /\ \A i \in 1 .. Len(z.hist[n]) : Rank(z.hist[n][i]) = i
        /\ n > z.n => z.hist[n] = <<>>
        /\ InTurn(z.script, n, Len(z.hist[n])) /\ Rising(z.script, n)
    BY <2>1 DEF TaleAt, Later
  <2> QED BY <2>2, <2>3, <2>4 DEF TaleAt
<1>2. Dated(z)
  <2>1. ASSUME NEW m \in 1 .. y.n PROVE y.flight[m].seq < y.seq + 1
    <3>1. y.flight[m].seq <= y.seq /\ m \in 1 .. MaxSends
      BY <1>0 DEF Tale, Dated
    <3>2. y.flight[m] \in [id : 0 .. MaxRequests, seq : Nat]
      BY <3>1 DEF XType
    <3>3. y.flight[m].seq \in Nat
      BY <3>2
    <3> QED BY <1>0, <3>1, <3>3
  <2>2. \A m \in 1 .. z.n : z.flight[m].seq <= z.seq /\ z.flight[m].seq # z.seq
    <3> SUFFICES ASSUME NEW m \in 1 .. y.n
                 PROVE  y.flight[m].seq <= y.seq + 1 /\ y.flight[m].seq # y.seq + 1
      BY DEF Later
    <3>1. m \in 1 .. MaxSends
      BY <1>0
    <3>2. y.flight[m] \in [id : 0 .. MaxRequests, seq : Nat]
      BY <3>1 DEF XType
    <3>3. y.flight[m].seq \in Nat /\ y.flight[m].seq < y.seq + 1
      BY <2>1, <3>2
    <3> QED BY <1>0, <3>3
  <2>3. \A c \in z.aborted : c \in 1 .. z.n /\ z.flight[c].seq < z.seq
    <3> SUFFICES ASSUME NEW c \in z.aborted PROVE c \in 1 .. y.n /\ y.flight[c].seq < y.seq + 1
      BY DEF Later
    <3>1. CASE c \in y.aborted
      <4>1. c \in 1 .. y.n
        BY <3>1 DEF Tale, Dated
      <4> QED BY <2>1, <4>1
    <3>2. CASE c = y.controller /\ c # 0
      <4>1. c \in 1 .. y.n
        BY <1>0, <3>2 DEF Tale, Dated
      <4> QED BY <2>1, <4>1
    <3> QED BY <3>1, <3>2 DEF Later
  <2>4. z.controller \in 0 .. z.n
    BY <1>0 DEF Later
  <2>5. \A q \in z.armed : \E m \in 1 .. z.n : z.flight[m].seq = q
    BY DEF Later, Tale, Dated
  <2> QED BY <2>2, <2>3, <2>4, <2>5 DEF Dated
<1>3. z.send \in BOOLEAN /\ z.hist \in [1 .. MaxSends -> Seq(EventTypes)]
  BY DEF Tale, Later
<1>4. \A p \in 1 .. Len(z.script) : z.script[p].do = "event" => z.script[p].n \in 1 .. z.n
  BY DEF Tale, Later
<1>5. Begun(y) => Begun(z)
  BY DEF Begun, Later
<1> QED BY <1>1, <1>2, <1>3, <1>4, <1>5 DEF Tale

\* Steps are put in front of what the methods on the stack have left.
LEMMA PushTale ==
  ASSUME NEW w, XPair(w), XType(w.x), Tale(w.f, w.x), NEW steps \in Seq(Steps),
         \A p \in 1 .. Len(steps) : steps[p].do = "event" => steps[p].n \in 1 .. w.x.n,
         \A n \in 1 .. MaxSends :
           \/ Silent(steps, n)
           \/ Silent(w.x.script, n) /\ InTurn(steps, n, Len(w.x.hist[n])) /\ Rising(steps, n),
         \A n \in 1 .. MaxSends : \A p \in 1 .. Len(steps) :
           IsLoad(steps[p], n) => MayLoad(w.f, w.x, n),
         NEW g, g = Push(w, steps)
  PROVE  Tale(g.f, g.x) /\ g.f = w.f /\ Aside(w.x, g.x) /\ g.x.script = steps \o w.x.script
<1>1. PICK f, y, s : f = w.f /\ y = w.x /\ s = y.script
  OBVIOUS
<1>2. PICK t : t = steps \o s
  OBVIOUS
<1>3. PICK z : z = [y EXCEPT !.script = t]
  OBVIOUS
<1>4. z.script = t /\ Aside(y, z)
  BY <1>1, <1>3 DEF XType, XKeys, Aside
<1>5. g.f = f /\ g.x = z
  BY <1>1, <1>2, <1>3 DEF Push, XPair
<1>6. XType(y) /\ Tale(f, y) /\ s \in Seq(Steps) /\ steps \in Seq(Steps)
  BY <1>1 DEF XType
<1>7. ASSUME NEW n \in 1 .. MaxSends PROVE InTurn(t, n, Len(z.hist[n])) /\ Rising(t, n)
  <2>1. PICK k \in Nat : k = Len(y.hist[n])
    <3>1. y.hist[n] \in Seq(EventTypes)
      BY <1>6 DEF Tale
    <3> QED BY <3>1
  <2>2. InTurn(s, n, k) /\ Rising(s, n)
    BY <1>1, <1>6, <2>1 DEF Tale, TaleAt
  <2>3. \/ Silent(steps, n)
        \/ Silent(s, n) /\ InTurn(steps, n, k) /\ Rising(steps, n)
    BY <1>1, <2>1
  <2>4. z.hist = y.hist
    BY <1>4 DEF Aside
  <2>5. InTurn(t, n, k) /\ Rising(t, n)
    BY ONLY <1>2, <1>6, <2>2, <2>3, k \in Nat, JoinedTells
  <2> QED BY <2>1, <2>4, <2>5
<1>8. /\ \A p \in 1 .. Len(t) : \/ p \in 1 .. Len(steps) /\ t[p] = steps[p]
                                \/ p - Len(steps) \in 1 .. Len(s) /\ t[p] = s[p - Len(steps)]
  BY <1>2, <1>6, JoinedAt
<1>9. ASSUME NEW n \in 1 .. MaxSends, Loads(z, n) PROVE Loads(y, n) \/ MayLoad(f, y, n)
  <2>1. CASE \E i \in 1 .. Len(z.hist[n]) : z.hist[n][i] = "load"
    BY <1>4, <2>1 DEF Loads, Aside
  <2>2. CASE \E p \in 1 .. Len(t) : IsLoad(t[p], n)
    BY <1>1, <1>8, <2>2 DEF Loads
  <2> QED BY <1>4, <1>9, <2>1, <2>2 DEF Loads
<1>10. \A p \in 1 .. Len(t) : t[p].do = "event" => t[p].n \in 1 .. z.n
  <2>1. \A p \in 1 .. Len(s) : s[p].do = "event" => s[p].n \in 1 .. y.n
    BY <1>1, <1>6 DEF Tale
  <2>2. z.n = y.n
    BY <1>4 DEF Aside
  <2> QED BY <1>1, <1>8, <2>1, <2>2
<1>11. EndsStay(f, f)
  BY DEF EndsStay
<1>12. Tale(f, z)
  <2>1. \A n \in 1 .. MaxSends : InTurn(z.script, n, Len(z.hist[n])) /\ Rising(z.script, n)
    BY <1>4, <1>7
  <2>2. \A n \in 1 .. MaxSends : Loads(z, n) => Loads(y, n) \/ MayLoad(f, y, n)
    BY <1>9
  <2>3. \A p \in 1 .. Len(z.script) : z.script[p].do = "event" => z.script[p].n \in 1 .. z.n
    BY <1>4, <1>10
  <2> QED BY ONLY <1>4, <1>6, <1>11, <2>1, <2>2, <2>3, ScriptTale
<1> QED BY <1>1, <1>2, <1>4, <1>5, <1>12

\* Steps without an event.
Mute(steps) == steps \in Seq(Steps) /\ \A p \in 1 .. Len(steps) : steps[p].do # "event"

LEMMA MutePush ==
  ASSUME NEW w, XPair(w), XType(w.x), NEW steps, Mute(steps), NEW g, g = Push(w, steps)
  PROVE  Follows(w, g)
<1> SUFFICES ASSUME Heard(w) PROVE Heard(g)
  BY DEF Follows
<1>1. \A n : Silent(steps, n)
  BY DEF Mute, Silent, EventOf
<1>2. \A n : \A p \in 1 .. Len(steps) : ~IsLoad(steps[p], n)
  BY DEF Mute, IsLoad, EventOf
<1>3. steps \in Seq(Steps) /\ Tale(w.f, w.x) /\ w.x.script \in Seq(Steps)
  BY DEF Mute, Heard, XType
<1>4. Tale(g.f, g.x) /\ g.f = w.f /\ Aside(w.x, g.x) /\ g.x.script = steps \o w.x.script
  BY <1>1, <1>2, <1>3, PushTale DEF Mute
<1>5. Begun(g.x)
  <2>1. \A n : Silent(w.x.script, n) => Silent(steps \o w.x.script, n)
    <3>1. PICK k \in Nat : k = 0
      OBVIOUS
    <3>2. PICK s, t : s = w.x.script /\ t = steps \o s
      OBVIOUS
    <3>3. steps \in Seq(Steps) /\ s \in Seq(Steps) /\ t = steps \o s
      BY <1>3, <3>2
    <3>4. ASSUME NEW n PROVE Silent(steps, n) /\ Silent(s, n) => Silent(t, n)
      BY ONLY <3>3, k \in Nat, JoinedTells
    <3> QED BY <1>1, <3>2, <3>4
  <2> QED BY <1>4, <2>1 DEF Heard, Begun, Aside
<1> QED BY <1>4, <1>5 DEF Heard

\* Of the send() that was in flight, the outcome and loadend.
LEMMA OutcomePush ==
  ASSUME NEW w, XPair(w), XType(w.x), NEW n \in 1 .. w.x.n, Len(w.x.hist[n]) = 1,
         Silent(w.x.script, n), ~w.x.send, NEW type \in EventTypes, Rank(type) = 2,
         type = "load" => MayLoad(w.f, w.x, n),
         NEW steps \in Seq(Steps), NEW m \in 1 .. Len(steps), m + 1 \in 1 .. Len(steps),
         steps[m] = Event(type, n), steps[m + 1] = Event("loadend", n),
         \A p \in 1 .. Len(steps) : p \in {m, m + 1} \/ steps[p].do # "event",
         NEW g, g = Push(w, steps)
  PROVE  Follows(w, g)
<1> SUFFICES ASSUME Heard(w) PROVE Heard(g)
  BY DEF Follows
<1>1. /\ steps[m].do = "event" /\ steps[m].n = n /\ steps[m].type = type
      /\ steps[m + 1].do = "event" /\ steps[m + 1].n = n /\ steps[m + 1].type = "loadend"
  BY DEF Event
<1>2. \A d : d # n => Silent(steps, d)
  BY <1>1 DEF Silent, EventOf
<1>3. \A p \in 1 .. Len(steps) : EventOf(steps[p], n) => p = m \/ p = m + 1
  BY DEF EventOf
<1>4. Rank(steps[m].type) = 2 /\ Rank(steps[m + 1].type) = 3 /\ m \in Int
  BY <1>1 DEF Rank
<1>5. Rising(steps, n)
  BY <1>3, <1>4 DEF Rising
<1>6. InTurn(steps, n, 1)
  <2> SUFFICES ASSUME NEW p \in 1 .. Len(steps), EventOf(steps[p], n)
               PROVE  /\ Rank(steps[p].type) > 1
                      /\ \/ Rank(steps[p].type) = 1 + 1
                         \/ \E q \in 1 .. Len(steps) : /\ q < p /\ EventOf(steps[q], n)
                                                       /\ Rank(steps[q].type) = Rank(steps[p].type) - 1
    BY DEF InTurn
  <2>1. CASE p = m
    BY <1>4, <2>1
  <2>2. CASE p = m + 1
    <3>1. m < p /\ EventOf(steps[m], n) /\ Rank(steps[m].type) = Rank(steps[p].type) - 1
      BY <1>1, <1>4, <2>2 DEF EventOf
    <3> QED BY <1>4, <2>2, <3>1
  <2> QED BY <1>3, <2>1, <2>2
<1>7. \A p \in 1 .. Len(steps) : steps[p].do = "event" => steps[p].n \in 1 .. w.x.n
  BY <1>1
<1>8. \A d \in 1 .. MaxSends :
           \/ Silent(steps, d)
           \/ Silent(w.x.script, d) /\ InTurn(steps, d, Len(w.x.hist[d])) /\ Rising(steps, d)
  BY <1>2, <1>5, <1>6
<1>9. \A d \in 1 .. MaxSends : \A p \in 1 .. Len(steps) :
        IsLoad(steps[p], d) => MayLoad(w.f, w.x, d)
  <2>1. \A d, p : p \in 1 .. Len(steps) /\ IsLoad(steps[p], d) => d = n /\ type = "load"
    BY <1>1, <1>3 DEF IsLoad, EventOf
  <2> QED BY <2>1
<1>10. Tale(w.f, w.x)
  BY DEF Heard
<1>11. Tale(g.f, g.x) /\ Aside(w.x, g.x)
  BY <1>7, <1>8, <1>9, <1>10, PushTale
<1>12. Begun(g.x)
  BY <1>11 DEF Begun, Aside
<1> QED BY <1>11, <1>12 DEF Heard

-------------------------------------------------------------------------------
(* The methods of the XMLHttpRequest.                                              *)

\* A method is on its way: requests may be cut off, none is made.
Stays(w, g) == /\ XInv(g) /\ Goes(w.f, g.f) /\ g.x.n = w.x.n /\ g.x.flight = w.x.flight
               /\ g.x.frame = w.x.frame

LEMMA GoesTwice ==
  ASSUME NEW f, NEW g, NEW h, Goes(f, g), Goes(g, h)
  PROVE  Goes(f, h)
BY DEF Goes, KeepsWaiting

LEMMA StaysTwice ==
  ASSUME NEW v, NEW w, NEW g, Stays(v, w), Stays(w, g)
  PROVE  Stays(v, g)
BY GoesTwice DEF Stays

LEMMA StaysItself ==
  ASSUME NEW w, XInv(w)
  PROVE  Goes(w.f, w.f) /\ Stays(w, w)
BY DEF Stays, Goes, KeepsWaiting, XInv, XhrInv

LEMMA PlainStays ==
  ASSUME NEW w, XInv(w), NEW steps, Plain(steps), NEW g, g = Push(w, steps)
  PROVE  Stays(w, g)
<1>1. XInv(g) /\ g.f = w.f /\ g.x.n = w.x.n /\ g.x.flight = w.x.flight /\ g.x.frame = w.x.frame
  BY PlainDoes
<1> QED BY <1>1, StaysItself DEF Stays

LEMMA AbortGoes ==
  ASSUME NEW f, FetchInv(f), NEW id \in 0 .. MaxRequests, NEW g, g = AbortRequest(f, id, FALSE)
  PROVE  Goes(f, g)
<1>1. CASE id = 0
  <2>1. ~Live(f, id)
    <3>1. DOMAIN f.req \subseteq Ids
      BY DEF FetchInv, Sound, IsFetch, IsTable
    <3>2. 0 \notin Ids
      BY FetchAssumption DEF Ids
    <3> QED BY <1>1, <3>1, <3>2 DEF Live
  <2>2. g = f
    BY <2>1 DEF AbortRequest
  <2> QED BY <2>2 DEF Goes, KeepsWaiting
<1>2. CASE id # 0
  <2>1. id \in Ids
    BY <1>2, FetchAssumption DEF Ids
  <2>2. FALSE \in BOOLEAN
    OBVIOUS
  <2> QED BY <2>1, <2>2, AbortStep
<1> QED BY <1>1, <1>2

LEMMA FlownIds ==
  ASSUME NEW z, XType(z), NEW n \in Flown(z)
  PROVE  n \in 1 .. MaxSends /\ z.flight[n] \in [id : 0 .. MaxRequests, seq : Nat]
         /\ z.flight[n].id \in Ids
<1>1. n \in 1 .. MaxSends /\ z.flight[n].id # 0
  BY DEF Flown
<1>2. z.flight[n] \in [id : 0 .. MaxRequests, seq : Nat]
  BY <1>1 DEF XType
<1> QED BY <1>1, <1>2, FetchAssumption DEF Ids

\* A step of fetch() within a script.
LEMMA GoesDoes ==
  ASSUME NEW w, XInv(w), NEW h, Goes(w.f, h), NEW g, g = [w EXCEPT !.f = h]
  PROVE  Stays(w, g)
<1>1. g.f = h /\ g.x = w.x /\ XPair(g)
  BY DEF XInv, XPair
<1>2. PICK f : f = w.f
  OBVIOUS
<1>3. PICK z : z = w.x
  OBVIOUS
<1>4. /\ FetchInv(h) /\ h.next = f.next
      /\ \A d \in Ids : /\ Connecting(h, d) <=> Connecting(f, d)
                        /\ Reading(h, d) <=> Reading(f, d)
                        /\ f.told[d] # "nothing" => h.told[d] = f.told[d]
  BY <1>2 DEF Goes, KeepsWaiting
<1>5. XType(z) /\ Flights(f, z) /\ ScriptOk(f, z, z.script)
  BY <1>2, <1>3 DEF XInv, XhrInv
<1>6. Flights(h, z)
  BY <1>4, <1>5 DEF Flights
<1>7. ASSUME NEW step, StepOk(f, z, step) PROVE StepOk(h, z, step)
  <2>1. Takes(step) => z.flight[step.n].id \in Ids
    <3>1. Takes(step) => step.n \in Flown(z)
      BY <1>7 DEF StepOk
    <3>2. \A n \in Flown(z) : z.flight[n].id \in Ids
      BY <1>5, FlownIds
    <3> QED BY <3>1, <3>2
  <2> QED BY <1>4, <1>7, <2>1 DEF StepOk
<1>8. ScriptOk(h, z, z.script)
  BY <1>5, <1>7 DEF ScriptOk
<1> QED BY <1>1, <1>2, <1>3, <1>4, <1>5, <1>6, <1>8 DEF Stays, XInv, XhrInv

LEMMA KeptStays ==
  ASSUME NEW w, XInv(w), NEW z, XType(z), Kept(w.x, z), z.frame = w.x.frame,
         NEW g, g = SetX(w, z)
  PROVE  Stays(w, g)
<1>1. XInv(g) /\ g.f = w.f /\ g.x = z
  BY KeptDoes
<1> QED BY <1>1, StaysItself DEF Stays, Kept

LEMMA TerminateDoes ==
  ASSUME NEW w, XInv(w), NEW g, g = Terminate(w)
  PROVE  Stays(w, g) /\ Later(w.x, g.x) /\ g.x.send = w.x.send
<1>1. XPair(w) /\ XType(w.x)
  BY DEF XInv, XhrInv
<1>2. PICK z : z = [w.x EXCEPT !.seq = @ + 1]
  OBVIOUS
<1>3. /\ z = [k \in XKeys |-> z[k]] /\ z.seq = w.x.seq + 1 /\ z.n = w.x.n /\ z.flight = w.x.flight
      /\ z.script = w.x.script /\ z.frame = w.x.frame /\ z.controller = w.x.controller
      /\ XType(z)
  <2>1. /\ z = [k \in XKeys |-> z[k]] /\ z.seq = w.x.seq + 1 /\ z.n = w.x.n /\ z.flight = w.x.flight
        /\ z.script = w.x.script /\ z.frame = w.x.frame /\ z.controller = w.x.controller
    BY <1>1, <1>2 DEF XType, XKeys
  <2>2. z.seq \in Nat
    BY <1>1, <2>1 DEF XType
  <2> QED BY <1>1, <2>1, <2>2 DEF XType
<1>4. PICK v : v = SetX(w, z)
  OBVIOUS
<1>5. XPair(v) /\ v.f = w.f /\ v.x = z
  BY <1>1, <1>4, SetXIs
<1>6. [w EXCEPT !.x.seq = @ + 1] = v
  BY <1>1, <1>2, <1>4 DEF SetX, XPair, XType, XKeys
<1>7. PICK y : y = [z EXCEPT !.armed = @ \ {z.timer}, !.timer = 0]
  OBVIOUS
<1>8. /\ XType(y) /\ y.n = z.n /\ y.flight = z.flight /\ y.script = z.script /\ y.frame = z.frame
      /\ y.controller = z.controller
  BY <1>3, <1>7 DEF XType, XKeys
<1>9. PICK u : u = SetX(v, y)
  OBVIOUS
<1>10. XPair(u) /\ u.f = w.f /\ u.x = y
  BY <1>5, <1>9, SetXIs
<1>11. ClearTimer(v) = u
  BY <1>3, <1>5, <1>7, <1>9 DEF ClearTimer, SetX, XPair, XKeys
<1>12. PICK c : c = y.controller
  OBVIOUS
<1>13. PICK a : a = [y EXCEPT !.controller = 0]
  OBVIOUS
<1>20. /\ a.hist = w.x.hist /\ a.send = w.x.send /\ a.aborted = w.x.aborted
       /\ a.armed \subseteq w.x.armed /\ a.seq = w.x.seq + 1 /\ a.controller = 0
       /\ c = w.x.controller
  <2>1. /\ z.hist = w.x.hist /\ z.send = w.x.send /\ z.aborted = w.x.aborted
        /\ z.armed = w.x.armed
    BY <1>1, <1>2 DEF XType, XKeys
  <2>2. /\ y.hist = z.hist /\ y.send = z.send /\ y.aborted = z.aborted
        /\ y.armed \subseteq z.armed /\ y.seq = z.seq /\ y = [k \in XKeys |-> y[k]]
    BY <1>3, <1>7 DEF XKeys
  <2>3. /\ a.hist = y.hist /\ a.send = y.send /\ a.aborted = y.aborted
        /\ a.armed = y.armed /\ a.seq = y.seq /\ a.controller = 0
    BY <1>13, <2>2 DEF XKeys
  <2> QED BY <1>3, <1>8, <1>12, <2>1, <2>2, <2>3
<1>14. /\ XType(a) /\ a.n = w.x.n /\ a.flight = w.x.flight /\ a.script = w.x.script
       /\ a.frame = w.x.frame
  <2>1. /\ a = [k \in XKeys |-> a[k]] /\ a.seq = y.seq /\ a.n = y.n /\ a.flight = y.flight
        /\ a.script = y.script /\ a.frame = y.frame /\ a.controller = 0
    BY <1>8, <1>13 DEF XType, XKeys
  <2>2. 0 \in 0 .. MaxSends
    BY XhrAssumption
  <2> QED BY <1>3, <1>8, <2>1, <2>2 DEF XType
<1>15. PICK r : r = SetX(u, a)
  OBVIOUS
<1>16. [u EXCEPT !.x.controller = 0] = r
  BY <1>8, <1>10, <1>13, <1>15 DEF SetX, XPair, XType, XKeys
<1>17. XPair(r) /\ r.f = w.f /\ r.x = a /\ r = SetX(w, a)
  <2>1. XPair(r) /\ r.f = w.f /\ r.x = a
    BY <1>10, <1>15, SetXIs
  <2> QED BY <1>1, <2>1 DEF XPair, SetX
<1>18. CASE c = 0
  <2>1. g = r
    BY <1>6, <1>10, <1>11, <1>12, <1>16, <1>18 DEF Terminate, AbortController
  <2>2. Kept(w.x, a)
    BY <1>14 DEF Kept
  <2>3. Later(w.x, a) /\ a.send = w.x.send
    BY <1>14, <1>20 DEF Later
  <2> QED BY <1>14, <1>17, <2>1, <2>2, <2>3, KeptStays
<1>19. CASE c # 0
  <2>1. c \in 1 .. MaxSends
    BY <1>3, <1>8, <1>12, <1>19 DEF XType
  <2>2. PICK id \in 0 .. MaxRequests : id = w.x.flight[c].id
    BY <1>1, <2>1 DEF XType
  <2>3. PICK b : b = [a EXCEPT !.aborted = @ \union {c}]
    OBVIOUS
  <2>4. /\ XType(b) /\ b.n = w.x.n /\ b.flight = w.x.flight /\ b.script = w.x.script
        /\ b.frame = w.x.frame
    BY <1>14, <2>3 DEF XType, XKeys
  <2>5. PICK q : q = SetX(w, b)
    OBVIOUS
  <2>6. Kept(w.x, b)
    BY <2>4 DEF Kept
  <2>7. Stays(w, q) /\ XInv(q) /\ q.f = w.f /\ q.x = b
    BY <2>4, <2>5, <2>6, KeptStays, KeptDoes
  <2>8. PICK h : h = AbortRequest(w.f, id, FALSE)
    OBVIOUS
  <2>9. Goes(w.f, h)
    <3>1. FetchInv(w.f)
      BY DEF XInv, XhrInv
    <3> QED BY <2>8, <3>1, AbortGoes
  <2>10. g = [r EXCEPT !.x.aborted = @ \union {c}, !.f = h]
    <3>1. u.x.flight[c].id = id
      BY <1>3, <1>8, <1>10, <2>2
    <3>2. r.f = w.f
      BY <1>17
    <3> QED BY <1>6, <1>10, <1>11, <1>12, <1>16, <1>19, <2>8, <3>1, <3>2 DEF Terminate,
               AbortController
  <2>11. g = [q EXCEPT !.f = h]
    BY <1>14, <1>17, <2>3, <2>5, <2>7, <2>10 DEF SetX, XPair, XInv, XType, XKeys
  <2>12. Stays(q, g)
    BY <2>7, <2>9, <2>11, GoesDoes
  <2>13. Later(w.x, b) /\ b.send = w.x.send
    <3>1. /\ b.hist = a.hist /\ b.send = a.send /\ b.aborted = a.aborted \union {c}
          /\ b.armed = a.armed /\ b.seq = a.seq /\ b.controller = a.controller
      BY <1>14, <2>3 DEF XType, XKeys
    <3> QED BY <1>19, <1>20, <2>4, <3>1 DEF Later
  <2>14. g.x = b
    BY <2>7, <2>11 DEF XInv, XPair
  <2> QED BY <2>7, <2>12, <2>13, <2>14, StaysTwice
<1> QED BY <1>18, <1>19

LEMMA LaterFollows ==
  ASSUME NEW w, XInv(w), NEW g, Stays(w, g), Later(w.x, g.x)
  PROVE  Follows(w, g)
<1>1. EndsStay(w.f, g.f) /\ XType(w.x)
  BY GoesEnds DEF Stays, XInv, XhrInv
<1>2. Tale(w.f, w.x) => Tale(g.f, g.x) /\ (Begun(w.x) => Begun(g.x))
  BY ONLY <1>1, Later(w.x, g.x), LaterTale
<1> QED BY <1>2 DEF Follows, Heard

\* open() cuts off what the object waits for and makes no request.
LEMMA OpenDoes ==
  ASSUME NEW w, XInv(w), NEW g, g = Open(w)
  PROVE  Stays(w, g) /\ Follows(w, g)
<1>1. PICK v : v = Terminate(w)
  OBVIOUS
<1>2. Stays(w, v) /\ XInv(v) /\ XPair(v) /\ XType(v.x) /\ Later(w.x, v.x)
  BY <1>1, TerminateDoes DEF Stays, XInv, XhrInv
<1>3. PICK z : z = [v.x EXCEPT !.send = FALSE, !.hasBody = FALSE, !.response = 0, !.calls = @ + 1]
  OBVIOUS
<1>4. XType(z) /\ Kept(v.x, z) /\ z.frame = v.x.frame
  BY <1>2, <1>3 DEF XType, XKeys, Kept
<1>5. PICK u : u = SetX(v, z)
  OBVIOUS
<1>6. Stays(v, u) /\ XInv(u) /\ Stays(w, u) /\ u.x = z
  <2>1. Stays(v, u) /\ XInv(u)
    BY <1>2, <1>4, <1>5, KeptStays DEF Stays
  <2> QED BY <1>2, <1>4, <1>5, <2>1, KeptDoes, StaysTwice
<1>10. Follows(w, u)
  <2>1. Later(w.x, z)
    BY <1>2, <1>3 DEF Later, XType, XKeys
  <2> QED BY <1>6, <2>1, LaterFollows
<1>7. [v EXCEPT !.x.send = FALSE, !.x.hasBody = FALSE, !.x.response = 0, !.x.calls = @ + 1] = u
  BY <1>2, <1>3, <1>5 DEF SetX, XPair, XType, XKeys
<1>8. CASE w.x.state = OPENED
  <2>1. g = u
    BY <1>1, <1>7, <1>8 DEF Open
  <2> QED BY <1>6, <1>10, <2>1
<1>9. CASE w.x.state # OPENED
  <2>1. PICK steps : steps = <<ToState(OPENED)>>
    OBVIOUS
  <2>2. Plain(steps)
    <3>1. OPENED \in Nat /\ "abort" \in EventTypes
      BY DEF OPENED, EventTypes
    <3>2. PICK a : a = ToState(OPENED)
      OBVIOUS
    <3>3. Easy(a)
      BY <3>1, <3>2, EasySteps
    <3> QED BY <2>1, <3>2, <3>3, EasyIsPlain
  <2>3. g = Push(u, steps)
    BY <1>1, <1>7, <1>9, <2>1 DEF Open
  <2>4. Stays(u, g)
    BY <1>6, <2>2, <2>3, PlainStays
  <2>5. Follows(u, g)
    <3>1. Mute(steps)
      BY <2>1, <2>2 DEF Mute, Plain, ToState
    <3> QED BY <1>6, <2>3, <3>1, MutePush DEF XInv, XhrInv
  <2> QED BY <1>6, <1>10, <2>4, <2>5, StaysTwice DEF Follows
<1> QED BY <1>8, <1>9

LEMMA RequestErrorDoes ==
  ASSUME NEW w, XInv(w), NEW type \in EventTypes, NEW g, g = RequestError(w, type)
  PROVE  /\ Stays(w, g)
         /\ w.x.send /\ type \in {"error", "abort", "timeout"} => Follows(w, g)
<1>1. PICK v : v = Terminate(w)
  OBVIOUS
<1>2. Stays(w, v) /\ XInv(v) /\ XPair(v) /\ XType(v.x) /\ Later(w.x, v.x)
  BY <1>1, TerminateDoes DEF Stays, XInv, XhrInv
<1>3. PICK z : z = [v.x EXCEPT !.send = FALSE, !.response = 0]
  OBVIOUS
<1>4. XType(z) /\ Kept(v.x, z) /\ z.frame = v.x.frame
  BY <1>2, <1>3 DEF XType, XKeys, Kept
<1>5. PICK u : u = SetX(v, z)
  OBVIOUS
<1>6. Stays(v, u) /\ XInv(u) /\ Stays(w, u) /\ u.x = z
  <2>1. Stays(v, u) /\ XInv(u)
    BY <1>2, <1>4, <1>5, KeptStays DEF Stays
  <2> QED BY <1>2, <1>4, <1>5, <2>1, KeptDoes, StaysTwice
<1>14. Later(w.x, z) /\ ~z.send
  BY <1>2, <1>3 DEF Later, XType, XKeys
<1>15. Follows(w, u)
  BY <1>6, <1>14, LaterFollows
<1>7. [v EXCEPT !.x.send = FALSE, !.x.response = 0] = u
  BY <1>2, <1>3, <1>5 DEF SetX, XPair, XType, XKeys
<1>8. PICK a, b, c, d : /\ a = ToState(DONE) /\ b = IfBody(2) /\ c = Event(type, w.x.n)
                        /\ d = Event("loadend", w.x.n)
  OBVIOUS
<1>9. Easy(a) /\ Easy(b) /\ Easy(c) /\ Easy(d)
  <2>1. DONE \in Nat /\ 2 \in Nat /\ w.x.n \in Nat /\ "loadend" \in EventTypes
    BY DEF EventTypes, DONE, XInv, XhrInv, XType
  <2> QED BY <1>8, <2>1, EasySteps
<1>10. PICK steps : steps = <<a, b, c, d>>
  OBVIOUS
<1>11. Plain(steps)
  BY <1>9, <1>10, EasyIsPlain
<1>12. g = Push(u, steps)
  BY <1>1, <1>7, <1>8, <1>10 DEF RequestError
<1>13. Stays(u, g)
  BY <1>6, <1>11, <1>12, PlainStays
<1>16. ASSUME w.x.send, type \in {"error", "abort", "timeout"}, Heard(w) PROVE Heard(g)
  <2>1. PICK n \in 1 .. u.x.n : n = w.x.n
    <3>1. w.x.n \in 0 .. MaxSends /\ w.x.n # 0 /\ u.x.n = w.x.n
      BY <1>6, <1>14, <1>16 DEF Heard, Begun, XInv, XhrInv, XType, Later
    <3> QED BY <3>1
  <2>2. Len(u.x.hist[n]) = 1 /\ Silent(u.x.script, n) /\ ~u.x.send
    BY <1>6, <1>14, <1>16, <2>1 DEF Heard, Begun, Later
  <2>3. Rank(type) = 2 /\ type # "load"
    BY <1>16 DEF Rank
  <2>4. steps \in Seq(Steps) /\ Len(steps) = 4
    BY <1>9, <1>10 DEF Easy
  <2>5. PICK m \in 1 .. Len(steps) : m = 3
    BY <2>4
  <2>6. /\ m + 1 \in 1 .. Len(steps)
        /\ steps[m] = Event(type, n) /\ steps[m + 1] = Event("loadend", n)
        /\ \A p \in 1 .. Len(steps) : p \in {m, m + 1} \/ steps[p].do # "event"
    <3>1. m + 1 \in 1 .. Len(steps) /\ steps[m] = c /\ steps[m + 1] = d
      BY <1>9, <1>10, <2>4, <2>5
    <3>2. \A p \in 1 .. Len(steps) : p \in {m, m + 1} \/ steps[p] = a \/ steps[p] = b
      BY <1>9, <1>10, <2>4, <2>5
    <3> QED BY <1>8, <2>1, <3>1, <3>2 DEF ToState, IfBody
  <2>7. XPair(u) /\ XType(u.x)
    BY <1>6 DEF XInv, XhrInv
  <2>8. Follows(u, g)
    BY ONLY <1>12, <2>2, <2>3, <2>4, <2>6, <2>7, n \in 1 .. u.x.n, m \in 1 .. Len(steps),
            type \in EventTypes, OutcomePush
  <2> QED BY <1>15, <1>16, <2>8 DEF Follows
<1> QED BY <1>2, <1>6, <1>13, <1>16, StaysTwice DEF Follows

LEMMA AbortMethodDoes ==
  ASSUME NEW w, XInv(w), NEW g, g = Abort(w)
  PROVE  Stays(w, g) /\ Follows(w, g)
<1>1. XPair(w) /\ XType(w.x)
  BY DEF XInv, XhrInv
<1>2. PICK z : z = [w.x EXCEPT !.calls = @ + 1]
  OBVIOUS
<1>3. XType(z) /\ Kept(w.x, z) /\ z.frame = w.x.frame
  BY <1>1, <1>2 DEF XType, XKeys, Kept
<1>4. PICK u : u = SetX(w, z)
  OBVIOUS
<1>5. Stays(w, u) /\ XInv(u)
  BY <1>3, <1>4, KeptStays DEF Stays
<1>6. [w EXCEPT !.x.calls = @ + 1] = u
  BY <1>1, <1>2, <1>4 DEF SetX, XPair, XType, XKeys
<1>17. Heard(w) => Heard(u) /\ u.x.send = w.x.send
  <2>1. XInv(u) /\ u.f = w.f /\ u.x = z
    BY <1>3, <1>4, KeptDoes
  <2>2. Aside(w.x, z) /\ z.script = w.x.script
    BY <1>1, <1>2 DEF XType, XKeys, Aside
  <2>3. EndsStay(w.f, w.f)
    BY DEF EndsStay
  <2>4. Tale(w.f, w.x) => Tale(w.f, z) /\ (Begun(w.x) => Begun(z))
    <3>1. z.script \in {w.x.script, <<>>} /\ Aside(w.x, z) /\ XType(w.x)
      BY <1>1, <2>2
    <3> QED BY ONLY <2>3, <3>1, AsideTale
  <2> QED BY <2>1, <2>2, <2>4 DEF Heard, Aside
<1>7. PICK v : v = Terminate(u)
  OBVIOUS
<1>8. Stays(u, v) /\ XInv(v) /\ Later(u.x, v.x) /\ v.x.send = u.x.send
  BY <1>5, <1>7, TerminateDoes DEF Stays
<1>9. PICK steps : steps = <<Call("unsend", 0)>>
  OBVIOUS
<1>10. Plain(steps)
  <2>1. 0 \in Nat /\ "abort" \in EventTypes
    BY DEF EventTypes
  <2>2. PICK a : a = Call("unsend", 0)
    OBVIOUS
  <2>3. Easy(a)
    BY <2>1, <2>2, EasySteps
  <2> QED BY <1>9, <2>2, <2>3, EasyIsPlain
<1>11. PICK h : h = Push(v, steps)
  OBVIOUS
<1>12. Stays(v, h) /\ XInv(h)
  BY <1>8, <1>10, <1>11, PlainStays DEF Stays
<1>13. Stays(w, h)
  BY <1>5, <1>8, <1>12, StaysTwice
<1>18. Heard(w) => Heard(h) /\ h.x.send = w.x.send
  <2>1. Follows(u, v)
    BY <1>5, <1>8, LaterFollows
  <2>2. Mute(steps)
    BY <1>9, <1>10 DEF Mute, Plain, Call
  <2>3. XPair(v) /\ XType(v.x)
    BY <1>8 DEF XInv, XhrInv
  <2>4. Follows(v, h)
    BY <1>11, <2>2, <2>3, MutePush
  <2>5. h.x.send = v.x.send
    BY <1>11, <2>3 DEF Push, XPair, XType, XKeys
  <2> QED BY <1>8, <1>17, <2>1, <2>4, <2>5 DEF Follows
<1>14. g = h \/ (w.x.send /\ g = RequestError(h, "abort"))
  BY <1>6, <1>7, <1>9, <1>11 DEF Abort
<1>15. CASE g = h
  BY <1>13, <1>15, <1>18 DEF Follows
<1>16. CASE w.x.send /\ g = RequestError(h, "abort")
  <2>1. PICK type \in EventTypes : type = "abort"
    BY DEF EventTypes
  <2>2. g = RequestError(h, type)
    BY <1>16, <2>1
  <2>3. Stays(h, g) /\ (h.x.send => Follows(h, g))
    <3>1. type \in {"error", "abort", "timeout"}
      BY <2>1
    <3> QED BY <1>12, <2>2, <3>1, RequestErrorDoes
  <2>4. Follows(w, g)
    BY <1>16, <1>18, <2>3 DEF Follows
  <2> QED BY <1>13, <2>3, <2>4, StaysTwice
<1> QED BY <1>14, <1>15, <1>16

\* What send() sets, n the number of the new one.
Sent(y, z, n) ==
  /\ n \in 1 .. MaxSends /\ n = y.n + 1
  /\ z.n = n /\ z.seq = y.seq + 1 /\ z.controller = n /\ z.send = TRUE
  /\ z.hist = y.hist /\ z.aborted = y.aborted /\ z.armed = y.armed /\ z.script = y.script
  /\ z.flight[n].seq = y.seq + 1
  /\ \A m \in 1 .. MaxSends : z.flight[m].id = y.flight[m].id
  /\ \A m \in 1 .. MaxSends : m # n => z.flight[m].seq = y.flight[m].seq

\* A send() of its own number has nothing to tell yet.
LEMMA SendTale ==
  ASSUME NEW f, NEW y, XType(y), Tale(f, y), NEW n, NEW z, Sent(y, z, n)
  PROVE  Tale(f, z) /\ z.hist[n] = <<>> /\ Silent(z.script, n)
<1> USE DEF Sent
<1>0. y.seq \in Nat /\ y.n \in 0 .. MaxSends /\ MaxSends \in Nat /\ n > y.n
      /\ \A m \in 1 .. y.n : m \in 1 .. MaxSends /\ m # n /\ m \in 1 .. n
  <2>1. y.seq \in Nat /\ y.n \in 0 .. MaxSends
    BY DEF XType
  <2>2. MaxSends \in Nat
    BY XhrAssumption, FetchAssumption
  <2>3. PICK k \in 0 .. MaxSends : k = y.n
    BY <2>1
  <2>4. n = k + 1
    BY <2>3
  <2> QED BY ONLY <2>1, <2>2, <2>3, <2>4
<1>1. \A p \in 1 .. Len(y.script) : y.script[p].do = "event" => y.script[p].n \in 1 .. y.n
  BY DEF Tale
<1>2. \A m \in 1 .. MaxSends : m > y.n => y.hist[m] = <<>> /\ Silent(y.script, m)
  <2> SUFFICES ASSUME NEW m \in 1 .. MaxSends, m > y.n PROVE y.hist[m] = <<>> /\ Silent(y.script, m)
    OBVIOUS
  <2>1. m \notin 1 .. y.n
    BY <1>0
  <2>2. Silent(y.script, m)
    BY <1>1, <2>1 DEF Silent, EventOf
  <2>3. y.hist[m] = <<>>
    BY DEF Tale, TaleAt
  <2> QED BY <2>2, <2>3
<1>3. ASSUME NEW m \in 1 .. MaxSends PROVE TaleAt(f, z, m)
  <2>1. TaleAt(f, y, m)
    BY DEF Tale
  <2>2. m > n => z.hist[m] = <<>>
    <3>1. m > n => m > y.n
      BY <1>0
    <3> QED BY <1>2, <3>1
  <2>3. ASSUME Loads(y, m) PROVE MayLoad(f, z, m)
    <3>1. ~(m > y.n)
      <4> SUFFICES ASSUME m > y.n PROVE FALSE
        OBVIOUS
      <4>1. y.hist[m] = <<>> /\ Silent(y.script, m)
        BY <1>2
      <4> QED BY <2>3, <4>1 DEF Loads, Silent, IsLoad
    <3>2. m # n
      BY <1>0, <3>1
    <3>3. MayLoad(f, y, m)
      BY <2>1, <2>3 DEF TaleAt
    <3> QED BY <3>2, <3>3 DEF MayLoad
  <2>4. Loads(z, m) => Loads(y, m)
    BY DEF Loads
  <2> QED BY <2>1, <2>2, <2>3, <2>4 DEF TaleAt
<1>4. Dated(z)
  <2>1. ASSUME NEW m \in 1 .. y.n
        PROVE  /\ z.flight[m].seq = y.flight[m].seq /\ y.flight[m].seq \in Nat
               /\ y.flight[m].seq <= y.seq
    <3>1. y.flight[m] \in [id : 0 .. MaxRequests, seq : Nat]
      BY <1>0 DEF XType
    <3> QED BY <1>0, <3>1 DEF Tale, Dated
  <2>2. ASSUME NEW m \in 1 .. n
        PROVE  z.flight[m].seq <= z.seq /\ (z.flight[m].seq = z.seq => m = z.n /\ z.send)
    <3>1. CASE m = n
      BY <1>0, <3>1
    <3>2. CASE m # n
      <4>1. m \in 1 .. y.n
        BY <1>0, <3>2
      <4> QED BY <1>0, <2>1, <4>1
    <3> QED BY <3>1, <3>2
  <2>3. ASSUME NEW c \in y.aborted PROVE c \in 1 .. n /\ z.flight[c].seq < z.seq
    <3>1. c \in 1 .. y.n
      BY DEF Tale, Dated
    <3> QED BY <1>0, <2>1, <3>1
  <2>4. \A q \in z.armed : \E m \in 1 .. z.n : z.flight[m].seq = q
    <3> SUFFICES ASSUME NEW q \in y.armed PROVE \E m \in 1 .. n : z.flight[m].seq = q
      OBVIOUS
    <3>1. PICK m \in 1 .. y.n : y.flight[m].seq = q
      BY DEF Tale, Dated
    <3> QED BY <1>0, <2>1, <3>1
  <2>5. n \in 0 .. n
    BY <1>0
  <2> QED BY <2>2, <2>3, <2>4, <2>5 DEF Dated
<1>5. \A p \in 1 .. Len(z.script) : z.script[p].do = "event" => z.script[p].n \in 1 .. z.n
  BY <1>0, <1>1
<1>6. z.send \in BOOLEAN /\ z.hist \in [1 .. MaxSends -> Seq(EventTypes)]
  BY DEF Tale
<1>7. z.hist[n] = <<>> /\ Silent(z.script, n)
  BY <1>0, <1>2
<1> QED BY <1>3, <1>4, <1>5, <1>6, <1>7 DEF Tale

LEMMA FreshPush ==
  ASSUME NEW w, XPair(w), XType(w.x), Tale(w.f, w.x), NEW n \in 1 .. MaxSends, n = w.x.n,
         w.x.hist[n] = <<>>, Silent(w.x.script, n),
         NEW a \in Steps, a = Event("loadstart", n), NEW b \in Steps, b.do # "event",
         NEW c \in Steps, c.do # "event",
         NEW g, g = Push(w, <<a, b, c>>)
  PROVE  Known(g)
<1>1. PICK steps : steps = <<a, b, c>>
  OBVIOUS
<1>2. steps \in Seq(Steps)
  <2>1. a \in Steps /\ b \in Steps /\ c \in Steps
    OBVIOUS
  <2> QED BY ONLY <1>1, <2>1
<1>12. Len(steps) = 3 /\ steps[1] = a /\ steps[2] = b /\ steps[3] = c
  BY ONLY <1>1
<1>3. a.do = "event" /\ a.n = n /\ a.type = "loadstart"
  BY DEF Event
<1>4. \A p \in 1 .. Len(steps) : p = 1 \/ steps[p].do # "event"
  BY <1>12
<1>5. \A d : d # n => Silent(steps, d)
  BY <1>12, <1>3, <1>4 DEF Silent, EventOf
<1>6. InTurn(steps, n, 0) /\ Rising(steps, n)
  <2>1. Rank(a.type) = 1
    BY <1>3 DEF Rank
  <2>2. \A p \in 1 .. Len(steps) : EventOf(steps[p], n) => p = 1 /\ steps[p] = a
    BY <1>12, <1>4 DEF EventOf
  <2>3. InTurn(steps, n, 0)
    BY <2>1, <2>2 DEF InTurn
  <2>4. Rising(steps, n)
    BY <2>2 DEF Rising
  <2> QED BY <2>3, <2>4
<1>7. n \in 1 .. w.x.n
  BY XhrAssumption, FetchAssumption
<1>8. /\ \A p \in 1 .. Len(steps) : steps[p].do = "event" => steps[p].n \in 1 .. w.x.n
      /\ \A d \in 1 .. MaxSends :
           \/ Silent(steps, d)
           \/ Silent(w.x.script, d) /\ InTurn(steps, d, Len(w.x.hist[d])) /\ Rising(steps, d)
      /\ \A d \in 1 .. MaxSends : \A p \in 1 .. Len(steps) :
           IsLoad(steps[p], d) => MayLoad(w.f, w.x, d)
  <2>1. \A p \in 1 .. Len(steps) : steps[p].do = "event" => steps[p].n \in 1 .. w.x.n
    BY <1>12, <1>3, <1>4, <1>7
  <2>2. Len(w.x.hist[n]) = 0
    OBVIOUS
  <2>3. \A d \in 1 .. MaxSends :
           \/ Silent(steps, d)
           \/ Silent(w.x.script, d) /\ InTurn(steps, d, Len(w.x.hist[d])) /\ Rising(steps, d)
    BY <1>5, <1>6, <2>2
  <2>4. \A d, p : p \in 1 .. Len(steps) => ~IsLoad(steps[p], d)
    BY <1>12, <1>3, <1>4 DEF IsLoad, EventOf
  <2> QED BY <2>1, <2>3, <2>4
<1>9. g = Push(w, steps)
  BY <1>1
<1>10. Tale(g.f, g.x) /\ Aside(w.x, g.x) /\ g.x.script = steps \o w.x.script
  BY ONLY XPair(w), XType(w.x), Tale(w.f, w.x), <1>2, <1>8, <1>9, PushTale
<1>11. Fresh(g.x)
  <2>1. PICK s \in Seq(Steps) : s = w.x.script
    BY DEF XType
  <2>2. PICK t : t = steps \o s
    OBVIOUS
  <2>3. /\ Len(s) \in Nat /\ Len(steps) \in Nat /\ Len(t) = Len(steps) + Len(s)
        /\ \A p \in 1 .. Len(t) : \/ p \in 1 .. Len(steps) /\ t[p] = steps[p]
                                  \/ p - Len(steps) \in 1 .. Len(s) /\ t[p] = s[p - Len(steps)]
        /\ \A p \in 1 .. Len(steps) : p \in 1 .. Len(t) /\ t[p] = steps[p]
    BY <1>2, <2>2, JoinedAt
  <2>4. 1 \in 1 .. Len(t) /\ t[1] = a
    <3>1. 1 \in 1 .. Len(steps)
      BY <1>12
    <3> QED BY <1>12, <2>3, <3>1
  <2>5. \A p \in 1 .. Len(t) : p # 1 => ~EventOf(t[p], n)
    BY <1>4, <2>1, <2>3 DEF Silent, EventOf
  <2>6. g.x.n = n /\ g.x.hist[n] = <<>> /\ n # 0 /\ g.x.script = t
    <3>1. g.x.n = w.x.n /\ g.x.hist = w.x.hist /\ g.x.script = steps \o w.x.script
      BY <1>10 DEF Aside
    <3>2. n # 0
      BY FetchAssumption, XhrAssumption
    <3> QED BY <2>1, <2>2, <3>1, <3>2
  <2> QED BY <1>3, <2>4, <2>5, <2>6 DEF Fresh, EventOf
<1> QED BY <1>10, <1>11 DEF Known

-------------------------------------------------------------------------------
(* send(), and what is left to do of a method.                                     *)

\* A request is not changed by what the object sets beside it.
Beside(y, z) == /\ z.n >= y.n /\ \A m \in 1 .. MaxSends : z.flight[m].id = y.flight[m].id
                /\ z.frame \in {0, y.frame} \union Flown(y) /\ z.script \in {y.script, <<>>}

LEMMA BesideIf ==
  ASSUME NEW y, XType(y), NEW z, z.n = y.n, z.flight = y.flight,
         z.frame \in {0, y.frame} \union Flown(y), z.script \in {y.script, <<>>}
  PROVE  Beside(y, z)
<1>1. y.n \in 0 .. MaxSends /\ MaxSends \in Int
  BY XhrAssumption, FetchAssumption DEF XType
<1>2. z.n >= y.n
  BY <1>1
<1> QED BY <1>2 DEF Beside

LEMMA BesideDoes ==
  ASSUME NEW w, XInv(w), NEW z, XType(z), Beside(w.x, z), NEW g, g = SetX(w, z)
  PROVE  XInv(g) /\ g.f = w.f /\ g.x = z /\ Flown(z) = Flown(w.x)
<1>1. XPair(g) /\ g.f = w.f /\ g.x = z
  BY SetXIs DEF XInv
<1>2. Flown(z) = Flown(w.x) /\ \A n \in Flown(z) : z.flight[n].id = w.x.flight[n].id
  BY DEF Flown, Beside
<1>3. Flights(w.f, z)
  <2>1. \A n \in 1 .. MaxSends : n > z.n => n > w.x.n
    BY XhrAssumption DEF XInv, XhrInv, XType, Beside
  <2> QED BY <1>2, <2>1 DEF XInv, XhrInv, Flights, Beside
<1>4. ASSUME NEW step, StepOk(w.f, w.x, step) PROVE StepOk(w.f, z, step)
  <2>1. \A n \in 1 .. w.x.n : n \in 1 .. z.n /\ n \in 1 .. MaxSends
    BY XhrAssumption DEF XInv, XhrInv, XType, Beside
  <2>2. Calls(step) => step.n \in 1 .. z.n /\ z.flight[step.n].id = 0
    BY <1>4, <2>1 DEF StepOk, Beside
  <2>3. Takes(step) => step.n \in Flown(z) /\ z.flight[step.n].id = w.x.flight[step.n].id
    BY <1>2, <1>4 DEF StepOk
  <2> QED BY <1>4, <2>2, <2>3 DEF StepOk
<1>5. ScriptOk(w.f, z, z.script)
  <2>1. CASE z.script = w.x.script
    BY <1>4, <2>1 DEF XInv, XhrInv, ScriptOk
  <2>2. CASE z.script = <<>>
    BY <2>2 DEF ScriptOk
  <2> QED BY <2>1, <2>2 DEF Beside
<1> QED BY <1>1, <1>2, <1>3, <1>5 DEF XInv, XhrInv

LEMMA SendDoes ==
  ASSUME NEW w, XInv(w), w.x.n < MaxSends, NEW hasBody, NEW g, g = Send(w, hasBody)
  PROVE  XInv(g) /\ (Heard(w) => Known(g))
<1>1. XPair(w) /\ XType(w.x) /\ MaxSends \in Nat
  BY XhrAssumption, FetchAssumption DEF XInv, XhrInv
<1>2. PICK n \in 1 .. MaxSends : n = w.x.n + 1
  <2>1. w.x.n \in 0 .. MaxSends
    BY <1>1 DEF XType
  <2>2. w.x.n + 1 \in 1 .. MaxSends
    BY <1>1, <2>1
  <2> QED BY <2>2
<1>3. PICK seq \in Nat : seq = w.x.seq + 1
  <2>1. w.x.seq \in Nat
    BY <1>1 DEF XType
  <2> QED BY <2>1
<1>4. PICK z : z = [w.x EXCEPT !.n = n, !.seq = @ + 1, !.controller = n, !.send = TRUE,
                               !.hasBody = hasBody, !.calls = @ + 1,
                               !.flight[n].seq = w.x.seq + 1]
  OBVIOUS
<1>5. PICK fl : fl = [w.x.flight EXCEPT ![n].seq = seq]
  OBVIOUS
<1>6. /\ fl \in [1 .. MaxSends -> [id : 0 .. MaxRequests, seq : Nat]]
      /\ \A m \in 1 .. MaxSends : fl[m].id = w.x.flight[m].id
      /\ fl[n].seq = seq /\ \A m \in 1 .. MaxSends : m # n => fl[m].seq = w.x.flight[m].seq
  <2>1. w.x.flight \in [1 .. MaxSends -> [id : 0 .. MaxRequests, seq : Nat]]
    BY <1>1 DEF XType
  <2>2. w.x.flight[n] \in [id : 0 .. MaxRequests, seq : Nat]
    BY <2>1
  <2>3. PICK p : p = [w.x.flight[n] EXCEPT !.seq = seq]
    OBVIOUS
  <2>4. p \in [id : 0 .. MaxRequests, seq : Nat] /\ p.id = w.x.flight[n].id /\ p.seq = seq
    BY <2>2, <2>3
  <2>5. fl = [w.x.flight EXCEPT ![n] = p]
    BY <1>5, <2>3
  <2> QED BY <2>1, <2>4, <2>5
<1>7. /\ z = [k \in XKeys |-> z[k]] /\ z.n = n /\ z.seq = seq /\ z.controller = n /\ z.flight = fl
      /\ z.script = w.x.script /\ z.frame = w.x.frame
  BY <1>1, <1>3, <1>4, <1>5 DEF XType, XKeys
<1>8. XType(z)
  <2>1. n \in 0 .. MaxSends
    BY <1>1
  <2> QED BY <1>1, <1>6, <1>7, <2>1 DEF XType
<1>9. Beside(w.x, z)
  <2>1. n >= w.x.n
    BY <1>1, <1>2 DEF XType
  <2> QED BY <1>6, <1>7, <2>1 DEF Beside
<1>10. PICK u : u = SetX(w, z)
  OBVIOUS
<1>11. XInv(u) /\ u.f = w.f /\ u.x = z /\ Flown(z) = Flown(w.x)
  BY <1>8, <1>9, <1>10, BesideDoes
<1>12. PICK a, b, c : a = Event("loadstart", n) /\ b = IfBody(1) /\ c = Call("fetch", n)
  OBVIOUS
<1>13. Easy(a) /\ Easy(b) /\ c \in Steps /\ Calls(c) /\ ~Takes(c) /\ c.n = n
  <2>1. n \in Nat /\ 1 \in Nat /\ "loadstart" \in EventTypes
    BY <1>1 DEF EventTypes
  <2>2. Easy(a) /\ Easy(b)
    BY <1>12, <2>1, EasySteps
  <2> QED BY <1>12, <2>1, <2>2 DEF Call, Steps, Calls, Takes
<1>14. PICK steps : steps = <<a, b, c>>
  OBVIOUS
<1>15. steps \in Seq(Steps) /\ Len(steps) = 3 /\ steps[1] = a /\ steps[2] = b /\ steps[3] = c
  BY <1>13, <1>14 DEF Easy
<1>16. z.flight[n].id = 0
  <2>1. n > w.x.n
    BY <1>1, <1>2 DEF XType
  <2> QED BY <1>6, <1>7, <2>1 DEF XInv, XhrInv, Flights
<1>17. ScriptOk(u.f, u.x, steps)
  <2>1. n \in 1 .. z.n
    BY <1>1, <1>7
  <2>2. \A p \in 1 .. Len(steps) : p = 3 \/ (~Calls(steps[p]) /\ ~Takes(steps[p]))
    BY <1>13, <1>15 DEF Easy
  <2>3. \A p \in 1 .. Len(steps) : StepOk(u.f, u.x, steps[p])
    BY <1>11, <1>13, <1>15, <1>16, <2>1, <2>2 DEF StepOk
  <2>4. \A p \in 1 .. Len(steps) : \A o \in 1 .. Len(steps) : Marks(steps[p], steps[o]) => p = o
    BY <2>2 DEF Marks
  <2> QED BY <2>3, <2>4 DEF ScriptOk
<1>18. \A p \in 1 .. Len(steps) : \A o \in 1 .. Len(u.x.script) : ~Marks(steps[p], u.x.script[o])
  <2>1. \A o \in 1 .. Len(w.x.script) : Calls(w.x.script[o]) => w.x.script[o].n \in 1 .. w.x.n
    BY DEF XInv, XhrInv, ScriptOk, StepOk
  <2>2. n \notin 1 .. w.x.n
    BY <1>1, <1>2 DEF XType
  <2>3. \A p \in 1 .. Len(steps) : p = 3 \/ (~Calls(steps[p]) /\ ~Takes(steps[p]))
    BY <1>13, <1>15 DEF Easy
  <2>4. \A o \in 1 .. Len(w.x.script) : ~Marks(c, w.x.script[o])
    BY <1>13, <2>1, <2>2 DEF Marks
  <2>5. \A p \in 1 .. Len(steps) : p # 3 => \A step : ~Marks(steps[p], step)
    BY <2>3 DEF Marks
  <2>6. u.x.script = w.x.script
    BY <1>7, <1>11
  <2> QED BY <1>15, <2>4, <2>5, <2>6
<1>19. g = Push(u, steps)
  <2>1. [w EXCEPT !.x.n = n, !.x.seq = @ + 1, !.x.controller = n, !.x.send = TRUE,
                  !.x.hasBody = hasBody, !.x.calls = @ + 1, !.x.flight[n].seq = w.x.seq + 1] = u
    <3>1. w = [k \in {"f", "x"} |-> w[k]] /\ w.x = [k \in XKeys |-> w.x[k]]
      BY <1>1 DEF XPair, XType
    <3>2. PICK y : y = w.x
      OBVIOUS
    <3>3. u = [w EXCEPT !.x = z]
      BY <1>10 DEF SetX
    <3> QED BY ONLY <1>4, <3>1, <3>2, <3>3, ZenonT(60) DEF XKeys
  <2> QED BY <1>2, <1>12, <1>14, <2>1 DEF Send
<1>20. Heard(w) => Known(g)
  <2> SUFFICES ASSUME Heard(w) PROVE Known(g)
    OBVIOUS
  <2>1. /\ z.hist = w.x.hist /\ z.aborted = w.x.aborted /\ z.armed = w.x.armed /\ z.send = TRUE
    BY <1>1, <1>4 DEF XType, XKeys
  <2>2. Tale(w.f, z) /\ z.hist[n] = <<>> /\ Silent(z.script, n)
    <3>1. PICK f, y : f = w.f /\ y = w.x
      OBVIOUS
    <3>2. XType(y) /\ Tale(f, y)
      BY <1>1, <3>1 DEF Heard
    <3>3. Sent(y, z, n)
      BY <1>1, <1>2, <1>3, <1>6, <1>7, <2>1, <3>1 DEF Sent
    <3>4. Tale(f, z) /\ z.hist[n] = <<>> /\ Silent(z.script, n)
      BY ONLY <3>2, <3>3, SendTale
    <3> QED BY <3>1, <3>4
  <2>3. XPair(u) /\ XType(u.x) /\ Tale(u.f, u.x) /\ n = u.x.n /\ u.x.hist[n] = <<>>
        /\ Silent(u.x.script, n)
    BY <1>7, <1>11, <2>2 DEF XInv, XhrInv
  <2>4. /\ a \in Steps /\ b \in Steps /\ c \in Steps /\ a = Event("loadstart", n)
        /\ b.do # "event" /\ c.do # "event" /\ g = Push(u, <<a, b, c>>)
    BY <1>12, <1>13, <1>14, <1>19 DEF Easy, IfBody, Call
  <2> QED BY ONLY <2>3, <2>4, n \in 1 .. MaxSends, FreshPush
<1> QED BY <1>11, <1>15, <1>17, <1>18, <1>19, <1>20, PushDoes

\* What a handler, or the program, calls.
LEMMA CallsDo ==
  ASSUME NEW w, XInv(w), NEW g \in XhrCalls(w)
  PROVE  XInv(g) /\ (Heard(w) => Known(g))
<1>1. \/ g = Open(w) \/ g = Abort(w)
      \/ w.x.n < MaxSends /\ \E b \in BOOLEAN : g = Send(w, b)
      \/ g = Open(Push(w, <<Call("send", 0)>>))
  BY DEF XhrCalls
<1>2. CASE g = Open(w)
  BY <1>2, OpenDoes DEF Stays, Follows, Heard, Known
<1>3. CASE g = Abort(w)
  BY <1>3, AbortMethodDoes DEF Stays, Follows, Heard, Known
<1>4. CASE w.x.n < MaxSends /\ \E b \in BOOLEAN : g = Send(w, b)
  BY <1>4, SendDoes
<1>5. CASE g = Open(Push(w, <<Call("send", 0)>>))
  <2>1. PICK steps : steps = <<Call("send", 0)>>
    OBVIOUS
  <2>2. Plain(steps)
    <3>1. 0 \in Nat /\ "abort" \in EventTypes
      BY DEF EventTypes
    <3>2. PICK a : a = Call("send", 0)
      OBVIOUS
    <3>3. Easy(a)
      BY <3>1, <3>2, EasySteps
    <3> QED BY <2>1, <3>2, <3>3, EasyIsPlain
  <2>3. PICK v : v = Push(w, steps)
    OBVIOUS
  <2>4. XInv(v)
    BY <2>2, <2>3, PlainDoes
  <2>5. g = Open(v)
    BY <1>5, <2>1, <2>3
  <2>6. Follows(w, v)
    <3>1. Mute(steps)
      BY <2>1, <2>2 DEF Mute, Plain, Call
    <3> QED BY <2>3, <3>1, MutePush DEF XInv, XhrInv
  <2>7. Stays(v, g) /\ Follows(v, g)
    BY <2>4, <2>5, OpenDoes
  <2> QED BY <2>6, <2>7 DEF Stays, Follows, Heard, Known
<1> QED BY <1>1, <1>2, <1>3, <1>4, <1>5

LEMMA TailDoes ==
  ASSUME NEW v, XInv(v), v.x.script # <<>>, NEW step, step = Head(v.x.script),
         NEW w, w = [v EXCEPT !.x.script = Tail(@)]
  PROVE  /\ XInv(w) /\ w.f = v.f /\ step \in Steps /\ StepOk(w.f, w.x, step)
         /\ \A o \in 1 .. Len(w.x.script) : ~Marks(step, w.x.script[o])
<1>1. PICK s \in Seq(Steps) : s = v.x.script
  BY DEF XInv, XhrInv, XType
<1>2. PICK t : t = Tail(s)
  OBVIOUS
<1>3. /\ t \in Seq(Steps) /\ Len(s) \in Nat /\ Len(s) > 0 /\ Len(t) = Len(s) - 1
      /\ \A i \in 1 .. Len(t) : t[i] = s[i + 1]
      /\ step = s[1] /\ step \in Steps
  BY <1>1, <1>2, HeadTailProperties, EmptySeq, LenProperties
<1>4. PICK z : z = [v.x EXCEPT !.script = t]
  OBVIOUS
<1>5. XPair(v) /\ XType(v.x)
  BY DEF XInv, XhrInv
<1>6. XType(z) /\ z.script = t /\ z.n = v.x.n /\ z.flight = v.x.flight /\ z.frame = v.x.frame
  BY <1>3, <1>4, <1>5 DEF XType, XKeys
<1>7. w = SetX(v, z)
  BY <1>1, <1>2, <1>4, <1>5 DEF SetX, XPair
<1>8. XPair(w) /\ w.f = v.f /\ w.x = z
  BY ONLY <1>5, <1>7, SetXIs
<1>9. Flown(z) = Flown(v.x)
  BY <1>6 DEF Flown
<1>10. Flights(v.f, z)
  BY <1>6, <1>9 DEF XInv, XhrInv, Flights
<1>11. \A a : StepOk(v.f, v.x, a) => StepOk(v.f, z, a)
  BY <1>6, <1>9 DEF StepOk
<1>12. /\ \A p \in 1 .. Len(s) : StepOk(v.f, z, s[p])
       /\ \A p \in 1 .. Len(s) : \A o \in 1 .. Len(s) : Marks(s[p], s[o]) => p = o
  BY <1>1, <1>11 DEF XInv, XhrInv, ScriptOk
<1>13. \A i \in 1 .. Len(t) : i + 1 \in 1 .. Len(s) /\ i + 1 # 1
  BY <1>3
<1>14. ScriptOk(v.f, z, t)
  <2>1. \A p \in 1 .. Len(t) : StepOk(v.f, z, t[p])
    BY <1>3, <1>12, <1>13
  <2>2. ASSUME NEW p \in 1 .. Len(t), NEW o \in 1 .. Len(t), Marks(t[p], t[o]) PROVE p = o
    <3>1. p + 1 = o + 1
      BY <1>3, <1>12, <1>13, <2>2
    <3> QED BY <3>1
  <2> QED BY <2>1, <2>2 DEF ScriptOk
<1>15. 1 \in 1 .. Len(s)
  BY <1>3
<1>16. \A o \in 1 .. Len(t) : ~Marks(step, t[o])
  BY <1>3, <1>12, <1>13, <1>15
<1> QED BY <1>3, <1>6, <1>8, <1>10, <1>12, <1>14, <1>15, <1>16 DEF XInv, XhrInv

\* A step that is no event leaves no event behind it.
LEMMA TailTold ==
  ASSUME NEW f, NEW y, XType(y), y.script # <<>>, Tale(f, y), Begun(y) \/ Fresh(y),
         NEW step, step = Head(y.script), step.do # "event",
         NEW z, Aside(y, z), z.script = Tail(y.script)
  PROVE  Tale(f, z) /\ Begun(z)
<1>1. PICK s \in Seq(Steps) : s = y.script
  BY DEF XType
<1>2. PICK t : t = Tail(s)
  OBVIOUS
<1>3. s # <<>> /\ step = Head(s)
  BY <1>1
<1>4. /\ t \in Seq(Steps) /\ Len(s) \in Nat /\ Len(s) > 0 /\ Len(t) = Len(s) - 1
      /\ \A i \in 1 .. Len(t) : t[i] = s[i + 1]
      /\ step = s[1]
  BY <1>2, <1>3, HeadTailProperties, EmptySeq, LenProperties
<1>5. \A i \in 1 .. Len(t) : i + 1 \in 1 .. Len(s) /\ t[i] = s[i + 1]
  BY <1>4
<1>6. ASSUME NEW n, NEW k \in Nat
      PROVE  /\ Silent(s, n) => Silent(t, n)
             /\ Rising(s, n) => Rising(t, n)
             /\ InTurn(s, n, k) => InTurn(t, n, k)
  <2>1. ~EventOf(step, n)
    BY DEF EventOf
  <2>2. /\ Silent(s, n) => Silent(t, n)
        /\ Rising(s, n) => Rising(t, n)
        /\ InTurn(s, n, k) /\ ~EventOf(step, n) => InTurn(t, n, k)
    BY ONLY s \in Seq(Steps), <1>2, <1>3, k \in Nat, TailTells
  <2> QED BY <2>1, <2>2
<1>7. ASSUME NEW n \in 1 .. MaxSends
      PROVE  InTurn(z.script, n, Len(z.hist[n])) /\ Rising(z.script, n)
  <2>1. y.hist[n] \in Seq(EventTypes)
    BY DEF Tale
  <2>2. PICK k \in Nat : k = Len(y.hist[n])
    BY <2>1
  <2>3. InTurn(s, n, k) /\ Rising(s, n)
    BY <1>1, <2>2 DEF Tale, TaleAt
  <2> QED BY <1>1, <1>2, <1>6, <2>2, <2>3 DEF Aside
<1>8. \A n \in 1 .. MaxSends : Loads(z, n) => Loads(y, n) \/ MayLoad(f, y, n)
  BY <1>1, <1>2, <1>5 DEF Loads, Aside
<1>9. \A p \in 1 .. Len(z.script) : z.script[p].do = "event" => z.script[p].n \in 1 .. z.n
  <2>1. \A p \in 1 .. Len(s) : s[p].do = "event" => s[p].n \in 1 .. y.n
    BY <1>1 DEF Tale
  <2> QED BY <1>1, <1>2, <1>5, <2>1 DEF Aside
<1>10. EndsStay(f, f)
  BY DEF EndsStay
<1>11. Tale(f, z)
  BY ONLY XType(y), Tale(f, y), Aside(y, z), <1>7, <1>8, <1>9, <1>10, ScriptTale
<1>12. Begun(y)
  BY <1>1, <1>4 DEF Fresh, EventOf
<1>13. Begun(z)
  <2>1. \A n : Silent(s, n) => Silent(t, n)
    BY <1>6
  <2> QED BY <1>1, <1>2, <1>12, <2>1 DEF Begun, Aside
<1> QED BY <1>11, <1>13

\* The event `type` of the send() d is dispatched.
EventHad(y, z, d, type) ==
  /\ z.n = y.n /\ z.flight = y.flight /\ z.seq = y.seq /\ z.send = y.send
  /\ z.controller = y.controller /\ z.aborted = y.aborted /\ z.armed = y.armed
  /\ z.script = Tail(y.script) /\ z.hist = [y.hist EXCEPT ![d] = Append(@, type)]

\* An event that is dispatched is the next in turn of its send().
LEMMA EventTold ==
  ASSUME NEW f, NEW y, XType(y), y.script # <<>>, Tale(f, y), Begun(y) \/ Fresh(y),
         NEW step, step = Head(y.script), step \in Steps, step.do = "event",
         NEW d, d = step.n, NEW type, type = step.type,
         NEW z, EventHad(y, z, d, type)
  PROVE  Tale(f, z) /\ Begun(z)
<1> USE DEF EventHad
<1>1. PICK s \in Seq(Steps) : s = y.script
  BY DEF XType
<1>2. PICK t : t = Tail(s)
  OBVIOUS
<1>3. s # <<>> /\ step = Head(s)
  BY <1>1
<1>4. /\ t \in Seq(Steps) /\ Len(s) \in Nat /\ Len(s) > 0 /\ Len(t) = Len(s) - 1
      /\ \A i \in 1 .. Len(t) : t[i] = s[i + 1]
      /\ step = s[1]
  BY <1>2, <1>3, HeadTailProperties, EmptySeq, LenProperties
<1>5. 1 \in 1 .. Len(s) /\ \A i \in 1 .. Len(t) : i + 1 \in 1 .. Len(s) /\ t[i] = s[i + 1]
  BY <1>4
<1>6. type \in EventTypes
  BY DEF Steps
<1>7. \A p \in 1 .. Len(s) : s[p].do = "event" => s[p].n \in 1 .. y.n
  BY <1>1 DEF Tale
<1>8. d \in 1 .. y.n /\ d \in 1 .. MaxSends
  <2>1. d \in 1 .. y.n
    BY <1>4, <1>5, <1>7
  <2>2. y.n \in 0 .. MaxSends
    BY DEF XType
  <2>3. MaxSends \in Nat
    BY XhrAssumption, FetchAssumption
  <2> QED BY ONLY <2>1, <2>2, <2>3
<1>9. PICK h : h = y.hist[d]
  OBVIOUS
<1>10. h \in Seq(EventTypes)
  BY <1>8, <1>9 DEF Tale
<1>11. PICK hh : hh = Append(h, type)
  OBVIOUS
<1>12. /\ hh \in Seq(EventTypes) /\ Len(h) \in Nat /\ Len(hh) = Len(h) + 1 /\ hh[Len(h) + 1] = type
       /\ \A i \in 1 .. Len(h) : hh[i] = h[i]
  BY <1>6, <1>10, <1>11, AppendProperties
<1>13. y.hist \in [1 .. MaxSends -> Seq(EventTypes)]
  BY DEF Tale
<1>14. /\ z.hist \in [1 .. MaxSends -> Seq(EventTypes)] /\ z.hist[d] = hh
       /\ \A n \in 1 .. MaxSends : n # d => z.hist[n] = y.hist[n]
  <2>1. PICK hs : hs = y.hist
    OBVIOUS
  <2>2. z.hist = [hs EXCEPT ![d] = hh]
    BY <1>9, <1>11, <2>1
  <2>3. hs \in [1 .. MaxSends -> Seq(EventTypes)]
    BY <1>13, <2>1
  <2>4. hh \in Seq(EventTypes)
    BY <1>12
  <2>5. z.hist \in [1 .. MaxSends -> Seq(EventTypes)] /\ z.hist[d] = hh
        /\ \A n \in 1 .. MaxSends : n # d => z.hist[n] = hs[n]
    BY ONLY <1>8, <2>2, <2>3, <2>4
  <2> QED BY <2>1, <2>5
<1>15. ASSUME NEW n, NEW k \in Nat
       PROVE  /\ Silent(s, n) => Silent(t, n)
              /\ Rising(s, n) => Rising(t, n)
              /\ InTurn(s, n, k) /\ ~EventOf(step, n) => InTurn(t, n, k)
              /\ InTurn(s, n, k) /\ EventOf(step, n) => Rank(step.type) = k + 1
              /\ InTurn(s, n, k) /\ Rising(s, n) /\ EventOf(step, n) => InTurn(t, n, k + 1)
  BY ONLY s \in Seq(Steps), <1>2, <1>3, k \in Nat, TailTells
<1>16. \A n : EventOf(step, n) <=> n = d
  BY DEF EventOf
<1>17. ASSUME NEW n \in 1 .. MaxSends PROVE TaleAt(f, z, n)
  <2>1. TaleAt(f, y, n)
    BY DEF Tale
  <2>2. PICK k \in Nat : k = Len(y.hist[n])
    <3>1. PICK hs \in [1 .. MaxSends -> Seq(EventTypes)] : hs = y.hist
      BY <1>13
    <3>2. hs[n] \in Seq(EventTypes)
      OBVIOUS
    <3>3. Len(hs[n]) \in Nat
      BY <3>2
    <3> QED BY <3>1, <3>3
  <2>3. InTurn(s, n, k) /\ Rising(s, n)
    BY <1>1, <2>1, <2>2 DEF TaleAt
  <2>4. z.script = t
    BY <1>1, <1>2
  <2>5. Loads(y, n) => MayLoad(f, z, n)
    BY <2>1 DEF TaleAt, MayLoad
  <2>6. (\E p \in 1 .. Len(t) : IsLoad(t[p], n)) => Loads(y, n)
    BY <1>1, <1>5 DEF Loads
  <2>7. Rising(t, n)
    BY <1>15, <2>2, <2>3
  <2>8. CASE n # d
    <3>1. z.hist[n] = y.hist[n]
      BY <1>14, <2>8
    <3>2. InTurn(t, n, k)
      BY <1>15, <1>16, <2>3, <2>8
    <3>3. Loads(z, n) => Loads(y, n)
      BY <2>4, <2>6, <3>1 DEF Loads
    <3> QED BY <2>1, <2>2, <2>4, <2>5, <2>7, <3>1, <3>2, <3>3 DEF TaleAt
  <2>9. CASE n = d
    <3>1. z.hist[n] = hh /\ k = Len(h) /\ Len(hh) = k + 1
      BY <1>9, <1>12, <1>14, <2>2, <2>9
    <3>2. InTurn(t, n, k + 1) /\ Rank(type) = k + 1
      BY <1>15, <1>16, <2>3, <2>9
    <3>3. \A i \in 1 .. Len(hh) : i \in 1 .. Len(h) \/ i = Len(h) + 1
      BY <1>12
    <3>4. \A i \in 1 .. Len(hh) : Rank(hh[i]) = i
      <4>1. \A i \in 1 .. Len(h) : Rank(h[i]) = i
        BY <1>9, <2>1, <2>9 DEF TaleAt
      <4> QED BY <1>12, <3>1, <3>2, <3>3, <4>1
    <3>5. Loads(z, n) => Loads(y, n)
      <4>1. ASSUME NEW i \in 1 .. Len(hh), hh[i] = "load" PROVE Loads(y, n)
        <5>1. CASE i \in 1 .. Len(h)
          <6>1. h[i] = "load" /\ y.hist[n] = h
            BY <1>9, <1>12, <2>9, <4>1, <5>1
          <6> QED BY <5>1, <6>1 DEF Loads
        <5>2. CASE i = Len(h) + 1
          <6>1. IsLoad(s[1], n)
            BY <1>4, <1>12, <2>9, <4>1, <5>2 DEF IsLoad, EventOf
          <6> QED BY <1>1, <1>5, <6>1 DEF Loads
        <5> QED BY <3>3, <5>1, <5>2
      <4> QED BY <2>4, <2>6, <3>1, <4>1 DEF Loads
    <3>6. ~(n > z.n)
      <4>1. z.n \in Int /\ n \in Int
        <5>1. y.n \in 0 .. MaxSends /\ n \in 1 .. MaxSends
          BY DEF XType
        <5> QED BY <5>1
      <4> QED BY <1>8, <2>9, <4>1
    <3> QED BY <2>4, <2>5, <2>7, <3>1, <3>2, <3>4, <3>5, <3>6 DEF TaleAt
  <2> QED BY <2>8, <2>9
<1>18. Dated(z)
  BY DEF Tale, Dated
<1>19. \A p \in 1 .. Len(z.script) : z.script[p].do = "event" => z.script[p].n \in 1 .. z.n
  BY <1>1, <1>2, <1>5, <1>7
<1>20. Tale(f, z)
  BY <1>14, <1>17, <1>18, <1>19 DEF Tale
<1>21. Begun(z)
  <2>1. z.script = t
    BY <1>1, <1>2
  <2>2. CASE Begun(y) /\ y.send
    <3>1. y.n # 0 /\ Len(y.hist[y.n]) = 1 /\ Silent(s, y.n)
      BY <1>1, <2>2 DEF Begun
    <3>2. y.n # d
      BY <1>4, <1>5, <1>16, <3>1 DEF Silent
    <3>3. Silent(t, y.n)
      BY <1>15, <3>1
    <3>4. y.n \in 1 .. MaxSends
      <4>1. y.n \in 0 .. MaxSends
        BY DEF XType
      <4> QED BY <3>1, <4>1
    <3>5. z.hist[z.n] = y.hist[y.n]
      BY <1>14, <3>2, <3>4
    <3> QED BY <2>1, <3>1, <3>3, <3>5 DEF Begun
  <2>3. CASE ~y.send
    BY <2>3 DEF Begun
  <2>4. CASE Fresh(y)
    <3>1. y.n # 0 /\ y.hist[y.n] = <<>> /\ EventOf(s[1], y.n)
          /\ \A p \in 1 .. Len(s) : p # 1 => ~EventOf(s[p], y.n)
      BY <1>1, <2>4 DEF Fresh
    <3>2. d = y.n
      BY <1>4, <1>16, <3>1
    <3>3. Silent(t, y.n)
      <4>1. \A i \in 1 .. Len(t) : i + 1 # 1
        BY <1>4
      <4> QED BY <1>5, <3>1, <4>1 DEF Silent
    <3>4. Len(hh) = 1
      <4>1. h = <<>>
        BY <1>9, <3>1, <3>2
      <4>2. Len(h) = 0
        BY <4>1
      <4> QED BY <1>12, <4>2
    <3>5. z.n = y.n /\ z.hist[z.n] = hh
      BY <1>14, <3>2
    <3> QED BY <2>1, <3>1, <3>3, <3>4, <3>5 DEF Begun
  <2> QED BY <2>2, <2>3, <2>4
<1> QED BY <1>20, <1>21

\* Nothing of the object has changed, and no end was taken back.
LEMMA SameTold ==
  ASSUME NEW f, NEW y, XType(y), NEW h, EndsStay(f, h)
  PROVE  Tale(f, y) /\ Begun(y) => Tale(h, y) /\ Begun(y)
<1> SUFFICES ASSUME Tale(f, y), Begun(y) PROVE Tale(h, y)
  OBVIOUS
<1>1. Aside(y, y) /\ y.script \in {y.script, <<>>}
  BY DEF Aside
<1> QED BY ONLY XType(y), Tale(f, y), EndsStay(f, h), <1>1, AsideTale

\* A send() gets its request, and its timer.
LEMMA FlownTold ==
  ASSUME NEW f, NEW y, XType(y), Tale(f, y), NEW n \in 1 .. y.n, y.flight[n].id = 0,
         NEW h, EndsStay(f, h),
         NEW z, z.hist = y.hist, z.n = y.n, z.seq = y.seq, z.send = y.send, z.script = y.script,
         z.controller = y.controller, z.aborted = y.aborted,
         \A q \in z.armed : q \in y.armed \/ q = y.flight[n].seq,
         \A m \in 1 .. MaxSends : z.flight[m].seq = y.flight[m].seq,
         \A m \in 1 .. MaxSends : m # n => z.flight[m].id = y.flight[m].id
  PROVE  Tale(h, z) /\ (Begun(y) => Begun(z))
<1>1. ASSUME NEW m \in 1 .. MaxSends PROVE TaleAt(h, z, m)
  <2>1. TaleAt(f, y, m)
    BY DEF Tale
  <2>2. ASSUME MayLoad(f, y, m) PROVE MayLoad(h, z, m)
    <3>1. m # n
      BY <2>2 DEF MayLoad
    <3>2. z.flight[m].id = y.flight[m].id /\ m \notin z.aborted /\ z.controller # m
      BY <2>2, <3>1 DEF MayLoad
    <3> QED BY ONLY XType(y), m \in 1 .. MaxSends, <2>2, EndsStay(f, h), <3>2, MayLoadStill
  <2>3. Loads(z, m) => Loads(y, m)
    BY DEF Loads
  <2> QED BY <2>1, <2>2, <2>3 DEF TaleAt
<1>2. \A m \in 1 .. y.n : m \in 1 .. MaxSends
  <2>1. y.n \in 0 .. MaxSends
    BY DEF XType
  <2>2. MaxSends \in Nat
    BY XhrAssumption, FetchAssumption
  <2> QED BY ONLY <2>1, <2>2
<1>3. \A m \in 1 .. y.n : z.flight[m].seq = y.flight[m].seq
  BY <1>2
<1>4. Dated(z)
  <2>1. \A m \in 1 .. z.n : z.flight[m].seq <= z.seq
                             /\ (z.flight[m].seq = z.seq => m = z.n /\ z.send)
    BY <1>3 DEF Tale, Dated
  <2>2. \A c \in z.aborted : c \in 1 .. z.n /\ z.flight[c].seq < z.seq
    BY <1>3 DEF Tale, Dated
  <2>3. \A q \in z.armed : \E m \in 1 .. z.n : z.flight[m].seq = q
    BY <1>3 DEF Tale, Dated
  <2>4. z.controller \in 0 .. z.n
    BY DEF Tale, Dated
  <2> QED BY <2>1, <2>2, <2>3, <2>4 DEF Dated
<1>5. z.send \in BOOLEAN /\ z.hist \in [1 .. MaxSends -> Seq(EventTypes)]
  BY DEF Tale
<1>6. \A p \in 1 .. Len(z.script) : z.script[p].do = "event" => z.script[p].n \in 1 .. z.n
  BY DEF Tale
<1>7. Begun(y) => Begun(z)
  BY DEF Begun
<1> QED BY <1>1, <1>4, <1>5, <1>6, <1>7 DEF Tale

LEMMA AsideFollows ==
  ASSUME NEW w, XType(w.x), NEW g, EndsStay(w.f, g.f), Aside(w.x, g.x),
         g.x.script \in {w.x.script, <<>>}
  PROVE  Follows(w, g)
<1>1. PICK f, y, h, z : f = w.f /\ y = w.x /\ h = g.f /\ z = g.x
  OBVIOUS
<1>2. XType(y) /\ EndsStay(f, h) /\ Aside(y, z) /\ z.script \in {y.script, <<>>}
  BY <1>1
<1>3. Tale(f, y) => Tale(h, z) /\ (Begun(y) => Begun(z))
  BY ONLY <1>2, AsideTale
<1> QED BY <1>1, <1>3 DEF Follows, Heard

LEMMA NoEnds == \A f : EndsStay(f, f)
BY DEF EndsStay

-------------------------------------------------------------------------------
(* One step of the script.                                                         *)

\* The step that was taken is one that the rest of the script does not hold.
Alone(w, step) == \A o \in 1 .. Len(w.x.script) : ~Marks(step, w.x.script[o])

LEMMA RoomForFetch ==
  ASSUME NEW f, NEW z, FetchInv(f), XType(z), Flights(f, z), NEW n \in 1 .. z.n,
         z.flight[n].id = 0
  PROVE  n \in 1 .. MaxSends /\ f.next \in Ids
<1>1. n \in 1 .. MaxSends /\ MaxSends \in Nat /\ MaxSends <= MaxRequests /\ MaxRequests \in Nat
  BY XhrAssumption, FetchAssumption DEF XType
<1>2. Flown(z) \subseteq 1 .. MaxSends /\ n \notin Flown(z)
  BY DEF Flown
<1>3. IsFiniteSet(1 .. MaxSends) /\ Cardinality(1 .. MaxSends) = MaxSends
  <2>1. 1 \in Int /\ MaxSends \in Int /\ MaxSends >= 0
    BY <1>1
  <2>2. Cardinality(1 .. MaxSends) = IF 1 > MaxSends THEN 0 ELSE MaxSends - 1 + 1
    BY <2>1, FS_Interval
  <2>3. IsFiniteSet(1 .. MaxSends)
    BY <2>1, FS_Interval
  <2> QED BY <2>1, <2>2, <2>3
<1>4. /\ IsFiniteSet(Flown(z)) /\ Cardinality(Flown(z)) <= MaxSends
      /\ Cardinality(Flown(z)) # MaxSends
  <2>1. Cardinality(Flown(z)) = Cardinality(1 .. MaxSends) => Flown(z) = 1 .. MaxSends
    BY <1>2, <1>3, FS_Subset
  <2>2. IsFiniteSet(Flown(z)) /\ Cardinality(Flown(z)) <= Cardinality(1 .. MaxSends)
    BY <1>2, <1>3, FS_Subset
  <2> QED BY <1>1, <1>2, <1>3, <2>1, <2>2
<1>5. Cardinality(Flown(z)) = f.next - 1 /\ f.next \in 1 .. MaxRequests + 1
  BY DEF Flights, FetchInv, Sound, IsFetch
<1> QED BY <1>1, <1>4, <1>5 DEF Ids

\* A request has got its own id.
LEMMA FlightBegun ==
  ASSUME NEW w, XInv(w), NEW step, Calls(step), StepOk(w.f, w.x, step), Alone(w, step),
         NEW n, n = step.n, NEW id \in Ids, id = w.f.next,
         NEW h, Begins(w.f, h, id),
         NEW z, XType(z), z.n = w.x.n, z.script = w.x.script, z.frame = w.x.frame,
         n \in 1 .. MaxSends, z.flight[n].id = id,
         \A m \in 1 .. MaxSends : m # n => z.flight[m].id = w.x.flight[m].id
  PROVE  XhrInv(h, z)
<1>1. PICK f : f = w.f
  OBVIOUS
<1>2. PICK y : y = w.x
  OBVIOUS
<1>3. FetchInv(f) /\ XType(y) /\ Flights(f, y) /\ ScriptOk(f, y, y.script)
  BY <1>1, <1>2 DEF XInv, XhrInv
<1>4. /\ FetchInv(h) /\ h.next = f.next + 1 /\ f.next \in Nat /\ id \in Nat /\ id # 0
      /\ \A d \in Ids : d # id => /\ (Connecting(h, d) <=> Connecting(f, d))
                                  /\ (Reading(h, d) <=> Reading(f, d)) /\ h.told[d] = f.told[d]
  BY <1>1, FetchAssumption DEF Begins, KeepsWaiting, Ids
<1>5. n \in 1 .. y.n /\ y.flight[n].id = 0
  BY <1>2 DEF StepOk
<1>6. /\ \A m \in Flown(y) : /\ m \in 1 .. MaxSends /\ m # n /\ y.flight[m].id \in Ids
                             /\ y.flight[m].id < f.next
      /\ n \notin Flown(y)
  <2>1. \A m \in Flown(y) : m \in 1 .. MaxSends /\ y.flight[m].id \in Ids /\ m # n
    BY <1>3, <1>5, FlownIds DEF Flown
  <2> QED BY <1>3, <2>1 DEF Flights
<1>7. Flown(z) = Flown(y) \union {n} /\ \A m \in Flown(y) : z.flight[m].id = y.flight[m].id
  BY <1>2, <1>4, <1>6 DEF Flown
<1>8. Flights(h, z)
  <2>1. \A m \in 1 .. MaxSends : /\ z.flight[m].id < h.next
                                 /\ m > z.n => z.flight[m].id = 0
    <3> SUFFICES ASSUME NEW m \in 1 .. MaxSends
                 PROVE  z.flight[m].id < h.next /\ (m > z.n => z.flight[m].id = 0)
      OBVIOUS
    <3>1. CASE m = n
      <4>1. ~(n > y.n)
        <5>1. y.n \in Int
          <6>1. y.n \in 0 .. MaxSends
            BY <1>3 DEF XType
          <6> QED BY <6>1
        <5> QED BY <1>5, <5>1
      <4> QED BY <1>1, <1>2, <1>4, <3>1, <4>1
    <3>2. CASE m # n
      <4>1. /\ z.flight[m].id = y.flight[m].id /\ y.flight[m].id < f.next
            /\ m > y.n => y.flight[m].id = 0
        BY <1>2, <1>3, <3>2 DEF Flights
      <4>2. y.flight[m].id \in Nat
        <5>1. y.flight[m] \in [id : 0 .. MaxRequests, seq : Nat]
          BY <1>3 DEF XType
        <5> QED BY <5>1, FetchAssumption
      <4> QED BY <1>2, <1>4, <4>1, <4>2
    <3> QED BY <3>1, <3>2
  <2>2. \A a \in Flown(z) : \A b \in Flown(z) : z.flight[a].id = z.flight[b].id => a = b
    <3>1. \A a \in Flown(y) : z.flight[a].id # id
      BY <1>1, <1>4, <1>6, <1>7
    <3> QED BY <1>3, <1>7, <3>1 DEF Flights
  <2>3. \A d \in Ids : d < h.next => \E m \in Flown(z) : z.flight[m].id = d
    <3> SUFFICES ASSUME NEW d \in Ids, d < h.next PROVE \E m \in Flown(z) : z.flight[m].id = d
      OBVIOUS
    <3>1. CASE d = id
      BY <1>7, <3>1
    <3>2. CASE d # id
      <4>1. d < f.next
        BY <1>1, <1>4, <3>2, FetchAssumption DEF Ids
      <4>2. PICK m \in Flown(y) : y.flight[m].id = d
        BY <1>3, <4>1 DEF Flights
      <4> QED BY <1>7, <4>2
    <3> QED BY <3>1, <3>2
  <2>4. Cardinality(Flown(z)) = h.next - 1
    <3>1. IsFiniteSet(Flown(y))
      <4>1. Flown(y) \subseteq 1 .. MaxSends
        BY DEF Flown
      <4>2. IsFiniteSet(1 .. MaxSends)
        <5>1. MaxSends \in Nat
          BY XhrAssumption, FetchAssumption
        <5> QED BY <5>1, FS_Interval
      <4> QED BY <4>1, <4>2, FS_Subset
    <3>2. Cardinality(Flown(y) \union {n}) = Cardinality(Flown(y)) + 1
      BY <1>6, <3>1, FS_AddElement
    <3>3. Cardinality(Flown(y)) = f.next - 1
      BY <1>3 DEF Flights
    <3> QED BY <1>4, <1>7, <3>2, <3>3
  <2>5. z.frame # 0 => z.frame \in Flown(z)
    BY <1>2, <1>3, <1>7 DEF Flights
  <2> QED BY <2>1, <2>2, <2>3, <2>4, <2>5 DEF Flights
<1>9. ScriptOk(h, z, z.script)
  <2>1. \A p \in 1 .. Len(y.script) : ~Marks(step, y.script[p]) /\ StepOk(f, y, y.script[p])
    BY <1>2, <1>3 DEF Alone, ScriptOk
  <2>2. ASSUME NEW a, StepOk(f, y, a), ~Marks(step, a) PROVE StepOk(h, z, a)
    <3>1. Calls(a) => a.n \in 1 .. z.n /\ z.flight[a.n].id = 0
      <4>1. Calls(a) => a.n \in 1 .. y.n /\ y.flight[a.n].id = 0 /\ a.n # n
        BY <2>2 DEF StepOk, Marks
      <4>2. \A m \in 1 .. y.n : m \in 1 .. MaxSends
        BY <1>3, XhrAssumption DEF XType
      <4> QED BY <1>2, <4>1, <4>2
    <3>2. Takes(a) => /\ a.n \in Flown(y) /\ f.told[y.flight[a.n].id] = "response"
                      /\ ~Connecting(f, y.flight[a.n].id) /\ ~Reading(f, y.flight[a.n].id)
      BY <2>2 DEF StepOk
    <3>3. \A m \in Flown(y) : y.flight[m].id # id
      BY <1>1, <1>4, <1>6
    <3>4. Takes(a) => /\ a.n \in Flown(z) /\ z.flight[a.n].id = y.flight[a.n].id
                      /\ y.flight[a.n].id \in Ids /\ y.flight[a.n].id # id
      BY <1>6, <1>7, <3>2, <3>3
    <3>5. Takes(a) => /\ h.told[z.flight[a.n].id] = "response"
                      /\ ~Connecting(h, z.flight[a.n].id) /\ ~Reading(h, z.flight[a.n].id)
      BY <1>4, <3>2, <3>4
    <3> QED BY ONLY <3>1, <3>4, <3>5 DEF StepOk
  <2> QED BY <1>2, <1>3, <2>1, <2>2 DEF ScriptOk
<1> QED BY <1>4, <1>8, <1>9 DEF XhrInv

Hows == {"http", "local", "denied"}

LEMMA CallFetchDoes ==
  ASSUME NEW w, XInv(w), NEW step, Calls(step), StepOk(w.f, w.x, step), Alone(w, step),
         NEW n, n = step.n, NEW how \in Hows, NEW g, g = CallFetch(w, n, how)
  PROVE  XInv(g) /\ Follows(w, g)
<1>1. XPair(w) /\ XType(w.x) /\ FetchInv(w.f)
  BY DEF XInv, XhrInv
<1>2. n \in 1 .. MaxSends /\ w.f.next \in Ids
  <2>1. Flights(w.f, w.x) /\ n \in 1 .. w.x.n /\ w.x.flight[n].id = 0
    BY DEF XInv, XhrInv, StepOk
  <2> QED BY <1>1, <2>1, RoomForFetch
<1>3. PICK id \in Ids : id = w.f.next
  BY <1>2
<1>4. PICK h : h = CASE n \in w.x.aborted -> RejectAtOnce(w.f, "aborted")
                     [] OTHER -> CASE how = "http"  -> StartTransfer(w.f)
                                   [] how = "local" -> QueueLocalResponse(w.f)
                                   [] how = "denied" -> RejectAtOnce(w.f, "denied")
  OBVIOUS
<1>5. Begins(w.f, h, id)
  <2>1. PICK f : f = w.f
    OBVIOUS
  <2>2. \/ h = StartTransfer(f) \/ h = QueueLocalResponse(f)
        \/ h = RejectAtOnce(f, "aborted") \/ h = RejectAtOnce(f, "denied")
    BY <1>4, <2>1 DEF Hows
  <2>3. \/ h = StartTransfer(f)
        \/ h = QueueLocalResponse(f)
        \/ \E outcome \in {"denied", "network", "aborted"} : h = RejectAtOnce(f, outcome)
    BY <2>2
  <2>4. FetchInv(f) /\ id = f.next
    BY <1>1, <1>3, <2>1
  <2>5. Begins(f, h, id)
    BY <2>3, <2>4, StartStep
  <2> QED BY <2>1, <2>5
<1>6. PICK seq : seq = w.x.flight[n].seq
  OBVIOUS
<1>7. PICK y : y = [w.x EXCEPT !.flight[n].id = w.f.next]
  OBVIOUS
<1>8. PICK fl : fl = [w.x.flight EXCEPT ![n].id = id]
  OBVIOUS
<1>9. /\ fl \in [1 .. MaxSends -> [id : 0 .. MaxRequests, seq : Nat]] /\ fl[n].id = id
      /\ \A m \in 1 .. MaxSends : fl[m].seq = w.x.flight[m].seq
      /\ \A m \in 1 .. MaxSends : m # n => fl[m].id = w.x.flight[m].id
  <2>1. w.x.flight \in [1 .. MaxSends -> [id : 0 .. MaxRequests, seq : Nat]]
    BY <1>1 DEF XType
  <2>2. id \in 0 .. MaxRequests
    BY FetchAssumption DEF Ids
  <2>3. PICK e \in [id : 0 .. MaxRequests, seq : Nat] : e = [w.x.flight[n] EXCEPT !.id = id]
    BY <1>2, <2>1, <2>2
  <2>4. fl = [w.x.flight EXCEPT ![n] = e] /\ e.id = id /\ e.seq = w.x.flight[n].seq
    BY <1>2, <1>8, <2>1, <2>3
  <2> QED BY <1>2, <2>1, <2>4
<1>10. /\ y = [k \in XKeys |-> y[k]] /\ y.n = w.x.n /\ y.seq = w.x.seq /\ y.flight = fl
       /\ y.controller = w.x.controller /\ y.script = w.x.script /\ y.frame = w.x.frame
  BY <1>1, <1>3, <1>7, <1>8 DEF XType, XKeys
<1>11. PICK z : z = IF w.x.timeout THEN [y EXCEPT !.armed = @ \union {seq}, !.timer = seq] ELSE y
  OBVIOUS
<1>12. /\ z = [k \in XKeys |-> z[k]] /\ z.n = w.x.n /\ z.seq = w.x.seq /\ z.flight = fl
       /\ z.controller = w.x.controller /\ z.script = w.x.script /\ z.frame = w.x.frame
  BY <1>10, <1>11 DEF XKeys
<1>13. XType(z)
  BY <1>1, <1>9, <1>12 DEF XType
<1>14. XhrInv(h, z)
  <2>1. /\ z.flight[n].id = id
        /\ \A m \in 1 .. MaxSends : m # n => z.flight[m].id = w.x.flight[m].id
    BY <1>9, <1>12
  <2> QED BY <1>2, <1>3, <1>5, <1>12, <1>13, <2>1, FlightBegun
<1>15. XPair(g) /\ g.f = h /\ g.x = z
  <2>1. PICK u : u = [w EXCEPT !.x.flight[n].id = w.f.next]
    OBVIOUS
  <2>2. u = SetX(w, y)
    BY <1>1, <1>7, <2>1 DEF SetX, XPair, XType, XKeys
  <2>3. XPair(u) /\ u.f = w.f /\ u.x = y
    BY <1>1, <2>2, SetXIs
  <2>4. PICK r : r = IF w.x.timeout THEN [u EXCEPT !.x.armed = @ \union {seq}, !.x.timer = seq]
                                    ELSE u
    OBVIOUS
  <2>5. XPair(r) /\ r.f = w.f /\ r.x = z
    BY <1>10, <1>11, <2>3, <2>4 DEF XPair, XKeys
  <2>6. g = [r EXCEPT !.f = h]
    <3>1. g = [r EXCEPT !.f = CASE n \in w.x.aborted -> RejectAtOnce(r.f, "aborted")
                                [] OTHER -> CASE how = "http"  -> StartTransfer(r.f)
                                              [] how = "local" -> QueueLocalResponse(r.f)
                                              [] how = "denied" -> RejectAtOnce(r.f, "denied")]
      BY ONLY <1>6, <2>1, <2>4, g = CallFetch(w, n, how) DEF CallFetch
    <3>2. r.f = w.f
      BY <2>5
    <3> QED BY ONLY <1>4, <3>1, <3>2
  <2> QED BY <2>5, <2>6 DEF XPair
<1>16. Follows(w, g)
  <2> SUFFICES ASSUME Heard(w) PROVE Heard(g)
    BY DEF Follows
  <2>1. PICK f, o : f = w.f /\ o = w.x
    OBVIOUS
  <2>2. XType(o) /\ Tale(f, o) /\ Begun(o)
    BY <1>1, <2>1 DEF Heard
  <2>3. n \in 1 .. o.n /\ o.flight[n].id = 0
    BY <2>1 DEF StepOk
  <2>4. EndsStay(f, h)
    <3>1. f.end[id] = "running"
      <4>1. f.next \in Nat /\ Core(f, id)
        <5>1. FetchInv(f)
          BY <1>1, <2>1
        <5> QED BY <5>1, InvAt
      <4> QED BY <1>3, <2>1, <4>1 DEF Core, Unborn
    <3>2. \A d \in Ids : d # id => KeepsWaiting(f, h, d)
      BY <1>5, <2>1 DEF Begins
    <3> QED BY <3>1, <3>2 DEF KeepsWaiting, EndsStay
  <2>5. /\ z.hist = o.hist /\ z.send = o.send /\ z.aborted = o.aborted
        /\ \A q \in z.armed : q \in o.armed \/ q = o.flight[n].seq
    <3>1. /\ y.hist = o.hist /\ y.send = o.send /\ y.aborted = o.aborted /\ y.armed = o.armed
      BY <1>1, <1>7, <2>1 DEF XType, XKeys
    <3>2. /\ z.hist = y.hist /\ z.send = y.send /\ z.aborted = y.aborted
          /\ z.armed \in {y.armed, y.armed \union {seq}}
      BY <1>10, <1>11 DEF XKeys
    <3> QED BY <1>6, <2>1, <3>1, <3>2
  <2>6. z.n = o.n /\ z.seq = o.seq /\ z.controller = o.controller /\ z.script = o.script
    BY <1>12, <2>1
  <2>7. /\ \A m \in 1 .. MaxSends : z.flight[m].seq = o.flight[m].seq
        /\ \A m \in 1 .. MaxSends : m # n => z.flight[m].id = o.flight[m].id
    BY <1>9, <1>12, <2>1
  <2>8. Tale(h, z) /\ (Begun(o) => Begun(z))
    BY ONLY <2>2, <2>3, <2>4, <2>5, <2>6, <2>7, FlownTold
  <2> QED BY <1>15, <2>2, <2>8 DEF Heard
<1> QED BY <1>14, <1>15, <1>16 DEF XInv

\* The body is read: the rest of the script takes no more of it.
LEMMA TakeDoes ==
  ASSUME NEW w, XInv(w), NEW step, Takes(step), StepOk(w.f, w.x, step), Alone(w, step),
         NEW g, g = [w EXCEPT !.f = ReadBody(@, w.x.flight[step.n].id)]
  PROVE  XInv(g) /\ Follows(w, g)
<1>1. PICK f : f = w.f
  OBVIOUS
<1>2. PICK y : y = w.x
  OBVIOUS
<1>3. FetchInv(f) /\ XType(y) /\ Flights(f, y) /\ ScriptOk(f, y, y.script) /\ XPair(w)
  BY <1>1, <1>2 DEF XInv, XhrInv
<1>4. PICK n \in Flown(y) : n = step.n
  BY <1>2 DEF StepOk
<1>5. PICK id \in Ids : id = y.flight[n].id
  BY <1>3, FlownIds
<1>6. PICK h : h = ReadBody(f, id)
  OBVIOUS
<1>7. Reads(f, h, id)
  <2>1. f.told[id] = "response" /\ ~Connecting(f, id) /\ ~Reading(f, id)
    BY <1>1, <1>2, <1>4, <1>5 DEF StepOk
  <2> QED BY <1>3, <1>6, <2>1, ReadStep
<1>8. g.f = h /\ g.x = y /\ XPair(g)
  BY <1>1, <1>2, <1>3, <1>4, <1>5, <1>6 DEF XPair
<1>9. /\ FetchInv(h) /\ h.next = f.next /\ h.told = f.told
      /\ \A d \in Ids : d # id => /\ (Connecting(h, d) <=> Connecting(f, d))
                                  /\ (Reading(h, d) <=> Reading(f, d))
  BY <1>7 DEF Reads, KeepsWaiting
<1>10. Flights(h, y)
  BY <1>3, <1>9 DEF Flights
<1>11. ASSUME NEW a, StepOk(f, y, a), ~Marks(step, a) PROVE StepOk(h, y, a)
  <2>1. Takes(a) => a.n \in Flown(y) /\ a.n # n
    BY <1>4, <1>11 DEF StepOk, Marks
  <2>2. Takes(a) => y.flight[a.n].id # id /\ y.flight[a.n].id \in Ids
    <3>1. \A m \in Flown(y) : y.flight[m].id \in Ids
      BY <1>3, FlownIds
    <3> QED BY <1>3, <1>5, <2>1, <3>1 DEF Flights
  <2> QED BY <1>9, <1>11, <2>2 DEF StepOk
<1>12. ScriptOk(h, y, y.script)
  <2>1. \A p \in 1 .. Len(y.script) : ~Marks(step, y.script[p]) /\ StepOk(f, y, y.script[p])
    BY <1>2, <1>3 DEF Alone, ScriptOk
  <2> QED BY <1>3, <1>11, <2>1 DEF ScriptOk
<1>13. Follows(w, g)
  <2>1. EndsStay(f, h)
    BY <1>7 DEF Reads, EndsStay
  <2>2. Tale(f, y) /\ Begun(y) => Tale(h, y) /\ Begun(y)
    BY <1>3, <2>1, SameTold
  <2> QED BY <1>1, <1>2, <1>8, <2>2 DEF Follows, Heard
<1> QED BY <1>3, <1>8, <1>9, <1>10, <1>12, <1>13 DEF XInv, XhrInv

LEMMA BodyTaken ==
  ASSUME NEW w, XInv(w), NEW n \in Flown(w.x), w.f.told[w.x.flight[n].id] = "response",
         ~Connecting(w.f, w.x.flight[n].id), ~Reading(w.f, w.x.flight[n].id),
         NEW step \in Steps, Takes(step), step.n = n, Alone(w, step),
         NEW pre, Plain(pre), NEW steps, steps = Append(pre, step), NEW g, g = Push(w, steps)
  PROVE  XInv(g)
<1>1. /\ pre \in Seq(Steps) /\ Len(pre) \in Nat
      /\ \A p \in 1 .. Len(pre) : ~Calls(pre[p]) /\ ~Takes(pre[p])
  BY DEF Plain
<1>2. /\ steps \in Seq(Steps) /\ Len(steps) = Len(pre) + 1 /\ steps[Len(pre) + 1] = step
      /\ \A p \in 1 .. Len(pre) : steps[p] = pre[p]
  BY <1>1, AppendProperties
<1>3. \A p \in 1 .. Len(steps) : \/ p = Len(pre) + 1 /\ steps[p] = step
                                 \/ ~Calls(steps[p]) /\ ~Takes(steps[p])
  <2> SUFFICES ASSUME NEW p \in 1 .. Len(steps), p # Len(pre) + 1
               PROVE  ~Calls(steps[p]) /\ ~Takes(steps[p])
    BY <1>2
  <2>1. p \in 1 .. Len(pre)
    BY <1>1, <1>2
  <2> QED BY <1>1, <1>2, <2>1
<1>4. ~Calls(step)
  BY DEF Calls, Takes
<1>5. ScriptOk(w.f, w.x, steps)
  <2>1. StepOk(w.f, w.x, step)
    BY <1>4 DEF StepOk
  <2>2. \A p \in 1 .. Len(steps) : StepOk(w.f, w.x, steps[p])
    BY <1>3, <2>1 DEF StepOk
  <2>3. \A p \in 1 .. Len(steps) : \A o \in 1 .. Len(steps) : Marks(steps[p], steps[o]) => p = o
    BY <1>3 DEF Marks
  <2> QED BY <2>2, <2>3 DEF ScriptOk
<1>6. \A p \in 1 .. Len(steps) : \A o \in 1 .. Len(w.x.script) : ~Marks(steps[p], w.x.script[o])
  BY <1>3 DEF Alone, Marks
<1> QED BY <1>2, <1>5, <1>6, PushDoes

LEMMA RespondDoes ==
  ASSUME NEW w, XInv(w), NEW step \in Steps, step.do = "respond", StepOk(w.f, w.x, step),
         Alone(w, step), NEW n, n = step.n, NEW g, g = Respond(w, n)
  PROVE  XInv(g) /\ Follows(w, g)
<1>1. XPair(w) /\ XType(w.x) /\ Takes(step)
  BY DEF XInv, XhrInv, Takes
<1>2. PICK z : z = [w.x EXCEPT !.response = n]
  OBVIOUS
<1>3. XType(z) /\ Kept(w.x, z)
  BY <1>1, <1>2 DEF XType, XKeys, Kept
<1>4. PICK u : u = SetX(w, z)
  OBVIOUS
<1>5. XInv(u) /\ u.f = w.f /\ u.x = z
  BY <1>3, <1>4, KeptDoes
<1>6. u = [w EXCEPT !.x.response = n]
  BY <1>1, <1>2, <1>4 DEF SetX, XPair, XType, XKeys
<1>7. n \in Flown(w.x) /\ n \in 1 .. MaxSends
  BY <1>1 DEF StepOk, Flown
<1>8. PICK seq \in Nat : seq = w.x.flight[n].seq
  <2>1. w.x.flight[n] \in [id : 0 .. MaxRequests, seq : Nat]
    BY <1>1, <1>7 DEF XType
  <2> QED BY <2>1
<1>9. PICK a, b, c, e : /\ a = ToState(HEADERS_RECEIVED) /\ b = Guard(seq) /\ c = ToState(LOADING)
                        /\ e = Call("body", n)
  OBVIOUS
<1>10. Easy(a) /\ Easy(b) /\ Easy(c)
  <2>1. HEADERS_RECEIVED \in Nat /\ LOADING \in Nat /\ "abort" \in EventTypes
    BY DEF HEADERS_RECEIVED, LOADING, EventTypes
  <2> QED BY <1>9, <2>1, EasySteps
<1>11. e \in Steps /\ Takes(e) /\ e.n = n
  <2>1. n \in Nat
    BY <1>7, XhrAssumption, FetchAssumption
  <2> QED BY <1>9, <2>1 DEF Call, Steps, Takes
<1>12. PICK pre : pre = <<a, b, c, b>>
  OBVIOUS
<1>13. Plain(pre)
  BY <1>10, <1>12, EasyIsPlain
<1>14. PICK steps : steps = <<a, b, c, b, e>>
  OBVIOUS
<1>15. steps = Append(pre, e)
  BY <1>10, <1>11, <1>12, <1>14 DEF Easy
<1>16. Alone(u, e)
  <2>1. u.x.script = w.x.script
    BY <1>3, <1>5 DEF Kept
  <2> QED BY <1>1, <1>11, <2>1 DEF Alone, Marks, Calls, Takes
<1>17. /\ n \in Flown(u.x) /\ u.f.told[u.x.flight[n].id] = "response"
       /\ ~Connecting(u.f, u.x.flight[n].id) /\ ~Reading(u.f, u.x.flight[n].id)
  <2>1. u.x.flight = w.x.flight /\ Flown(u.x) = Flown(w.x) /\ u.f = w.f
    BY <1>3, <1>5 DEF Kept, Flown
  <2> QED BY <1>1, <1>7, <2>1 DEF StepOk
<1>18. g = Push(u, steps)
  BY <1>6, <1>8, <1>9, <1>14 DEF Respond
<1>19. XInv(g)
  BY <1>5, <1>11, <1>13, <1>15, <1>16, <1>17, <1>18, BodyTaken
<1>20. Follows(w, u)
  <2>1. Aside(w.x, z) /\ z.script = w.x.script
    BY <1>1, <1>2 DEF XType, XKeys, Aside
  <2>2. EndsStay(w.f, u.f)
    BY <1>5, NoEnds
  <2> QED BY <1>1, <1>5, <2>1, <2>2, AsideFollows
<1>21. Mute(steps)
  <2>1. a \in Steps /\ b \in Steps /\ c \in Steps /\ e \in Steps
    BY <1>10, <1>11 DEF Easy
  <2>2. a.do # "event" /\ b.do # "event" /\ c.do # "event" /\ e.do # "event"
    BY <1>9 DEF ToState, Guard, Call
  <2> QED BY ONLY <1>14, <2>1, <2>2 DEF Mute
<1>22. Follows(u, g)
  <2>1. XPair(u) /\ XType(u.x)
    BY <1>5 DEF XInv, XhrInv
  <2> QED BY ONLY <1>18, <1>21, <2>1, MutePush
<1> QED BY <1>19, <1>20, <1>22 DEF Follows

\* One step: of the send() that was announced, the first one brings loadstart.
LEMMA ScriptStepDoes ==
  ASSUME NEW v, XInv(v), v.x.script # <<>>, NEW step, step = Head(v.x.script),
         NEW how, step.do = "fetch" => how \in Hows, NEW g, g = ScriptStep(v, step, how)
  PROVE  /\ XInv(g) /\ (Known(v) => Known(g))
         /\ Dispatches(step) => (Known(v) => Heard(g))
<1>1. PICK w : w = [v EXCEPT !.x.script = Tail(@)]
  OBVIOUS
<1>2. XInv(w) /\ w.f = v.f /\ step \in Steps /\ StepOk(w.f, w.x, step) /\ Alone(w, step)
  <2>1. /\ XInv(w) /\ w.f = v.f /\ step \in Steps /\ StepOk(w.f, w.x, step)
        /\ \A o \in 1 .. Len(w.x.script) : ~Marks(step, w.x.script[o])
    BY <1>1, TailDoes
  <2> QED BY <2>1 DEF Alone
<1>3. XPair(w) /\ XType(w.x)
  BY <1>2 DEF XInv, XhrInv
<1>4. Aside(v.x, w.x) /\ w.x.script = Tail(v.x.script) /\ w.x.hist = v.x.hist
  <2>1. v.x = [k \in XKeys |-> v.x[k]] /\ XPair(v)
    BY DEF XInv, XhrInv, XType
  <2>2. w.x = [v.x EXCEPT !.script = Tail(@)]
    BY <1>1, <2>1 DEF XPair
  <2> QED BY <2>1, <2>2 DEF XKeys, Aside
<1>5. step.do # "event" /\ Known(v) => Heard(w)
  <2> SUFFICES ASSUME step.do # "event", Known(v) PROVE Heard(w)
    OBVIOUS
  <2>1. PICK f, y, z : f = v.f /\ y = v.x /\ z = w.x
    OBVIOUS
  <2>2. /\ XType(y) /\ y.script # <<>> /\ Tale(f, y) /\ (Begun(y) \/ Fresh(y))
        /\ step = Head(y.script) /\ step.do # "event"
        /\ Aside(y, z) /\ z.script = Tail(y.script)
    BY <1>4, <2>1 DEF Known, XInv, XhrInv
  <2>3. Tale(f, z) /\ Begun(z)
    BY ONLY <2>2, TailTold
  <2> QED BY <1>2, <2>1, <2>3 DEF Heard
<1>6. step.do # "event" /\ Follows(w, g) => (Known(v) => Heard(g))
  BY <1>5 DEF Follows
<1>7. Heard(g) => Known(g)
  BY DEF Heard, Known
<1>8. step.do # "event" /\ Follows(w, g) /\ XInv(g) =>
         XInv(g) /\ (Known(v) => Known(g)) /\ (Dispatches(step) => (Known(v) => Heard(g)))
  BY <1>6, <1>7
<1>9. ASSUME NEW z, XType(z), Kept(w.x, z), Aside(w.x, z), g = SetX(w, z), step.do # "event"
       PROVE  XInv(g) /\ Follows(w, g)
  <2>1. XInv(g) /\ g.f = w.f /\ g.x = z
    BY ONLY <1>2, <1>9, KeptDoes
  <2>2. EndsStay(w.f, g.f) /\ Aside(w.x, g.x) /\ g.x.script \in {w.x.script, <<>>}
    BY <1>9, <2>1, NoEnds DEF Kept
  <2> QED BY <1>3, <2>1, <2>2, AsideFollows
<1>10. step.do \in {"state", "ifbody", "progress", "guard", "event", "fetch", "respond", "body",
                   "send", "unsend"}
  BY <1>2 DEF Steps
<1>11. CASE step.do = "state"
  <2>1. g = [w EXCEPT !.x.state = step.arg]
    BY <1>1, <1>11 DEF ScriptStep
  <2>2. PICK z : z = [w.x EXCEPT !.state = step.arg]
    OBVIOUS
  <2>3. XType(z) /\ Kept(w.x, z)
    BY <1>3, <2>2 DEF XType, XKeys, Kept
  <2>4. g = SetX(w, z)
    BY <1>3, <2>1, <2>2 DEF SetX, XPair, XType, XKeys
  <2>5. Aside(w.x, z)
    BY <1>3, <2>2 DEF XType, XKeys, Aside
  <2> QED BY <1>11, <1>8, <1>9, <2>3, <2>4, <2>5
<1>12. CASE step.do = "event"
  <2>1. g = [w EXCEPT !.x.hist[step.n] = Append(@, step.type)]
    BY <1>1, <1>12 DEF ScriptStep
  <2>2. PICK z : z = [w.x EXCEPT !.hist[step.n] = Append(@, step.type)]
    OBVIOUS
  <2>3. XType(z) /\ Kept(w.x, z)
    BY <1>3, <2>2 DEF XType, XKeys, Kept
  <2>4. g = SetX(w, z)
    BY <1>3, <2>1, <2>2 DEF SetX, XPair, XType, XKeys
  <2>5. XInv(g) /\ g.f = w.f /\ g.x = z
    BY ONLY <1>2, <2>3, <2>4, KeptDoes
  <2>6. Known(v) => Heard(g)
    <3> SUFFICES ASSUME Known(v) PROVE Heard(g)
      OBVIOUS
    <3>1. PICK f, y, d, type : f = v.f /\ y = v.x /\ d = step.n /\ type = step.type
      OBVIOUS
    <3>2. /\ XType(y) /\ y.script # <<>> /\ Tale(f, y) /\ (Begun(y) \/ Fresh(y))
          /\ step = Head(y.script)
      BY <3>1 DEF Known, XInv, XhrInv
    <3>3. /\ z.hist = [w.x.hist EXCEPT ![d] = Append(@, type)]
          /\ z.n = w.x.n /\ z.flight = w.x.flight /\ z.seq = w.x.seq /\ z.send = w.x.send
          /\ z.controller = w.x.controller /\ z.aborted = w.x.aborted /\ z.armed = w.x.armed
          /\ z.script = w.x.script
      BY <1>3, <2>2, <3>1 DEF XType, XKeys
    <3>4. EventHad(y, z, d, type)
      BY <1>4, <3>1, <3>3 DEF Aside, EventHad
    <3>5. step \in Steps /\ step.do = "event" /\ d = step.n /\ type = step.type
      BY <1>2, <1>12, <3>1
    <3>6. Tale(f, z) /\ Begun(z)
      BY ONLY <3>2, <3>4, <3>5, EventTold
    <3> QED BY <1>2, <2>5, <3>1, <3>6 DEF Heard
  <2> QED BY <1>7, <2>5, <2>6
<1>13. CASE step.do = "progress"
  <2>1. g = w
    BY <1>1, <1>13 DEF ScriptStep
  <2> QED BY <1>2, <1>13, <1>8, <2>1 DEF Follows
<1>14. CASE step.do = "ifbody"
  <2>1. PICK m \in Nat : m = step.arg
    BY <1>2, <1>14 DEF Steps
  <2>2. PICK steps : steps = [i \in 1 .. m |-> Progress]
    OBVIOUS
  <2>3. g = w \/ g = Push(w, steps)
    BY <1>1, <1>14, <2>1, <2>2 DEF ScriptStep
  <2>4. Plain(steps)
    <3>1. PICK a : a = Progress
      OBVIOUS
    <3>2. Easy(a)
      <4>1. 0 \in Nat /\ "abort" \in EventTypes
        BY DEF EventTypes
      <4> QED BY <3>1, <4>1, EasySteps
    <3>3. a \in Steps /\ ~Calls(a) /\ ~Takes(a)
      BY <3>2 DEF Easy
    <3>4. steps \in Seq(Steps) /\ Len(steps) = m /\ \A p \in 1 .. m : steps[p] = a
      BY <2>2, <3>1, <3>3
    <3> QED BY <3>3, <3>4 DEF Plain
  <2>5. Mute(steps)
    <3>1. \A p \in 1 .. Len(steps) : steps[p].do # "event"
      BY <2>1, <2>2 DEF Progress
    <3> QED BY <2>4, <3>1 DEF Plain, Mute
  <2>6. g = Push(w, steps) => Follows(w, g)
    BY <1>3, <2>5, MutePush
  <2>7. Follows(w, g) /\ XInv(g)
    BY <1>2, <2>3, <2>4, <2>6, PlainDoes DEF Follows
  <2> QED BY <1>14, <1>8, <2>7
<1>15. CASE step.do = "guard"
  <2>1. g = w \/ g = [w EXCEPT !.x.script = <<>>]
    BY <1>1, <1>15 DEF ScriptStep
  <2>2. CASE g = w
    BY <1>2, <1>15, <1>8, <2>2 DEF Follows
  <2>3. CASE g = [w EXCEPT !.x.script = <<>>]
    <3>1. PICK z : z = [w.x EXCEPT !.script = <<>>]
      OBVIOUS
    <3>2. /\ z = [k \in XKeys |-> z[k]] /\ z.seq = w.x.seq /\ z.n = w.x.n /\ z.flight = w.x.flight
          /\ z.script = <<>> /\ z.frame = w.x.frame /\ z.controller = w.x.controller
      BY <1>3, <3>1 DEF XType, XKeys
    <3>3. XType(z)
      <4>1. <<>> \in Seq(Steps)
        OBVIOUS
      <4> QED BY <1>3, <3>2, <4>1 DEF XType
    <3>4. Beside(w.x, z)
      BY <1>3, <3>2, BesideIf
    <3>5. g = SetX(w, z)
      BY <1>3, <2>3, <3>1 DEF SetX, XPair
    <3>6. XInv(g) /\ g.f = w.f /\ g.x = z
      BY <1>2, <3>3, <3>4, <3>5, BesideDoes
    <3>7. Aside(w.x, z)
      BY <1>3, <3>1 DEF XType, XKeys, Aside
    <3>8. EndsStay(w.f, g.f) /\ Aside(w.x, g.x) /\ g.x.script \in {w.x.script, <<>>}
      BY <3>2, <3>6, <3>7, NoEnds
    <3>9. Follows(w, g)
      BY <1>3, <3>8, AsideFollows
    <3> QED BY <1>15, <1>8, <3>6, <3>9
  <2> QED BY <2>1, <2>2, <2>3
<1>16. CASE step.do = "fetch"
  <2>1. g = CallFetch(w, step.n, how)
    BY <1>1, <1>16 DEF ScriptStep
  <2>2. Calls(step)
    BY <1>16 DEF Calls
  <2>3. XInv(g) /\ Follows(w, g)
    BY <1>2, <1>16, <2>1, <2>2, CallFetchDoes
  <2> QED BY <1>16, <1>8, <2>3
<1>17. CASE step.do = "respond"
  <2>1. g = Respond(w, step.n)
    BY <1>1, <1>17 DEF ScriptStep
  <2>2. XInv(g) /\ Follows(w, g)
    BY <1>2, <1>17, <2>1, RespondDoes
  <2> QED BY <1>17, <1>8, <2>2
<1>18. CASE step.do = "body"
  <2>1. g = [w EXCEPT !.f = ReadBody(@, w.x.flight[step.n].id)]
    BY <1>1, <1>18 DEF ScriptStep
  <2>2. Takes(step)
    BY <1>18 DEF Takes
  <2>3. XInv(g) /\ Follows(w, g)
    BY <1>2, <2>1, <2>2, TakeDoes
  <2> QED BY <1>18, <1>8, <2>3
<1>19. CASE step.do = "send"
  <2>1. g = w \/ (w.x.n < MaxSends /\ g = Send(w, FALSE))
    BY <1>1, <1>19 DEF ScriptStep
  <2>2. XInv(g) /\ (Heard(w) => Known(g))
    BY <1>2, <1>7, <2>1, SendDoes
  <2>3. step.do # "event" /\ ~Dispatches(step)
    BY <1>19 DEF Dispatches
  <2> QED BY <1>5, <2>2, <2>3
<1>20. CASE step.do = "unsend"
  <2>1. g = w \/ g = [w EXCEPT !.x.state = UNSENT]
    BY <1>1, <1>20 DEF ScriptStep
  <2>2. CASE g = [w EXCEPT !.x.state = UNSENT]
    <3>1. PICK z : z = [w.x EXCEPT !.state = UNSENT]
      OBVIOUS
    <3>2. XType(z) /\ Kept(w.x, z)
      BY <1>3, <3>1 DEF XType, XKeys, Kept
    <3>3. g = SetX(w, z)
      BY <1>3, <2>2, <3>1 DEF SetX, XPair, XType, XKeys
    <3>4. Aside(w.x, z)
      BY <1>3, <3>1 DEF XType, XKeys, Aside
    <3> QED BY <1>20, <1>8, <1>9, <3>2, <3>3, <3>4
  <2>3. CASE g = w
    BY <1>2, <1>20, <1>8, <2>3 DEF Follows
  <2> QED BY <2>1, <2>2, <2>3
<1> QED BY <1>10, <1>11, <1>12, <1>13, <1>14, <1>15, <1>16, <1>17, <1>18, <1>19, <1>20

-------------------------------------------------------------------------------
(* What a send() waited for.                                                       *)

LEMMA ThrewQueued ==
  ASSUME NEW f, FetchInv(f), NEW id \in Ids, id < f.next,
         NEW h, h = Queue(f, FetchJob("threw", id, FALSE, 0))
  PROVE  Goes(f, h)
<1>1. IsFetch(f) /\ Once(f.jobs) /\ f = [k \in Fields |-> f[k]] /\ f.jobs \in Seq(Jobs)
  BY DEF FetchInv, Sound, IsFetch
<1>2. PICK e : e = FetchJob("threw", id, FALSE, 0)
  OBVIOUS
<1>3. e \in Jobs /\ e.on = "threw" /\ e.id = id
  BY <1>2 DEF FetchJob, Jobs
<1>4. PICK js : js = f.jobs
  OBVIOUS
<1>5. js \in Seq(Jobs) /\ Once(js)
  BY <1>1, <1>4
<1>6. PICK ks : ks = Append(js, e)
  OBVIOUS
<1>7. ks \in Seq(Jobs) /\ Once(ks) /\ \A d : d # -id => Of(ks, d) = Of(js, d)
  BY <1>3, <1>5, <1>6, ThrewAppended
<1>8. h = [f EXCEPT !.jobs = ks]
  BY <1>2, <1>4, <1>6 DEF Queue
<1>9. /\ h.req = f.req /\ h.pending = f.pending /\ h.localPending = f.localPending
      /\ h.end = f.end /\ h.next = f.next /\ h.body = f.body /\ h.jobs = ks
      /\ h.told = f.told /\ h.sent = f.sent /\ h = [k \in Fields |-> h[k]]
  BY <1>1, <1>8 DEF Fields
<1>10. IsFetch(h)
  BY <1>1, <1>7, <1>9 DEF IsFetch
<1>11. ASSUME NEW d \in Ids PROVE Same(f, h, d)
  <2>1. d # -id /\ (d # id => -d # -id)
    BY FetchAssumption DEF Ids
  <2>2. Of(ks, d) = Of(js, d)
    BY <1>7, <2>1
  <2>3. d # id => Of(ks, -d) = Of(js, -d)
    BY <1>7, <2>1
  <2>4. d < f.next \/ Of(ks, -d) = Of(js, -d)
    BY <2>3
  <2>5. h.jobs = ks /\ f.jobs = js
    BY <1>4, <1>9
  <2> QED BY <1>9, <2>2, <2>4, <2>5 DEF Same, Live, Streaming
<1>12. f.next \in Nat /\ Injective(f.pending)
       /\ \A d \in Ids : Core(f, d) /\ Prompt(f, d) /\ Calm(f, d)
  BY ONLY FetchInv(f), InvAt
<1>13. \A d \in Ids : Core(h, d) /\ Prompt(h, d) /\ Calm(h, d) /\ KeepsWaiting(f, h, d)
  BY <1>9, <1>11, <1>12, CoreSame DEF KeepsWaiting
<1>14. Parked(h)
  BY <1>9 DEF FetchInv, Parked, Live
<1>15. Sound(h)
  BY <1>7, <1>9, <1>10, <1>12, <1>13 DEF Sound
<1> QED BY <1>9, <1>13, <1>14, <1>15 DEF Goes, FetchInv

LEMMA ThrowDoes ==
  ASSUME NEW w, XInv(w), NEW abortError \in BOOLEAN, NEW g, g = Throw(w, abortError)
  PROVE  XInv(g) /\ Follows(w, g)
<1>1. XPair(w) /\ XType(w.x) /\ Flights(w.f, w.x)
  BY DEF XInv, XhrInv
<1>2. PICK z : z = [w.x EXCEPT !.script = <<>>, !.frame = 0]
  OBVIOUS
<1>3. /\ z = [k \in XKeys |-> z[k]] /\ z.seq = w.x.seq /\ z.n = w.x.n /\ z.flight = w.x.flight
      /\ z.script = <<>> /\ z.frame = 0 /\ z.controller = w.x.controller
  BY <1>1, <1>2 DEF XType, XKeys
<1>4. XType(z)
  <2>1. <<>> \in Seq(Steps) /\ 0 \in 0 .. MaxSends
    BY XhrAssumption, FetchAssumption
  <2> QED BY <1>1, <1>3, <2>1 DEF XType
<1>5. Beside(w.x, z)
  BY <1>1, <1>3, BesideIf
<1>6. PICK v : v = SetX(w, z)
  OBVIOUS
<1>7. XInv(v) /\ v.f = w.f /\ v.x = z
  BY <1>4, <1>5, <1>6, BesideDoes
<1>8. [w EXCEPT !.x.script = <<>>, !.x.frame = 0] = v
  BY <1>1, <1>2, <1>6 DEF SetX, XPair, XType, XKeys
<1>9. Aside(w.x, z)
  BY <1>1, <1>2 DEF XType, XKeys, Aside
<1>10. ASSUME EndsStay(w.f, g.f), g.x = z PROVE Follows(w, g)
  BY <1>1, <1>3, <1>9, <1>10, AsideFollows
<1>11. CASE w.x.frame = 0 \/ abortError
  BY <1>7, <1>8, <1>10, <1>11, NoEnds DEF Throw
<1>12. CASE ~(w.x.frame = 0 \/ abortError)
  <2>1. PICK n \in Flown(w.x) : n = w.x.frame
    BY <1>1, <1>12 DEF Flights
  <2>2. PICK id \in Ids : id = w.x.flight[n].id
    BY <1>1, FlownIds
  <2>3. PICK h : h = Queue(v.f, FetchJob("threw", id, FALSE, 0))
    OBVIOUS
  <2>4. Goes(v.f, h)
    <3>1. PICK f : f = v.f
      OBVIOUS
    <3>2. FetchInv(f)
      BY <1>7, <3>1 DEF XInv, XhrInv
    <3>3. id < f.next
      BY <1>1, <1>7, <2>1, <2>2, <3>1 DEF Flights, Flown
    <3>4. Goes(f, h)
      BY <2>3, <3>1, <3>2, <3>3, ThrewQueued
    <3> QED BY <3>1, <3>4
  <2>5. g = [v EXCEPT !.f = h]
    BY <1>8, <1>12, <2>1, <2>2, <2>3 DEF Throw
  <2>6. XPair(v) /\ g.f = h /\ g.x = z
    BY <1>7, <2>5 DEF XInv, XPair
  <2>7. EndsStay(w.f, g.f)
    BY <1>7, <2>4, <2>6, GoesEnds
  <2> QED BY <1>7, <1>10, <2>4, <2>5, <2>6, <2>7, GoesDoes DEF Stays
<1> QED BY <1>11, <1>12

\* The seq of the object is that of the send() in flight.
LEMMA CurrentFlies ==
  ASSUME NEW w, XType(w.x), Heard(w), NEW n \in 1 .. w.x.n, w.x.flight[n].seq = w.x.seq
  PROVE  /\ w.x.send /\ n = w.x.n /\ n \notin w.x.aborted
         /\ Len(w.x.hist[n]) = 1 /\ Silent(w.x.script, n)
<1>1. Dated(w.x) /\ Begun(w.x)
  BY DEF Heard, Tale
<1>2. w.x.send /\ n = w.x.n
  BY <1>1 DEF Dated
<1>3. n \notin w.x.aborted
  <2> SUFFICES ASSUME n \in w.x.aborted PROVE FALSE
    OBVIOUS
  <2>1. w.x.flight[n].seq < w.x.seq
    BY <1>1 DEF Dated
  <2>2. w.x.seq \in Nat
    BY DEF XType
  <2> QED BY <2>1, <2>2
<1> QED BY <1>1, <1>2, <1>3 DEF Begun

LEMMA DisarmedTold ==
  ASSUME NEW w, XType(w.x), NEW g, g.f = w.f, NEW z, g.x = z,
         z.hist = w.x.hist, z.n = w.x.n, z.seq = w.x.seq, z.send = w.x.send,
         z.script = w.x.script, z.controller = w.x.controller, z.aborted = w.x.aborted,
         z.flight = w.x.flight, z.armed \subseteq w.x.armed
  PROVE  Follows(w, g)
<1> SUFFICES ASSUME Tale(w.f, w.x), Begun(w.x) PROVE Tale(w.f, z) /\ Begun(z)
  BY DEF Follows, Heard
<1>1. ASSUME NEW n \in 1 .. MaxSends PROVE TaleAt(w.f, z, n)
  <2>1. TaleAt(w.f, w.x, n)
    BY DEF Tale
  <2>2. Loads(z, n) => Loads(w.x, n)
    BY DEF Loads
  <2>3. MayLoad(w.f, w.x, n) => MayLoad(w.f, z, n)
    BY DEF MayLoad
  <2> QED BY <2>1, <2>2, <2>3 DEF TaleAt
<1>2. Dated(z)
  BY DEF Tale, Dated
<1> QED BY <1>1, <1>2 DEF Tale, Begun

LEMMA TimedOutDoes ==
  ASSUME NEW w, XInv(w), NEW seq, NEW g, g = TimedOut(w, seq)
  PROVE  XInv(g) /\ (seq \in w.x.armed => Follows(w, g))
<1>1. XPair(w) /\ XType(w.x)
  BY DEF XInv, XhrInv
<1>2. PICK z : z = [w.x EXCEPT !.armed = @ \ {seq}, !.timer = 0]
  OBVIOUS
<1>3. XType(z) /\ Kept(w.x, z)
  BY <1>1, <1>2 DEF XType, XKeys, Kept
<1>4. PICK v : v = SetX(w, z)
  OBVIOUS
<1>5. XInv(v)
  BY <1>3, <1>4, KeptDoes
<1>6. [w EXCEPT !.x.armed = @ \ {seq}, !.x.timer = 0] = v
  BY <1>1, <1>2, <1>4 DEF SetX, XPair, XType, XKeys
<1>7. PICK type \in EventTypes : type = "timeout"
  BY DEF EventTypes
<1>8. g = v \/ (v.x.seq = seq /\ g = RequestError(v, type))
  <2>1. v.x = z
    BY <1>3, <1>4, KeptDoes
  <2>2. z.seq = w.x.seq
    BY <1>1, <1>2 DEF XType, XKeys
  <2> QED BY <1>6, <1>7, <2>1, <2>2 DEF TimedOut
<1>9. Follows(w, v)
  <2>1. v.f = w.f /\ v.x = z
    BY <1>3, <1>4, KeptDoes
  <2>2. /\ z.hist = w.x.hist /\ z.n = w.x.n /\ z.seq = w.x.seq /\ z.send = w.x.send
        /\ z.script = w.x.script /\ z.controller = w.x.controller /\ z.aborted = w.x.aborted
        /\ z.flight = w.x.flight /\ z.armed \subseteq w.x.armed
    BY <1>1, <1>2 DEF XType, XKeys
  <2> QED BY ONLY <1>1, <2>1, <2>2, DisarmedTold
<1>10. ASSUME seq \in w.x.armed, v.x.seq = seq, Heard(w), g = RequestError(v, type) PROVE Heard(g)
  <2>1. v.x.seq = w.x.seq /\ v.x.send = w.x.send
    <3>1. v.x = z
      BY <1>3, <1>4, KeptDoes
    <3>2. z.seq = w.x.seq /\ z.send = w.x.send
      BY <1>1, <1>2 DEF XType, XKeys
    <3> QED BY <3>1, <3>2
  <2>2. PICK n \in 1 .. w.x.n : w.x.flight[n].seq = seq
    BY <1>10 DEF Heard, Tale, Dated
  <2>3. v.x.send
    BY <1>1, <1>10, <2>1, <2>2, CurrentFlies
  <2>4. Follows(v, g)
    BY <1>5, <1>7, <1>10, <2>3, RequestErrorDoes
  <2> QED BY <1>9, <1>10, <2>4 DEF Follows
<1> QED BY <1>5, <1>8, <1>9, <1>10, RequestErrorDoes DEF Stays, Follows

LEMMA RejectedDoes ==
  ASSUME NEW w, XInv(w), NEW n, NEW aborted, NEW g, g = Rejected(w, n, aborted)
  PROVE  XInv(g) /\ (n \in 1 .. w.x.n => Follows(w, g))
<1>1. PICK type \in EventTypes : type = "error"
  BY DEF EventTypes
<1>2. g = w \/ (w.x.flight[n].seq = w.x.seq /\ g = RequestError(w, type))
  BY <1>1 DEF Rejected, Current
<1>3. CASE g = w
  BY <1>3 DEF Follows
<1>4. CASE w.x.flight[n].seq = w.x.seq /\ g = RequestError(w, type)
  <2>1. Stays(w, g) /\ (w.x.send => Follows(w, g))
    BY <1>1, <1>4, RequestErrorDoes
  <2>2. n \in 1 .. w.x.n /\ Heard(w) => w.x.send
    BY <1>4, CurrentFlies DEF XInv, XhrInv
  <2> QED BY <2>1, <2>2 DEF Stays, Follows
<1> QED BY <1>2, <1>3, <1>4

LEMMA FetchedDoes ==
  ASSUME NEW w, XInv(w), w.x.script = <<>>, NEW n \in Flown(w.x),
         w.f.told[w.x.flight[n].id] = "response",
         ~Connecting(w.f, w.x.flight[n].id), ~Reading(w.f, w.x.flight[n].id),
         NEW g, g = Fetched(w, n)
  PROVE  XInv(g) /\ Follows(w, g)
<1>1. XPair(w) /\ XType(w.x)
  BY DEF XInv, XhrInv
<1>2. PICK z : z = [w.x EXCEPT !.frame = n]
  OBVIOUS
<1>3. /\ z = [k \in XKeys |-> z[k]] /\ z.seq = w.x.seq /\ z.n = w.x.n /\ z.flight = w.x.flight
      /\ z.script = w.x.script /\ z.frame = n /\ z.controller = w.x.controller
  BY <1>1, <1>2 DEF XType, XKeys
<1>4. n \in 1 .. MaxSends /\ n \in 0 .. MaxSends /\ n \in Nat
  BY XhrAssumption, FetchAssumption DEF Flown
<1>5. XType(z)
  BY <1>1, <1>3, <1>4 DEF XType
<1>6. Beside(w.x, z)
  BY <1>1, <1>3, BesideIf
<1>7. PICK v : v = SetX(w, z)
  OBVIOUS
<1>8. XInv(v) /\ v.f = w.f /\ v.x = z /\ Flown(z) = Flown(w.x)
  BY <1>5, <1>6, <1>7, BesideDoes
<1>9. [w EXCEPT !.x.frame = n] = v
  BY <1>1, <1>2, <1>7 DEF SetX, XPair, XType, XKeys
<1>10. PICK a, e : a = IfBody(3) /\ e = Call("respond", n)
  OBVIOUS
<1>11. Easy(a)
  <2>1. 3 \in Nat /\ "abort" \in EventTypes
    BY DEF EventTypes
  <2> QED BY <1>10, <2>1, EasySteps
<1>12. e \in Steps /\ Takes(e) /\ e.n = n
  BY <1>4, <1>10 DEF Call, Steps, Takes
<1>13. PICK pre : pre = <<a>>
  OBVIOUS
<1>14. Plain(pre)
  BY <1>11, <1>13, EasyIsPlain
<1>15. PICK steps : steps = <<a, e>>
  OBVIOUS
<1>16. steps = Append(pre, e)
  BY <1>11, <1>12, <1>13, <1>15 DEF Easy
<1>17. Alone(v, e)
  BY <1>3, <1>8 DEF Alone
<1>18. /\ n \in Flown(v.x) /\ v.f.told[v.x.flight[n].id] = "response"
       /\ ~Connecting(v.f, v.x.flight[n].id) /\ ~Reading(v.f, v.x.flight[n].id)
  BY <1>3, <1>8
<1>19. g = w \/ g = Push(v, steps)
  BY <1>9, <1>10, <1>15 DEF Fetched
<1>20. XInv(g)
  BY <1>8, <1>12, <1>14, <1>16, <1>17, <1>18, <1>19, BodyTaken
<1>21. Follows(w, v)
  <2>1. Aside(w.x, z)
    BY <1>1, <1>2 DEF XType, XKeys, Aside
  <2>2. EndsStay(w.f, v.f) /\ Aside(w.x, v.x) /\ v.x.script \in {w.x.script, <<>>}
    BY <1>3, <1>8, <2>1, NoEnds
  <2> QED BY <1>1, <2>2, AsideFollows
<1>22. Mute(steps)
  <2>1. a \in Steps /\ e \in Steps /\ a.do # "event" /\ e.do # "event"
    BY <1>10, <1>11, <1>12 DEF Easy, IfBody, Call
  <2> QED BY ONLY <1>15, <2>1 DEF Mute
<1>23. g = Push(v, steps) => Follows(v, g)
  <2>1. XPair(v) /\ XType(v.x)
    BY <1>8 DEF XInv, XhrInv
  <2> QED BY <1>22, <2>1, MutePush
<1> QED BY <1>19, <1>20, <1>21, <1>23 DEF Follows

LEMMA BodyReadDoes ==
  ASSUME NEW w, XInv(w), NEW n \in Flown(w.x), NEW g, g = BodyRead(w, n)
  PROVE  /\ XInv(g)
         /\ n \in 1 .. w.x.n /\ w.f.end[w.x.flight[n].id] \notin {"running", "denied"}
              => Follows(w, g)
<1>1. XPair(w) /\ XType(w.x)
  BY DEF XInv, XhrInv
<1>2. PICK y : y = [w.x EXCEPT !.armed = @ \ {w.x.timer}, !.timer = 0]
  OBVIOUS
<1>3. /\ y = [k \in XKeys |-> y[k]] /\ y.seq = w.x.seq /\ y.n = w.x.n /\ y.flight = w.x.flight
      /\ y.script = w.x.script /\ y.controller = w.x.controller
  BY <1>1, <1>2 DEF XType, XKeys
<1>4. PICK u : u = SetX(w, y)
  OBVIOUS
<1>5. XPair(u) /\ u.f = w.f /\ u.x = y
  BY <1>1, <1>4, SetXIs
<1>6. ClearTimer(w) = u
  BY <1>1, <1>2, <1>4 DEF ClearTimer, SetX, XPair, XType, XKeys
<1>7. PICK z : z = [y EXCEPT !.seq = @ + 1, !.controller = 0, !.send = FALSE, !.frame = n]
  OBVIOUS
<1>8. /\ z = [k \in XKeys |-> z[k]] /\ z.seq = w.x.seq + 1 /\ z.n = w.x.n /\ z.flight = w.x.flight
      /\ z.script = w.x.script /\ z.frame = n /\ z.controller = 0
  BY <1>3, <1>7 DEF XKeys
<1>9. n \in 1 .. MaxSends /\ n \in 0 .. MaxSends /\ 0 \in 0 .. MaxSends /\ n \in Nat
  BY XhrAssumption, FetchAssumption DEF Flown
<1>10. XType(z)
  <2>1. z.seq \in Nat
    BY <1>1, <1>8 DEF XType
  <2> QED BY <1>1, <1>8, <1>9, <2>1 DEF XType
<1>11. Beside(w.x, z)
  <2>1. w.x.n \in Int /\ z.n >= w.x.n
    <3>1. w.x.n \in 0 .. MaxSends /\ MaxSends \in Int
      BY <1>1, XhrAssumption, FetchAssumption DEF XType
    <3> QED BY <1>8, <3>1
  <2> QED BY <1>8, <2>1 DEF Beside
<1>12. PICK v : v = SetX(w, z)
  OBVIOUS
<1>13. XInv(v)
  BY <1>10, <1>11, <1>12, BesideDoes
<1>14. [u EXCEPT !.x.seq = @ + 1, !.x.controller = 0, !.x.send = FALSE, !.x.frame = n] = v
  BY <1>1, <1>3, <1>4, <1>5, <1>7, <1>12 DEF SetX, XPair, XKeys
<1>15. PICK a, p, b, c : /\ a = ToState(DONE) /\ p = Progress /\ b = Event("load", n)
                       /\ c = Event("loadend", n)
  OBVIOUS
<1>16. Easy(a) /\ Easy(p) /\ Easy(b) /\ Easy(c)
  <2>1. DONE \in Nat /\ "load" \in EventTypes /\ "loadend" \in EventTypes
    BY DEF DONE, EventTypes
  <2> QED BY <1>9, <1>15, <2>1, EasySteps
<1>17. PICK steps : steps = <<a, p, b, c>>
  OBVIOUS
<1>18. Plain(steps)
  BY <1>16, <1>17, EasyIsPlain
<1>19. g = w \/ (w.x.flight[n].seq = w.x.seq /\ g = Push(v, steps))
  BY <1>6, <1>14, <1>15, <1>17 DEF BodyRead, Current
<1>20. XInv(g)
  BY <1>13, <1>18, <1>19, PlainDoes
<1>21. ASSUME n \in 1 .. w.x.n, w.f.end[w.x.flight[n].id] \notin {"running", "denied"}, Heard(w),
              w.x.flight[n].seq = w.x.seq, g = Push(v, steps)
       PROVE  Heard(g)
  <2>1. /\ n = w.x.n /\ n \notin w.x.aborted /\ Len(w.x.hist[n]) = 1 /\ Silent(w.x.script, n)
    BY ONLY <1>1, <1>21, CurrentFlies
  <2>2. v.f = w.f /\ v.x = z /\ XPair(v) /\ XType(z)
    BY <1>1, <1>10, <1>12, SetXIs
  <2>3. Later(w.x, z) /\ z.aborted = w.x.aborted /\ z.send = FALSE /\ z.hist = w.x.hist
    <3>1. /\ y.hist = w.x.hist /\ y.aborted = w.x.aborted /\ y.armed \subseteq w.x.armed
      BY <1>1, <1>2 DEF XType, XKeys
    <3>2. /\ z.hist = y.hist /\ z.aborted = y.aborted /\ z.armed = y.armed /\ z.send = FALSE
      BY <1>3, <1>7 DEF XKeys
    <3> QED BY <1>8, <3>1, <3>2 DEF Later
  <2>4. Heard(v)
    <3>1. EndsStay(w.f, v.f) /\ XType(w.x) /\ Tale(w.f, w.x) /\ Begun(w.x)
      BY <1>1, <1>21, <2>2, NoEnds DEF Heard
    <3>2. Later(w.x, v.x)
      BY <2>2, <2>3
    <3>3. Tale(v.f, v.x) /\ (Begun(w.x) => Begun(v.x))
      BY ONLY <3>1, <3>2, LaterTale
    <3> QED BY <3>1, <3>3 DEF Heard
  <2>5. /\ n \in 1 .. v.x.n /\ Len(v.x.hist[n]) = 1 /\ Silent(v.x.script, n) /\ ~v.x.send
    BY <1>8, <1>21, <2>1, <2>2, <2>3
  <2>6. MayLoad(v.f, v.x, n)
    <3>1. w.x.flight[n].id # 0 /\ n # 0
      BY <1>9 DEF Flown
    <3> QED BY <1>8, <1>21, <2>1, <2>2, <2>3, <3>1 DEF MayLoad
  <2>7. PICK type \in EventTypes : type = "load"
    BY DEF EventTypes
  <2>8. Rank(type) = 2
    BY <2>7 DEF Rank
  <2>9. /\ steps \in Seq(Steps) /\ Len(steps) = 4
        /\ steps[1] = a /\ steps[2] = p /\ steps[3] = b /\ steps[4] = c
    <3>1. a \in Steps /\ p \in Steps /\ b \in Steps /\ c \in Steps
      BY <1>16 DEF Easy
    <3> QED BY ONLY <1>17, <3>1
  <2>10. /\ 3 \in 1 .. Len(steps) /\ 3 + 1 \in 1 .. Len(steps)
         /\ \A q \in 1 .. Len(steps) : q \in {3, 3 + 1} \/ q = 1 \/ q = 2
    BY <2>9
  <2>11. /\ steps[3] = Event(type, n) /\ steps[3 + 1] = Event("loadend", n)
         /\ a.do # "event" /\ p.do # "event"
    BY <1>15, <2>7, <2>9 DEF ToState, Progress
  <2>12. \A q \in 1 .. Len(steps) : q \in {3, 3 + 1} \/ steps[q].do # "event"
    BY <2>9, <2>10, <2>11
  <2>13. XPair(v) /\ XType(v.x)
    BY <2>2
  <2>14. PICK m : m = 3
    OBVIOUS
  <2>15. /\ m \in 1 .. Len(steps) /\ m + 1 \in 1 .. Len(steps)
         /\ steps[m] = Event(type, n) /\ steps[m + 1] = Event("loadend", n)
         /\ \A q \in 1 .. Len(steps) : q \in {m, m + 1} \/ steps[q].do # "event"
    BY <2>10, <2>11, <2>12, <2>14
  <2>16. type = "load" => MayLoad(v.f, v.x, n)
    BY <2>6
  <2>17. steps \in Seq(Steps)
    BY <2>9
  <2>18. g = Push(v, steps)
    BY <1>21
  <2>19. Follows(v, g)
    BY ONLY <2>5, type \in EventTypes, <2>8, <2>13, <2>15, <2>16, <2>17, <2>18, OutcomePush
  <2> QED BY <2>4, <2>19 DEF Follows
<1> QED BY <1>19, <1>20, <1>21 DEF Follows

-------------------------------------------------------------------------------
(* The three programs over fetch, and what holds between their steps.              *)

\* No send() was ever made.
Asleep(y) == y.script = <<>> /\ \A n \in 1 .. MaxSends : y.hist[n] = <<>>

\* The program k over the fetch state f: an XMLHttpRequest y or an EventSource s is bound
\* to it, when it is the one that is there.
Kinds(k, f, y, s) ==
  /\ k \in {"program", "xhr", "eventsource"} /\ FetchInv(f)
  /\ k # "eventsource" => s.seen = <<>>
  /\ k = "eventsource" => EsInv(f, s)
  /\ k # "xhr" => Asleep(y)
  /\ k = "xhr" => XhrInv(f, y) /\ Tale(f, y) /\ (Begun(y) \/ Fresh(y))

IInv == Kinds(who, net, x, es)

\* Between scripts, no loadstart is due.
LEMMA AtRest ==
  ASSUME NEW y, y.script = <<>>, Begun(y) \/ Fresh(y)
  PROVE  Begun(y)
BY DEF Fresh

LEMMA FlownSent ==
  ASSUME NEW f, NEW y, XhrInv(f, y), NEW n \in Flown(y)
  PROVE  n \in 1 .. y.n
<1>1. n \in 1 .. MaxSends /\ y.flight[n].id # 0 /\ y.n \in 0 .. MaxSends /\ MaxSends \in Nat
  BY XhrAssumption, FetchAssumption DEF Flown, XhrInv, XType
<1>2. n > y.n => y.flight[n].id = 0
  BY <1>1 DEF XhrInv, Flights
<1> QED BY <1>1, <1>2

LEMMA KindsUntouched ==
  ASSUME NEW k, NEW f, NEW y, NEW s, Kinds(k, f, y, s), y.script = <<>>,
         NEW g, FetchInv(g), g.next = f.next, EndsStay(f, g),
         k = "eventsource" => \A d \in Ids : KeepsWaiting(f, g, d)
  PROVE  Kinds(k, g, y, s)
<1>1. CASE k = "eventsource"
  <2>1. EsInv(f, s) /\ \A d \in Ids : KeepsWaiting(f, g, d)
    BY <1>1 DEF Kinds
  <2>2. EsInv(g, s)
    BY ONLY <2>1, FetchInv(g), g.next = f.next, EsUntouched
  <2> QED BY <1>1, <2>2 DEF Kinds
<1>2. CASE k = "xhr"
  <2>1. XhrInv(f, y)
    BY <1>2 DEF Kinds
  <2>2. XhrInv(g, y)
    BY ONLY <2>1, y.script = <<>>, FetchInv(g), g.next = f.next, XhrUntouched
  <2>3. Tale(f, y) /\ Begun(y) /\ XType(y)
    BY <1>2, AtRest DEF Kinds, XhrInv
  <2>4. Tale(g, y) /\ Begun(y)
    BY ONLY <2>3, EndsStay(f, g), SameTold
  <2> QED BY <1>2, <2>2, <2>4 DEF Kinds
<1>3. CASE k = "program"
  BY <1>3 DEF Kinds
<1> QED BY <1>1, <1>2, <1>3 DEF Kinds

LEMMA KindsGo ==
  ASSUME NEW k, NEW f, NEW y, NEW s, Kinds(k, f, y, s), y.script = <<>>, NEW g, Goes(f, g)
  PROVE  Kinds(k, g, y, s)
<1>1. FetchInv(g) /\ g.next = f.next /\ (\A d \in Ids : KeepsWaiting(f, g, d)) /\ EndsStay(f, g)
  BY GoesEnds DEF Goes
<1> QED BY <1>1, KindsUntouched

LEMMA PairsOf ==
  ASSUME NEW f, NEW y, NEW s
  PROVE  /\ XPair([f |-> f, x |-> y])
         /\ [f |-> f, x |-> y].f = f /\ [f |-> f, x |-> y].x = y
         /\ EsType(s) => Pair([f |-> f, es |-> s])
         /\ [f |-> f, es |-> s].f = f /\ [f |-> f, es |-> s].es = s
BY DEF XPair, Pair

LEMMA XhrKind ==
  ASSUME NEW s, s.seen = <<>>, NEW w, XInv(w), Known(w)
  PROVE  Kinds("xhr", w.f, w.x, s)
BY DEF Kinds, XInv, XhrInv, Known

LEMMA EsKind ==
  ASSUME NEW y, Asleep(y), NEW w, EsInv(w.f, w.es)
  PROVE  Kinds("eventsource", w.f, y, w.es)
BY DEF Kinds, EsInv

Flew(y, id) == \E n \in Flown(y) : y.flight[n].id = id

\* A promise of fetch() or of a read is settled for the request of a send().
LEMMA SettledSend ==
  ASSUME NEW f, NEW y, XhrInv(f, y), y.script = <<>>, f.jobs # <<>>,
         NEW j, j = Head(f.jobs), j.on \in {"fetched", "read"},
         NEW e, e = Popped(f)
  PROVE  /\ XhrInv(e, y) /\ Settled(f, e, j) /\ j \in Jobs
         /\ Flew(y, j.id)
<1>1. FetchInv(f) /\ Flights(f, y)
  BY DEF XhrInv
<1>2. Settled(f, e, j) /\ j.id \in Ids /\ j \in Jobs
  BY <1>1, SettledPopped
<1>3. FetchInv(e) /\ e.next = f.next /\ e.told = f.told
  BY <1>2 DEF Settled, KeepsRest
<1>4. XhrInv(e, y)
  BY ONLY XhrInv(f, y), y.script = <<>>, <1>3, XhrUntouched
<1>5. f.told[j.id] # "nothing"
  BY <1>2, <1>3 DEF Settled
<1>6. j.id < f.next
  <2>1. f.next \in Nat /\ Core(f, j.id)
    BY <1>1, <1>2, InvAt
  <2>2. j.id \in Nat
    BY <1>2 DEF Ids
  <2> QED BY <1>5, <2>1, <2>2 DEF Core, Unborn
<1>7. Flew(y, j.id)
  BY <1>1, <1>2, <1>6 DEF Flights, Flew
<1> QED BY <1>2, <1>4, <1>7

\* A promise of fetch() or of a read is settled for a source.
LEMMA SettledSource ==
  ASSUME NEW f, NEW s, EsInv(f, s), f.jobs # <<>>,
         NEW j, j = Head(f.jobs), j.on \in {"fetched", "read"},
         NEW e, e = Popped(f), NEW w, w = [f |-> e, es |-> s]
  PROVE  /\ j \in Jobs /\ Pair(w) /\ w.f = e /\ w.es = s
         /\ s.closed => EsInv(w.f, w.es)
         /\ ~s.closed => /\ Poised(w)
                         /\ j.on = "read" \/ j.ok => w.f.told[w.es.conn] = "response"
<1>1. FetchInv(f) /\ EsType(s) /\ Bound(f, s) /\ Resumes(s)
  BY DEF EsInv
<1>2. Settled(f, e, j) /\ j.id \in Ids /\ j \in Jobs
  BY <1>1, SettledPopped
<1>3. FetchInv(e) /\ e.next = f.next /\ e.told = f.told
  BY <1>2 DEF Settled, KeepsRest
<1>4. Pair(w) /\ w.f = e /\ w.es = s
  BY <1>1, PairsOf
<1>5. Bound(e, s)
  BY <1>1, <1>3 DEF Bound
<1>6. CASE s.closed
  BY <1>1, <1>2, <1>3, <1>4, <1>5, <1>6 DEF EsInv
<1>7. CASE ~s.closed
  <2>1. Lifeline(f, s)
    BY <1>7 DEF EsInv
  <2>2. Connecting(f, j.id) \/ Reading(f, j.id)
    BY <1>2 DEF Settled
  <2>3. j.id = s.conn
    BY <1>2, <2>1, <2>2 DEF Lifeline
  <2>4. s.timers = 0
    BY <1>1, <2>1, <2>2, <2>3 DEF Lifeline, EsType
  <2>5. ~Connecting(e, s.conn) /\ ~Reading(e, s.conn)
    BY <1>2, <2>3 DEF Settled
  <2>6. Nobody(e)
    BY <1>2, <2>1, <2>3, <2>5 DEF Nobody, Settled, Lifeline, KeepsWaiting
  <2>7. j.on = "read" \/ j.ok => e.told[s.conn] = "response"
    BY <1>2, <2>3 DEF Settled
  <2> QED BY <1>1, <1>2, <1>3, <1>4, <1>5, <1>7, <2>4, <2>5, <2>6, <2>7 DEF Poised
<1> QED BY <1>2, <1>4, <1>6, <1>7

LEMMA ReactedDoes ==
  ASSUME NEW f, NEW s, EsInv(f, s), f.jobs # <<>>, NEW j, j = Head(f.jobs),
         NEW e, e = Popped(f), NEW w, w = [f |-> e, es |-> s],
         NEW okay \in BOOLEAN, NEW closes \in BOOLEAN, NEW k, NEW g,
         \/ /\ j.on = "fetched"
            /\ g = IF j.ok THEN Opened(w, okay, closes) ELSE FailAndReconnect(w, closes)
         \/ j.on = "read" /\ g = StreamRead(w, j.ok, j.chunk, closes, k)
  PROVE  EsInv(g.f, g.es)
<1>1. j.on \in {"fetched", "read"}
  OBVIOUS
<1>2. /\ j \in Jobs /\ Pair(w) /\ w.f = e /\ w.es = s
      /\ s.closed => EsInv(w.f, w.es)
      /\ ~s.closed => /\ Poised(w)
                      /\ j.on = "read" \/ j.ok => w.f.told[w.es.conn] = "response"
  BY ONLY EsInv(f, s), f.jobs # <<>>, j = Head(f.jobs), <1>1, e = Popped(f),
          w = [f |-> e, es |-> s], SettledSource
<1>3. CASE s.closed
  <2>1. w.es.closed /\ EsInv(w.f, w.es)
    BY <1>2, <1>3
  <2>2. g = w \/ g = [w EXCEPT !.es.pump = FALSE]
    BY <2>1 DEF Opened, FailAndReconnect, StreamRead
  <2> QED BY ONLY <1>2, <2>1, <2>2, ClosedDoes
<1>4. CASE ~s.closed
  <2>1. ~w.es.closed /\ Poised(w)
    BY <1>2, <1>4
  <2>2. CASE j.on = "read"
    <3>1. PICK ok, units : ok = j.ok /\ units = j.chunk
      OBVIOUS
    <3>2. ok \in BOOLEAN /\ units \in Nat
      BY <1>2, <3>1 DEF Jobs
    <3>3. g = StreamRead(w, ok, units, closes, k) /\ w.f.told[w.es.conn] = "response"
      BY <1>2, <1>4, <2>2, <3>1
    <3> QED BY ONLY <2>1, <3>2, <3>3, closes \in BOOLEAN, StreamReadDoes
  <2>3. CASE j.on # "read" /\ j.ok
    <3>1. g = Opened(w, okay, closes) /\ w.f.told[w.es.conn] = "response"
      BY <1>2, <1>4, <2>3
    <3> QED BY ONLY <2>1, <3>1, okay \in BOOLEAN, closes \in BOOLEAN, OpenedDoes
  <2>4. CASE j.on # "read" /\ ~j.ok
    <3>1. g = FailAndReconnect(w, closes)
      BY <2>4
    <3> QED BY ONLY <2>1, <3>1, closes \in BOOLEAN, FailDoes
  <2> QED BY <2>2, <2>3, <2>4
<1> QED BY <1>3, <1>4

-------------------------------------------------------------------------------
(* The invariant is inductive: the initial states, then one lemma for each action. *)

LEMMA NewXhrIs ==
  ASSUME NEW timeout \in BOOLEAN
  PROVE  /\ Asleep(NewXhr(timeout)) /\ XhrInv(NewFetchState, NewXhr(timeout))
         /\ Tale(NewFetchState, NewXhr(timeout)) /\ Begun(NewXhr(timeout))
<1>1. PICK z : z = NewXhr(timeout)
  OBVIOUS
<1>2. PICK f : f = NewFetchState
  OBVIOUS
<1>3. FetchInv(f) /\ f.next = 1
  BY <1>2, InitFetch
<1>4. /\ z = [k \in XKeys |-> z[k]] /\ z.seq = 0 /\ z.n = 0 /\ z.controller = 0 /\ z.frame = 0
      /\ z.script = <<>> /\ z.flight = [i \in 1 .. MaxSends |-> [id |-> 0, seq |-> 0]]
      /\ z.send = FALSE /\ z.aborted = {} /\ z.armed = {}
      /\ z.hist = [i \in 1 .. MaxSends |-> <<>>]
  BY <1>1 DEF NewXhr, XKeys
<1>5. MaxSends \in Nat /\ MaxRequests \in Nat /\ 0 \in 0 .. MaxSends /\ 0 \in 0 .. MaxRequests
  BY XhrAssumption, FetchAssumption
<1>6. XType(z)
  <2>1. z.flight \in [1 .. MaxSends -> [id : 0 .. MaxRequests, seq : Nat]]
    BY <1>4, <1>5
  <2>2. z.script \in Seq(Steps)
    <3>1. <<>> \in Seq(Steps)
      OBVIOUS
    <3> QED BY <1>4, <3>1
  <2>3. z.seq \in Nat /\ z.n \in 0 .. MaxSends
    BY <1>4, <1>5
  <2>4. z.controller \in 0 .. MaxSends /\ z.frame \in 0 .. MaxSends
    BY <1>4, <1>5
  <2> QED BY <1>4, <2>1, <2>2, <2>3, <2>4 DEF XType
<1>7. Flown(z) = {} /\ \A n \in 1 .. MaxSends : z.flight[n].id = 0
  <2>1. \A n \in 1 .. MaxSends : z.flight[n].id = 0
    <3>1. \A n \in 1 .. MaxSends : z.flight[n] = [id |-> 0, seq |-> 0]
      BY <1>4
    <3> QED BY <3>1
  <2> QED BY <2>1 DEF Flown
<1>8. Flights(f, z)
  <2>1. Cardinality(Flown(z)) = 0
    BY <1>7, FS_EmptySet
  <2>2. \A id \in Ids : ~(id < f.next)
    BY <1>3 DEF Ids
  <2>3. \A n \in 1 .. MaxSends : z.flight[n].id < f.next
    BY <1>3, <1>7
  <2>4. Cardinality(Flown(z)) = f.next - 1
    BY <1>3, <2>1
  <2> QED BY <1>4, <1>7, <2>2, <2>3, <2>4 DEF Flights
<1>9. ScriptOk(f, z, z.script)
  BY <1>4 DEF ScriptOk
<1>10. Asleep(z) /\ Begun(z)
  BY <1>4 DEF Asleep, Begun
<1>11. Tale(f, z)
  <2>1. ASSUME NEW n \in 1 .. MaxSends PROVE TaleAt(f, z, n)
    <3>1. z.hist[n] = <<>>
      BY <1>4
    <3>2. \A i \in 1 .. Len(z.hist[n]) : Rank(z.hist[n][i]) = i
      BY <3>1
    <3>3. InTurn(z.script, n, Len(z.hist[n])) /\ Rising(z.script, n)
      BY <1>4, EmptyTells
    <3>4. ~Loads(z, n)
      BY <1>4, <3>1 DEF Loads
    <3> QED BY <3>1, <3>2, <3>3, <3>4 DEF TaleAt
  <2>2. Dated(z)
    <3>1. 0 \in 0 .. 0 /\ 1 .. 0 = {}
      OBVIOUS
    <3> QED BY <1>4, <3>1 DEF Dated
  <2>3. z.hist \in [1 .. MaxSends -> Seq(EventTypes)]
    <3>1. <<>> \in Seq(EventTypes)
      OBVIOUS
    <3> QED BY <1>4, <3>1
  <2>4. \A p \in 1 .. Len(z.script) : z.script[p].do = "event" => z.script[p].n \in 1 .. z.n
    BY <1>4
  <2> QED BY <1>4, <2>1, <2>2, <2>3, <2>4 DEF Tale
<1> QED BY <1>1, <1>2, <1>3, <1>4, <1>6, <1>8, <1>9, <1>10, <1>11 DEF XhrInv

LEMMA NewEventSourceIs ==
  ASSUME NEW g, g = Connect([f |-> NewFetchState, es |-> NewEventSource], TRUE)
  PROVE  EsInv(g.f, g.es) /\ NewEventSource.seen = <<>>
<1>1. PICK s : s = NewEventSource
  OBVIOUS
<1>2. PICK f : f = NewFetchState
  OBVIOUS
<1>3. FetchInv(f) /\ f.next = 1 /\ \A d \in Ids : ~Connecting(f, d) /\ ~Reading(f, d)
  BY <1>2, InitFetch
<1>4. EsType(s) /\ Resumes(s) /\ ~s.closed /\ ~s.pump /\ s.timers = 0 /\ s.seen = <<>>
  BY <1>1 DEF NewEventSource, EsType, EsKeys, Resumes
<1>5. PICK w : w = [f |-> f, es |-> s]
  OBVIOUS
<1>6. Pair(w) /\ w.f = f /\ w.es = s
  BY <1>4, <1>5, PairsOf
<1>7. 1 \in Ids
  BY FetchAssumption DEF Ids
<1>8. /\ FetchInv(w.f) /\ Resumes(w.es) /\ ~w.es.closed /\ ~w.es.pump /\ w.es.timers = 0
      /\ Nobody(w.f) /\ 1 = w.f.next
  BY <1>3, <1>4, <1>6 DEF Nobody
<1>9. g = Connect(w, TRUE) /\ TRUE \in BOOLEAN
  BY <1>1, <1>2, <1>5
<1>10. EsInv(g.f, g.es)
  BY ONLY <1>6, <1>7, <1>8, <1>9, ConnectDoes
<1> QED BY <1>1, <1>4, <1>10

LEMMA InitHolds == Init => IInv
<1> SUFFICES ASSUME Init PROVE IInv
  OBVIOUS
<1>1. FetchInv(NewFetchState)
  BY InitFetch
<1>2. PICK timeout \in BOOLEAN : x = NewXhr(timeout)
  BY DEF Init
<1>3. Asleep(x) /\ XhrInv(NewFetchState, x) /\ Tale(NewFetchState, x) /\ Begun(x)
  BY <1>2, NewXhrIs
<1>4. CASE who = "eventsource"
  <2>1. PICK w : w = Connect([f |-> NewFetchState, es |-> NewEventSource], TRUE)
    OBVIOUS
  <2>2. net = w.f /\ es = w.es
    BY <1>4, <2>1 DEF Init
  <2>3. EsInv(w.f, w.es)
    BY <2>1, NewEventSourceIs
  <2> QED BY <1>3, <1>4, <2>2, <2>3, EsKind DEF IInv
<1>5. CASE who # "eventsource"
  <2>1. net = NewFetchState /\ es = NewEventSource /\ who \in {"program", "xhr", "eventsource"}
    BY <1>5 DEF Init
  <2>2. es.seen = <<>>
    BY <2>1, NewEventSourceIs
  <2> QED BY <1>1, <1>3, <1>5, <2>1, <2>2 DEF IInv, Kinds
<1> QED BY <1>4, <1>5

LEMMA TickHolds ==
  ASSUME IInv, Tick PROVE IInv'
<1>1. PICK c \in Arrivals : \E r \in Results(c) : net' = FetchTick(net, c, r)
  BY DEF Tick
<1>2. PICK r \in Results(c) : net' = FetchTick(net, c, r)
  BY <1>1
<1>3. /\ c \in [DOMAIN net.req -> Sizes]
      /\ r \in [DOMAIN net.req -> {"running", "ok", "failed", "refused"}]
  BY DEF Arrivals, Results
<1>4. \A n \in Sizes : n \in Nat
  BY DEF Sizes
<1>5. \A d \in DOMAIN net.req : c[d] \in Nat /\ r[d] \in {"running", "ok", "failed", "refused"}
  BY <1>3, <1>4
<1>6. FetchInv(net)
  BY DEF IInv, Kinds
<1>7. PICK g : g = FetchTick(net, c, r)
  OBVIOUS
<1>8. FetchInv(g) /\ g.next = net.next /\ \A d \in Ids : KeepsWaiting(net, g, d)
  BY ONLY <1>5, <1>6, <1>7, TickStep
<1>9. Kinds(who, net, x, es) /\ x.script = <<>> /\ EndsStay(net, g)
  BY <1>8 DEF IInv, Tick, Quiet, Idle, KeepsWaiting, EndsStay
<1>10. Kinds(who, g, x, es)
  BY ONLY <1>8, <1>9, KindsUntouched
<1> QED BY <1>2, <1>7, <1>10 DEF Tick, IInv

LEMMA RevokeHolds ==
  ASSUME IInv, Revoke PROVE IInv'
<1>1. PICK id \in Transfers(net) : net' = AbortRequest(net, id, TRUE)
  BY DEF Revoke
<1>2. FetchInv(net) /\ Kinds(who, net, x, es) /\ x.script = <<>>
  BY DEF IInv, Kinds, Revoke, Task, Idle
<1>3. id \in Ids
  BY <1>2 DEF Transfers, FetchInv, Sound, IsFetch, IsTable
<1>4. PICK g : g = AbortRequest(net, id, TRUE)
  OBVIOUS
<1>5. TRUE \in BOOLEAN
  OBVIOUS
<1>6. Goes(net, g)
  BY ONLY <1>2, <1>3, <1>4, <1>5, AbortStep
<1>7. Kinds(who, g, x, es)
  BY ONLY <1>2, <1>6, KindsGo
<1> QED BY <1>1, <1>4, <1>7 DEF Revoke, IInv

LEMMA PoppedHere ==
  ASSUME NEW on, Runs(on), IInv
  PROVE  /\ net.jobs # <<>> /\ job = Head(net.jobs) /\ job.on = on /\ popped = Popped(net)
         /\ x.script = <<>> /\ FetchInv(net) /\ Kinds(who, net, x, es)
BY DEF Runs, job, popped, Popped, Idle, IInv, Kinds

LEMMA BodyReactionHolds ==
  ASSUME IInv, BodyReaction PROVE IInv'
<1>1. Runs("pull") /\ net' = BodyPulled(popped, job.id)
  BY DEF BodyReaction
<1>2. /\ net.jobs # <<>> /\ job = Head(net.jobs) /\ job.on = "pull" /\ popped = Popped(net)
      /\ x.script = <<>> /\ FetchInv(net) /\ Kinds(who, net, x, es)
  BY ONLY IInv, <1>1, PoppedHere
<1>3. PICK j, e, g : j = job /\ e = popped /\ g = BodyPulled(e, j.id)
  OBVIOUS
<1>4. /\ j = Head(net.jobs) /\ e = Popped(net) /\ j.on = "pull" /\ g = BodyPulled(e, j.id)
  BY <1>2, <1>3
<1>5. Goes(net, g)
  BY ONLY <1>2, <1>4, PullStep
<1>6. Kinds(who, g, x, es)
  BY ONLY <1>2, <1>5, KindsGo
<1> QED BY <1>1, <1>3, <1>6 DEF BodyReaction, IInv

\* The reaction to a settled promise reads on, or leaves it at that.
LEMMA ReadsOn ==
  ASSUME NEW k, k # "eventsource", NEW f, NEW y, NEW s, Kinds(k, f, y, s), y.script = <<>>,
         f.jobs # <<>>, NEW j, j = Head(f.jobs), j.on \in {"fetched", "read"},
         NEW e, e = Popped(f), NEW g, g = e \/ ((j.on = "read" \/ j.ok) /\ g = ReadBody(e, j.id))
  PROVE  Kinds(k, g, y, s)
<1>1. FetchInv(f)
  BY DEF Kinds
<1>2. Settled(f, e, j) /\ j.id \in Ids /\ j \in Jobs
  BY ONLY <1>1, f.jobs # <<>>, j = Head(f.jobs), j.on \in {"fetched", "read"}, e = Popped(f),
          SettledPopped
<1>3. /\ FetchInv(e) /\ e.next = f.next /\ ~Connecting(e, j.id) /\ ~Reading(e, j.id)
      /\ j.on = "read" \/ j.ok => e.told[j.id] = "response"
  BY <1>2 DEF Settled, KeepsRest
<1>4. FetchInv(g) /\ g.next = f.next /\ EndsStay(f, g)
  <2>0. e.end = f.end
    BY <1>2 DEF Settled, KeepsRest
  <2>1. CASE g = e
    BY <1>3, <2>0, <2>1 DEF EndsStay
  <2>2. CASE g # e
    <3>1. e.told[j.id] = "response" /\ g = ReadBody(e, j.id)
      BY <1>3, <2>2
    <3>2. Reads(e, g, j.id)
      BY ONLY <1>2, <1>3, <3>1, ReadStep
    <3> QED BY <1>3, <2>0, <3>2 DEF Reads, EndsStay
  <2> QED BY <2>1, <2>2
<1> QED BY <1>4, KindsUntouched

LEMMA ReadOnHolds ==
  ASSUME IInv, ReadOn PROVE IInv'
<1>1. Runs("read") /\ net' = ReadBody(popped, job.id) /\ who # "eventsource"
  BY DEF ReadOn, Pumps
<1>2. /\ net.jobs # <<>> /\ job = Head(net.jobs) /\ job.on = "read" /\ popped = Popped(net)
      /\ x.script = <<>> /\ FetchInv(net) /\ Kinds(who, net, x, es)
  BY ONLY IInv, <1>1, PoppedHere
<1>3. PICK j, e, g : j = job /\ e = popped /\ g = ReadBody(e, j.id)
  OBVIOUS
<1>4. /\ j = Head(net.jobs) /\ e = Popped(net) /\ j.on \in {"fetched", "read"}
      /\ g = e \/ ((j.on = "read" \/ j.ok) /\ g = ReadBody(e, j.id))
  BY <1>2, <1>3
<1>5. Kinds(who, g, x, es)
  BY ONLY <1>1, <1>2, <1>4, ReadsOn
<1> QED BY <1>1, <1>3, <1>5 DEF ReadOn, IInv

LEMMA ProgramGotResponseHolds ==
  ASSUME IInv, ProgramGotResponse PROVE IInv'
<1>1. /\ Runs("fetched") /\ who # "eventsource"
      /\ net' = IF job.ok THEN ReadBody(popped, job.id) ELSE popped
  BY DEF ProgramGotResponse
<1>2. /\ net.jobs # <<>> /\ job = Head(net.jobs) /\ job.on = "fetched" /\ popped = Popped(net)
      /\ x.script = <<>> /\ FetchInv(net) /\ Kinds(who, net, x, es)
  BY ONLY IInv, <1>1, PoppedHere
<1>3. PICK j, e, g : j = job /\ e = popped /\ g = net'
  OBVIOUS
<1>4. /\ j = Head(net.jobs) /\ e = Popped(net) /\ j.on \in {"fetched", "read"}
      /\ g = e \/ ((j.on = "read" \/ j.ok) /\ g = ReadBody(e, j.id))
  BY <1>1, <1>2, <1>3
<1>5. Kinds(who, g, x, es)
  BY ONLY <1>1, <1>2, <1>4, ReadsOn
<1> QED BY <1>3, <1>5 DEF ProgramGotResponse, IInv

LEMMA CallFetchAPIHolds ==
  ASSUME IInv, CallFetchAPI PROVE IInv'
<1>1. who = "program" /\ net.next <= MaxSends /\ x.script = <<>>
  BY DEF CallFetchAPI, MayFetch, Task, Idle
<1>2. PICK how \in {"http", "local", "denied", "missing", "aborted"} :
        net' = CASE how = "http"    -> StartTransfer(net)
                 [] how = "local"   -> QueueLocalResponse(net)
                 [] how = "missing" -> RejectAtOnce(net, "network")
                 [] OTHER           -> RejectAtOnce(net, how)
  BY DEF CallFetchAPI
<1>3. FetchInv(net) /\ Kinds(who, net, x, es)
  BY DEF IInv, Kinds
<1>4. PICK g, id : g = net' /\ id = net.next
  OBVIOUS
<1>5. id \in Ids
  <2>1. net.next \in 1 .. MaxRequests + 1
    BY <1>3 DEF FetchInv, Sound, IsFetch
  <2> QED BY <1>1, <1>4, <2>1, XhrAssumption, FetchAssumption DEF Ids
<1>6. \/ g = StartTransfer(net)
      \/ g = QueueLocalResponse(net)
      \/ \E outcome \in {"denied", "network", "aborted"} : g = RejectAtOnce(net, outcome)
  BY <1>2, <1>4
<1>7. id = net.next
  BY <1>4
<1>8. Begins(net, g, id)
  BY ONLY <1>3, <1>5, <1>6, <1>7, StartStep
<1>9. Kinds(who, g, x, es)
  BY <1>1, <1>3, <1>8 DEF Kinds, Begins
<1> QED BY <1>4, <1>9 DEF CallFetchAPI, IInv

LEMMA FireSignalHolds ==
  ASSUME IInv, FireSignal PROVE IInv'
<1>1. PICK id \in 1 .. net.next - 1 :
        net' = IF id \in wired THEN AbortRequest(net, id, FALSE) ELSE net
  BY DEF FireSignal
<1>2. FetchInv(net) /\ Kinds(who, net, x, es) /\ x.script = <<>>
  BY DEF IInv, Kinds, FireSignal, Task, Idle
<1>3. id \in 0 .. MaxRequests
  <2>1. net.next \in 1 .. MaxRequests + 1
    BY <1>2 DEF FetchInv, Sound, IsFetch
  <2> QED BY <2>1, FetchAssumption
<1>4. PICK g : g = AbortRequest(net, id, FALSE)
  OBVIOUS
<1>5. Goes(net, g)
  BY ONLY <1>2, <1>3, <1>4, AbortGoes
<1>6. Kinds(who, g, x, es)
  BY ONLY <1>2, <1>5, KindsGo
<1> QED BY <1>1, <1>2, <1>4, <1>6 DEF FireSignal, IInv

LEMMA XhrHere ==
  ASSUME IInv, who = "xhr", NEW v, v = [f |-> net, x |-> x]
  PROVE  /\ XInv(v) /\ v.f = net /\ v.x = x /\ es.seen = <<>>
         /\ Known(v) /\ (x.script = <<>> => Heard(v))
<1>1. XPair(v) /\ v.f = net /\ v.x = x
  BY PairsOf
<1>2. XhrInv(net, x) /\ Tale(net, x) /\ (Begun(x) \/ Fresh(x)) /\ es.seen = <<>>
  BY DEF IInv, Kinds
<1>3. x.script = <<>> => Begun(x)
  BY <1>2, AtRest
<1> QED BY <1>1, <1>2, <1>3 DEF XInv, Known, Heard

LEMMA XhrGoesOn ==
  ASSUME NEW s, who = "xhr", who' = who, es = s, es' = s, s.seen = <<>>,
         NEW g, XInv(g), Known(g), net' = g.f, x' = g.x
  PROVE  IInv'
<1>1. Kinds("xhr", g.f, g.x, s)
  BY XhrKind
<1> QED BY <1>1 DEF IInv

LEMMA XhrStepHolds ==
  ASSUME IInv, XhrStep PROVE IInv'
<1>1. x.script # <<>> /\ who' = who /\ es' = es
  BY DEF XhrStep
<1>2. who = "xhr"
  BY <1>1 DEF IInv, Kinds, Asleep
<1>3. PICK step : step = Head(x.script)
  OBVIOUS
<1>4. PICK how \in IF step.do = "fetch" THEN {"http", "local", "denied"} ELSE {"none"} :
        LET w == ScriptStep([f |-> net, x |-> x], step, how)
            g == IF w.x.script = <<>> THEN [w EXCEPT !.x.frame = 0] ELSE w
        IN  \/ Sets(g)
            \/ Dispatches(step) /\ \E c \in XhrCalls(w) : Sets(c)
            \/ Dispatches(step) /\ \E abortError \in BOOLEAN : Sets(Throw(w, abortError))
  BY <1>3 DEF XhrStep
<1>5. PICK v : v = [f |-> net, x |-> x]
  OBVIOUS
<1>6. XInv(v) /\ v.f = net /\ v.x = x /\ es.seen = <<>> /\ Known(v)
  BY ONLY IInv, <1>2, <1>5, XhrHere
<1>7. PICK w : w = ScriptStep(v, step, how)
  OBVIOUS
<1>8. XInv(w) /\ Known(w) /\ (Dispatches(step) => Heard(w))
  <2>1. v.x.script # <<>> /\ step = Head(v.x.script) /\ (step.do = "fetch" => how \in Hows)
    BY <1>1, <1>3, <1>4, <1>6 DEF Hows
  <2> QED BY ONLY <1>6, <1>7, <2>1, ScriptStepDoes
<1>9. PICK g : g = IF w.x.script = <<>> THEN [w EXCEPT !.x.frame = 0] ELSE w
  OBVIOUS
<1>10. XInv(g) /\ Known(g)
  <2>1. CASE w.x.script # <<>>
    BY <1>8, <1>9, <2>1
  <2>2. CASE w.x.script = <<>>
    <3>1. PICK z : z = [w.x EXCEPT !.frame = 0]
      OBVIOUS
    <3>2. XPair(w) /\ XType(w.x)
      BY <1>8 DEF XInv, XhrInv
    <3>3. /\ z = [k \in XKeys |-> z[k]] /\ z.seq = w.x.seq /\ z.n = w.x.n /\ z.flight = w.x.flight
          /\ z.script = w.x.script /\ z.frame = 0 /\ z.controller = w.x.controller
      BY <3>1, <3>2 DEF XType, XKeys
    <3>4. 0 \in 0 .. MaxSends
      BY XhrAssumption, FetchAssumption
    <3>5. XType(z) /\ Kept(w.x, z)
      BY <3>2, <3>3, <3>4 DEF XType, Kept
    <3>6. g = SetX(w, z)
      BY <1>9, <2>2, <3>1, <3>2 DEF SetX, XPair, XType, XKeys
    <3>7. XInv(g) /\ g.f = w.f /\ g.x = z
      BY ONLY <1>8, <3>5, <3>6, KeptDoes
    <3>8. Heard(w)
      BY <1>8, <2>2, AtRest DEF Known, Heard
    <3>9. Aside(w.x, z)
      BY <3>1, <3>2 DEF XType, XKeys, Aside
    <3>10. EndsStay(w.f, g.f) /\ Aside(w.x, g.x) /\ g.x.script \in {w.x.script, <<>>}
      BY <3>3, <3>7, <3>9, NoEnds
    <3>11. Follows(w, g)
      BY ONLY <3>2, <3>10, AsideFollows
    <3> QED BY <3>7, <3>8, <3>11 DEF Follows, Heard, Known
  <2> QED BY <2>1, <2>2
<1>11. \/ Sets(g)
       \/ Dispatches(step) /\ \E c \in XhrCalls(w) : Sets(c)
       \/ Dispatches(step) /\ \E abortError \in BOOLEAN : Sets(Throw(w, abortError))
  BY <1>4, <1>5, <1>7, <1>9
<1>12. \E c : XInv(c) /\ Known(c) /\ Sets(c)
  <2>1. CASE Sets(g)
    BY <1>10, <2>1
  <2>2. CASE Dispatches(step) /\ \E abortError \in BOOLEAN : Sets(Throw(w, abortError))
    <3>1. PICK abortError \in BOOLEAN : Sets(Throw(w, abortError))
      BY <2>2
    <3>2. PICK c : c = Throw(w, abortError)
      OBVIOUS
    <3>3. abortError \in BOOLEAN
      OBVIOUS
    <3>4. XInv(c) /\ Follows(w, c)
      BY ONLY <1>8, <3>2, <3>3, ThrowDoes
    <3>5. Known(c)
      BY <1>8, <2>2, <3>4 DEF Follows, Heard, Known
    <3> QED BY <3>1, <3>2, <3>4, <3>5
  <2>3. CASE Dispatches(step) /\ \E c \in XhrCalls(w) : Sets(c)
    <3>1. PICK c \in XhrCalls(w) : Sets(c)
      BY <2>3
    <3>2. XInv(c) /\ (Heard(w) => Known(c))
      BY ONLY <1>8, <3>1, CallsDo
    <3> QED BY <1>8, <2>3, <3>1, <3>2
  <2> QED BY <1>11, <2>1, <2>2, <2>3
<1>13. PICK c : XInv(c) /\ Known(c) /\ Sets(c)
  BY <1>12
<1> QED BY <1>1, <1>2, <1>6, <1>13, XhrGoesOn DEF Sets

LEMMA XhrCallHolds ==
  ASSUME IInv, XhrCall PROVE IInv'
<1>1. PICK v : v = [f |-> net, x |-> x]
  OBVIOUS
<1>2. who = "xhr" /\ who' = who /\ es' = es /\ x.script = <<>>
  BY DEF XhrCall, Task, Idle
<1>3. PICK c \in XhrCalls(v) : Sets(c)
  BY <1>1 DEF XhrCall
<1>4. XInv(v) /\ es.seen = <<>> /\ Heard(v)
  BY ONLY IInv, <1>1, <1>2, XhrHere
<1>5. XInv(c) /\ (Heard(v) => Known(c))
  BY ONLY <1>3, <1>4, CallsDo
<1> QED BY <1>2, <1>3, <1>4, <1>5, XhrGoesOn DEF Sets

LEMMA XhrTimerHolds ==
  ASSUME IInv, XhrTimer PROVE IInv'
<1>1. PICK v : v = [f |-> net, x |-> x]
  OBVIOUS
<1>2. who = "xhr" /\ who' = who /\ es' = es /\ x.script = <<>>
  BY DEF XhrTimer, Task, Idle
<1>3. PICK seq \in x.armed : Sets(TimedOut(v, seq))
  BY <1>1 DEF XhrTimer
<1>4. XInv(v) /\ es.seen = <<>> /\ Heard(v) /\ v.x = x
  BY ONLY IInv, <1>1, <1>2, XhrHere
<1>5. PICK c : c = TimedOut(v, seq)
  OBVIOUS
<1>6. XInv(c) /\ (seq \in v.x.armed => Follows(v, c))
  BY ONLY <1>4, <1>5, TimedOutDoes
<1>7. Known(c)
  BY <1>3, <1>4, <1>6 DEF Follows, Heard, Known
<1> QED BY <1>2, <1>3, <1>4, <1>5, <1>6, <1>7, XhrGoesOn DEF Sets

\* The send() that made a request.
LEMMA SendFound ==
  ASSUME NEW f, XhrInv(f, x), NEW id \in Ids, id < f.next
  PROVE  /\ SendOf(id) \in Flown(x) /\ x.flight[SendOf(id)].id = id
         /\ SendOf(id) \in 1 .. x.n
<1>1. PICK n \in Flown(x) : x.flight[n].id = id
  BY DEF XhrInv, Flights
<1>2. n \in 1 .. MaxSends /\ id # 0
  BY <1>1 DEF Flown
<1>3. SendOf(id) \in 1 .. MaxSends /\ x.flight[SendOf(id)].id = id
  BY <1>1, <1>2 DEF SendOf
<1>4. SendOf(id) \in Flown(x)
  BY <1>2, <1>3 DEF Flown
<1>5. PICK y, m : y = x /\ m = SendOf(id)
  OBVIOUS
<1>6. XhrInv(f, y) /\ m \in Flown(y)
  BY <1>4, <1>5
<1>7. m \in 1 .. y.n
  BY ONLY <1>6, FlownSent
<1> QED BY <1>3, <1>4, <1>5, <1>7

\* The reaction of the first microtask, of the object that made the request.
LEMMA XhrSettled ==
  ASSUME IInv, who = "xhr", NEW on \in {"fetched", "read"}, Runs(on),
         NEW v, v = [f |-> popped, x |-> x]
  PROVE  /\ XInv(v) /\ v.f = popped /\ v.x = x /\ v.x.script = <<>> /\ es.seen = <<>>
         /\ Settled(net, popped, job) /\ SendOf(job.id) \in Flown(x)
         /\ x.flight[SendOf(job.id)].id = job.id /\ SendOf(job.id) \in 1 .. x.n
         /\ Heard(v)
<1>1. /\ net.jobs # <<>> /\ job = Head(net.jobs) /\ job.on = on /\ popped = Popped(net)
      /\ x.script = <<>>
  BY PoppedHere
<1>2. XhrInv(net, x) /\ es.seen = <<>>
  BY DEF IInv, Kinds
<1>3. PICK j, e : j = job /\ e = popped
  OBVIOUS
<1>4. j = Head(net.jobs) /\ j.on \in {"fetched", "read"} /\ e = Popped(net)
  BY <1>1, <1>3
<1>5. XhrInv(e, x) /\ Settled(net, e, j) /\ j \in Jobs /\ Flew(x, j.id)
  <2>1. XhrInv(net, x) /\ x.script = <<>> /\ net.jobs # <<>>
    BY <1>1, <1>2
  <2> QED BY ONLY <1>4, <2>1, SettledSend
<1>6. j.id \in Ids /\ j.id < e.next
  <2>1. PICK n \in Flown(x) : x.flight[n].id = j.id
    BY <1>5 DEF Flew
  <2>2. Flights(e, x) /\ XType(x)
    BY <1>5 DEF XhrInv
  <2>3. x.flight[n].id \in Ids
    BY <2>2, FlownIds
  <2>4. x.flight[n].id < e.next
    BY <2>2 DEF Flights, Flown
  <2> QED BY <2>1, <2>3, <2>4
<1>7. /\ SendOf(j.id) \in Flown(x) /\ x.flight[SendOf(j.id)].id = j.id
      /\ SendOf(j.id) \in 1 .. x.n
  BY <1>5, <1>6, SendFound
<1>8. XPair(v) /\ v.f = popped /\ v.x = x
  BY PairsOf
<1>9. Tale(net, x) /\ Begun(x) /\ XType(x)
  BY <1>1, <1>2, AtRest DEF IInv, Kinds, XhrInv
<1>10. EndsStay(net, e)
  BY <1>5 DEF Settled, KeepsRest, EndsStay
<1>11. Tale(e, x) /\ Begun(x)
  <2>1. PICK f, y : f = net /\ y = x
    OBVIOUS
  <2>2. XType(y) /\ EndsStay(f, e) /\ Tale(f, y) /\ Begun(y)
    BY <1>9, <1>10, <2>1
  <2>3. Tale(e, y) /\ Begun(y)
    BY ONLY <2>2, SameTold
  <2> QED BY <2>1, <2>3
<1> QED BY <1>1, <1>2, <1>3, <1>5, <1>7, <1>8, <1>11 DEF XInv, Heard

LEMMA ReadOverHolds ==
  ASSUME IInv, ReadOver PROVE IInv'
<1>1. /\ Runs("read") /\ who # "eventsource" /\ who' = who /\ es' = es
      /\ job.ok => job.chunk = 0
  BY DEF ReadOver, Pumps
<1>2. CASE who # "xhr"
  <2>1. net' = popped /\ x' = x
    BY <1>2 DEF ReadOver
  <2>2. /\ net.jobs # <<>> /\ job = Head(net.jobs) /\ job.on = "read" /\ popped = Popped(net)
        /\ x.script = <<>> /\ Kinds(who, net, x, es)
    BY ONLY IInv, <1>1, PoppedHere
  <2>3. PICK j, e : j = job /\ e = popped
    OBVIOUS
  <2>4. /\ j = Head(net.jobs) /\ e = Popped(net) /\ j.on \in {"fetched", "read"}
        /\ e = e \/ ((j.on = "read" \/ j.ok) /\ e = ReadBody(e, j.id))
    BY <2>2, <2>3
  <2>5. Kinds(who, e, x, es)
    BY ONLY <1>1, <2>2, <2>4, ReadsOn
  <2> QED BY <1>1, <2>1, <2>3, <2>5 DEF IInv
<1>3. CASE who = "xhr"
  <2>1. PICK v : v = [f |-> popped, x |-> x]
    OBVIOUS
  <2>2. PICK n : n = SendOf(job.id)
    OBVIOUS
  <2>3. PICK c : c = IF job.ok THEN BodyRead(v, n) ELSE Rejected(v, n, FALSE)
    OBVIOUS
  <2>4. net' = c.f /\ x' = c.x
    BY <1>3, <2>1, <2>2, <2>3 DEF ReadOver
  <2>5. "read" \in {"fetched", "read"}
    OBVIOUS
  <2>6. /\ XInv(v) /\ v.f = popped /\ v.x = x /\ es.seen = <<>>
        /\ Settled(net, popped, job) /\ SendOf(job.id) \in Flown(x)
        /\ x.flight[SendOf(job.id)].id = job.id /\ SendOf(job.id) \in 1 .. x.n
        /\ Heard(v)
    BY ONLY IInv, <1>1, <1>3, <2>1, <2>5, XhrSettled
  <2>7. n \in Flown(v.x) /\ n \in 1 .. v.x.n
    BY <2>2, <2>6
  <2>8. XInv(c) /\ Follows(v, c)
    <3>1. CASE job.ok
      <4>1. c = BodyRead(v, n)
        BY <2>3, <3>1
      <4>2. job.on = "read" /\ job.chunk = 0
        BY <1>1, <3>1 DEF Runs
      <4>3. v.f.end[v.x.flight[n].id] \notin {"running", "denied"}
        BY <2>2, <2>6, <3>1, <4>2 DEF Settled
      <4>4. /\ XInv(c)
            /\ n \in 1 .. v.x.n /\ v.f.end[v.x.flight[n].id] \notin {"running", "denied"}
                 => Follows(v, c)
        BY ONLY <2>6, <2>7, <4>1, BodyReadDoes
      <4> QED BY <2>7, <4>3, <4>4
    <3>2. CASE ~job.ok
      <4>1. c = Rejected(v, n, FALSE)
        BY <2>3, <3>2
      <4>2. XInv(c) /\ (n \in 1 .. v.x.n => Follows(v, c))
        BY ONLY <2>6, <4>1, RejectedDoes
      <4> QED BY <2>7, <4>2
    <3> QED BY <3>1, <3>2
  <2>9. Known(c)
    BY <2>6, <2>8 DEF Follows, Heard, Known
  <2> QED BY <1>1, <1>3, <2>4, <2>6, <2>8, <2>9, XhrGoesOn
<1> QED BY <1>2, <1>3

LEMMA XhrReactionHolds ==
  ASSUME IInv, XhrReaction PROVE IInv'
<1>1. who = "xhr" /\ (Runs("fetched") \/ Runs("threw")) /\ who' = who /\ es' = es
  BY DEF XhrReaction
<1>2. PICK v, n, failed : /\ v = [f |-> popped, x |-> x] /\ n = SendOf(job.id)
                          /\ failed = (job.on = "fetched" /\ net.told[job.id] = "aborted")
  OBVIOUS
<1>3. PICK c : c = IF job.ok THEN Fetched(v, n) ELSE Rejected(v, n, failed)
  OBVIOUS
<1>4. net' = c.f /\ x' = c.x
  BY <1>2, <1>3 DEF XhrReaction, Sets
<1>5. CASE Runs("threw")
  <2>1. /\ net.jobs # <<>> /\ job = Head(net.jobs) /\ job.on = "threw" /\ popped = Popped(net)
        /\ x.script = <<>> /\ FetchInv(net) /\ Kinds(who, net, x, es)
    BY ONLY IInv, <1>5, PoppedHere
  <2>2. PICK j, e : j = job /\ e = popped
    OBVIOUS
  <2>3. j = Head(net.jobs) /\ j.on = "threw" /\ e = Popped(net)
    BY <2>1, <2>2
  <2>4. Goes(net, e) /\ j \in Jobs /\ j.id \in Ids /\ j.id < e.next
    BY ONLY <2>1, <2>3, ThrewPopped
  <2>5. ~job.ok
    BY <2>2, <2>3, <2>4 DEF Jobs
  <2>6. Kinds(who, e, x, es)
    BY ONLY <2>1, <2>4, KindsGo
  <2>7. XhrInv(e, x) /\ es.seen = <<>> /\ Tale(e, x) /\ Begun(x)
    BY <1>1, <2>1, <2>6, AtRest DEF Kinds
  <2>8. XPair(v) /\ v.f = popped /\ v.x = x
    BY <1>2, PairsOf
  <2>9. XInv(v) /\ Heard(v)
    BY <2>2, <2>7, <2>8 DEF XInv, Heard
  <2>10. c = Rejected(v, n, failed)
    BY <1>3, <2>5
  <2>11. XInv(c) /\ (n \in 1 .. v.x.n => Follows(v, c))
    BY ONLY <2>9, <2>10, RejectedDoes
  <2>12. n \in 1 .. v.x.n
    BY <1>2, <2>2, <2>4, <2>7, <2>8, SendFound
  <2>13. Known(c)
    BY <2>9, <2>11, <2>12 DEF Follows, Heard, Known
  <2> QED BY <1>1, <1>4, <2>7, <2>11, <2>13, XhrGoesOn
<1>6. CASE Runs("fetched")
  <2>1. "fetched" \in {"fetched", "read"} /\ v = [f |-> popped, x |-> x]
    BY <1>2
  <2>2. /\ XInv(v) /\ v.f = popped /\ v.x = x /\ v.x.script = <<>> /\ es.seen = <<>>
        /\ Settled(net, popped, job) /\ SendOf(job.id) \in Flown(x)
        /\ x.flight[SendOf(job.id)].id = job.id /\ SendOf(job.id) \in 1 .. x.n
        /\ Heard(v)
    BY ONLY IInv, <1>1, <1>6, <2>1, XhrSettled
  <2>3. /\ n \in Flown(v.x) /\ v.x.flight[n].id = job.id /\ job.on = "fetched"
        /\ n \in 1 .. v.x.n
    BY <1>2, <1>6, <2>2 DEF Runs
  <2>4. XInv(c) /\ Follows(v, c)
    <3>1. CASE job.ok
      <4>1. c = Fetched(v, n)
        BY <1>3, <3>1
      <4>2. v.f.told[v.x.flight[n].id] = "response"
        BY <2>2, <2>3, <3>1 DEF Settled
      <4>3. ~Connecting(v.f, v.x.flight[n].id) /\ ~Reading(v.f, v.x.flight[n].id)
        BY <2>2, <2>3 DEF Settled
      <4> QED BY ONLY <2>2, <2>3, <4>1, <4>2, <4>3, FetchedDoes
    <3>2. CASE ~job.ok
      <4>1. c = Rejected(v, n, failed)
        BY <1>3, <3>2
      <4>2. XInv(c) /\ (n \in 1 .. v.x.n => Follows(v, c))
        BY ONLY <2>2, <4>1, RejectedDoes
      <4> QED BY <2>3, <4>2
    <3> QED BY <3>1, <3>2
  <2>5. Known(c)
    BY <2>2, <2>4 DEF Follows, Heard, Known
  <2> QED BY <1>1, <1>4, <2>2, <2>4, <2>5, XhrGoesOn
<1> QED BY <1>1, <1>5, <1>6

LEMMA SourceHere ==
  ASSUME IInv, who = "eventsource", NEW v, v = [f |-> net, es |-> es]
  PROVE  Pair(v) /\ EsInv(v.f, v.es) /\ v.f = net /\ v.es = es /\ Asleep(x)
<1>1. EsInv(net, es) /\ Asleep(x)
  BY DEF IInv, Kinds
<1>2. EsType(es)
  BY <1>1 DEF EsInv
<1> QED BY <1>1, <1>2, PairsOf

LEMMA SourceGoesOn ==
  ASSUME who = "eventsource", who' = who, x' = x, Asleep(x),
         NEW g, EsInv(g.f, g.es), net' = g.f, es' = g.es
  PROVE  IInv'
<1>1. PICK y : y = x
  OBVIOUS
<1>2. Kinds("eventsource", g.f, y, g.es)
  BY <1>1, EsKind
<1> QED BY <1>1, <1>2 DEF IInv

LEMMA EsOpenedHolds ==
  ASSUME IInv, EsOpened PROVE IInv'
<1>1. who = "eventsource" /\ Runs("fetched") /\ who' = who /\ x' = x
  BY DEF EsOpened
<1>2. PICK v : v = [f |-> popped, es |-> es]
  OBVIOUS
<1>3. PICK okay \in BOOLEAN, closes \in BOOLEAN :
        SetsEs(IF job.ok THEN Opened(v, okay, closes) ELSE FailAndReconnect(v, closes))
  BY <1>2 DEF EsOpened
<1>4. /\ net.jobs # <<>> /\ job = Head(net.jobs) /\ job.on = "fetched" /\ popped = Popped(net)
  BY <1>1, PoppedHere
<1>5. EsInv(net, es) /\ Asleep(x)
  BY <1>1 DEF IInv, Kinds
<1>6. PICK j, e, g : /\ j = job /\ e = popped
                     /\ g = IF job.ok THEN Opened(v, okay, closes) ELSE FailAndReconnect(v, closes)
  OBVIOUS
<1>7. /\ j = Head(net.jobs) /\ e = Popped(net) /\ v = [f |-> e, es |-> es]
      /\ j.on = "fetched"
      /\ g = IF j.ok THEN Opened(v, okay, closes) ELSE FailAndReconnect(v, closes)
  BY <1>2, <1>4, <1>6
<1>8. EsInv(g.f, g.es)
  BY ONLY <1>3, <1>4, <1>5, <1>7, ReactedDoes
<1>9. net' = g.f /\ es' = g.es
  BY <1>3, <1>6 DEF SetsEs
<1> QED BY <1>1, <1>5, <1>8, <1>9, SourceGoesOn

LEMMA EsReadHolds ==
  ASSUME IInv, EsRead PROVE IInv'
<1>1. who = "eventsource" /\ Runs("read") /\ who' = who /\ x' = x
  BY DEF EsRead
<1>2. PICK v : v = [f |-> popped, es |-> es]
  OBVIOUS
<1>3. PICK closes \in BOOLEAN, k \in 0 .. 2 :
        SetsEs(StreamRead(v, job.ok, job.chunk, closes, k))
  BY <1>2 DEF EsRead
<1>4. /\ net.jobs # <<>> /\ job = Head(net.jobs) /\ job.on = "read" /\ popped = Popped(net)
  BY <1>1, PoppedHere
<1>5. EsInv(net, es) /\ Asleep(x) /\ TRUE \in BOOLEAN
  BY <1>1 DEF IInv, Kinds
<1>6. PICK j, e, g : j = job /\ e = popped /\ g = StreamRead(v, j.ok, j.chunk, closes, k)
  OBVIOUS
<1>7. /\ j = Head(net.jobs) /\ e = Popped(net) /\ v = [f |-> e, es |-> es]
      /\ j.on = "read" /\ g = StreamRead(v, j.ok, j.chunk, closes, k)
  BY <1>2, <1>4, <1>6
<1>8. EsInv(g.f, g.es)
  BY ONLY <1>3, <1>4, <1>5, <1>7, ReactedDoes
<1>9. net' = g.f /\ es' = g.es
  BY <1>3, <1>6 DEF SetsEs
<1> QED BY <1>1, <1>5, <1>8, <1>9, SourceGoesOn

LEMMA EsTimerHolds ==
  ASSUME IInv, EsTimer PROVE IInv'
<1>1. PICK v : v = [f |-> net, es |-> es]
  OBVIOUS
<1>2. who = "eventsource" /\ who' = who /\ x' = x /\ es.timers > 0 /\ net.next <= MaxRequests
  BY DEF EsTimer, MayFetch
<1>3. PICK allowed \in BOOLEAN : SetsEs(Reconnect(v, allowed))
  BY <1>1 DEF EsTimer
<1>4. Pair(v) /\ EsInv(v.f, v.es) /\ v.f = net /\ v.es = es /\ Asleep(x)
  BY ONLY IInv, <1>1, <1>2, SourceHere
<1>5. PICK g : g = Reconnect(v, allowed)
  OBVIOUS
<1>6. v.es.timers > 0 /\ v.f.next <= MaxRequests
  BY <1>2, <1>4
<1>7. EsInv(g.f, g.es)
  BY ONLY <1>3, <1>4, <1>5, <1>6, ReconnectDoes
<1>8. net' = g.f /\ es' = g.es
  BY <1>3, <1>5 DEF SetsEs
<1> QED BY <1>2, <1>4, <1>7, <1>8, SourceGoesOn

LEMMA EsCloseHolds ==
  ASSUME IInv, EsClose PROVE IInv'
<1>1. PICK v : v = [f |-> net, es |-> es]
  OBVIOUS
<1>2. who = "eventsource" /\ who' = who /\ x' = x
  BY DEF EsClose
<1>3. SetsEs(Close(v))
  BY <1>1 DEF EsClose
<1>4. Pair(v) /\ EsInv(v.f, v.es) /\ Asleep(x)
  BY ONLY IInv, <1>1, <1>2, SourceHere
<1>5. PICK g : g = Close(v)
  OBVIOUS
<1>6. EsInv(g.f, g.es)
  BY ONLY <1>4, <1>5, EsCloseDoes
<1>7. net' = g.f /\ es' = g.es
  BY <1>3, <1>5 DEF SetsEs
<1> QED BY <1>2, <1>4, <1>6, <1>7, SourceGoesOn

\* Every step keeps the invariant.
LEMMA NextHolds == IInv /\ [Next]_vars => IInv'
<1> SUFFICES ASSUME IInv, [Next]_vars PROVE IInv'
  OBVIOUS
<1>1. CASE Tick
  BY <1>1, TickHolds
<1>2. CASE Revoke
  BY <1>2, RevokeHolds
<1>3. CASE BodyReaction
  BY <1>3, BodyReactionHolds
<1>4. CASE ReadOn
  BY <1>4, ReadOnHolds
<1>5. CASE ReadOver
  BY <1>5, ReadOverHolds
<1>6. CASE ProgramGotResponse
  BY <1>6, ProgramGotResponseHolds
<1>7. CASE XhrReaction
  BY <1>7, XhrReactionHolds
<1>8. CASE EsOpened
  BY <1>8, EsOpenedHolds
<1>9. CASE EsRead
  BY <1>9, EsReadHolds
<1>10. CASE CallFetchAPI
  BY <1>10, CallFetchAPIHolds
<1>11. CASE FireSignal
  BY <1>11, FireSignalHolds
<1>12. CASE XhrStep
  BY <1>12, XhrStepHolds
<1>13. CASE XhrCall
  BY <1>13, XhrCallHolds
<1>14. CASE XhrTimer
  BY <1>14, XhrTimerHolds
<1>15. CASE EsTimer
  BY <1>15, EsTimerHolds
<1>16. CASE EsClose
  BY <1>16, EsCloseHolds
<1>17. CASE UNCHANGED vars
  BY <1>17 DEF vars, IInv
<1> QED BY <1>1, <1>2, <1>3, <1>4, <1>5, <1>6, <1>7, <1>8, <1>9, <1>10, <1>11, <1>12, <1>13,
           <1>14, <1>15, <1>16, <1>17 DEF Next, Microtask

-------------------------------------------------------------------------------
(* What the invariant says of the three programs.                                  *)

LEMMA InvServes == IInv => WaitersAreServed
<1> SUFFICES ASSUME IInv PROVE WaitersAreServed
  OBVIOUS
<1>1. FetchInv(net)
  BY DEF IInv, Kinds
<1>2. PICK f : f = net
  OBVIOUS
<1>3. IsFetch(f) /\ f.next \in Nat /\ \A d \in Ids : Core(f, d) /\ Prompt(f, d) /\ Calm(f, d)
  BY <1>1, <1>2, InvAt
<1>4. f.pending \in Seq(Ids) /\ DOMAIN f.pending = 1 .. Len(f.pending)
      /\ DOMAIN f.req \subseteq Ids /\ DOMAIN f.body \subseteq Ids
  <2>1. f.pending \in Seq(Ids)
    BY <1>3 DEF IsFetch
  <2>2. DOMAIN f.req \subseteq Ids /\ DOMAIN f.body \subseteq Ids
    BY <1>3 DEF IsFetch, IsTable
  <2> QED BY <2>1, <2>2
<1>5. ASSUME NEW id \in DOMAIN f.req
      PROVE  /\ f.req[id].wait => f.req[id].easy /\ f.req[id].chunks = <<>> /\ ~f.req[id].complete
             /\ f.req[id].easy <=> f.req[id].held
             /\ f.req[id].easy <=> \E i \in DOMAIN f.pending : f.pending[i] = id
  <2>1. id \in Ids /\ Live(f, id) /\ f.req[id] \in Requests
    BY <1>3, <1>4 DEF Live, IsFetch, IsTable
  <2>2. ReqAt(f, id) /\ Calm(f, id)
    BY <1>3, <2>1 DEF Core
  <2>3. /\ f.req[id].easy \in BOOLEAN /\ f.req[id].held \in BOOLEAN
        /\ f.req[id].complete \in BOOLEAN /\ f.req[id].wait \in BOOLEAN
    BY <2>1 DEF Requests
  <2>4. /\ f.req[id].wait => f.req[id].easy /\ f.req[id].chunks = <<>>
        /\ f.req[id].held = f.req[id].easy /\ f.req[id].complete = ~f.req[id].easy
        /\ f.req[id].easy <=> In(f.pending, id)
    BY <2>1, <2>2 DEF ReqAt, Calm, Waits
  <2>5. In(f.pending, id) <=> \E i \in DOMAIN f.pending : f.pending[i] = id
    BY <1>4 DEF In
  <2> QED BY <2>3, <2>4, <2>5
<1>6. ASSUME f.jobs = <<>>,
             \/ \E id \in 1 .. f.next - 1 : f.told[id] = "nothing"
             \/ \E id \in DOMAIN f.body : f.body[id].pendingReads > 0
      PROVE  HasPending(f)
  <2>1. \A d \in Ids : Of(f.jobs, d) = {}
    BY <1>6 DEF Of
  <2>2. CASE \E id \in 1 .. f.next - 1 : f.told[id] = "nothing"
    <3>1. PICK id \in 1 .. f.next - 1 : f.told[id] = "nothing"
      BY <2>2
    <3>2. id \in Ids /\ id < f.next
      BY <1>3, <3>1, FetchAssumption DEF IsFetch, Ids
    <3>3. Live(f, id)
      BY <1>3, <3>1, <3>2 DEF Core, GoneAt
    <3>4. f.req[id].promise /\ (f.req[id].easy => In(f.pending, id))
      BY <1>3, <3>1, <3>2, <3>3 DEF Core, ReqAt
    <3>5. CASE f.req[id].easy
      <4>1. f.pending # <<>>
        BY <3>4, <3>5 DEF In
      <4> QED BY <4>1 DEF HasPending
    <3>6. CASE ~f.req[id].easy
      <4>1. In(f.localPending, id)
        BY <1>1, <1>2, <3>2, <3>3, <3>4, <3>6 DEF FetchInv, Parked
      <4>2. f.localPending # <<>>
        BY <4>1 DEF In
      <4> QED BY <4>2 DEF HasPending
    <3> QED BY <3>5, <3>6
  <2>3. CASE \E id \in DOMAIN f.body : f.body[id].pendingReads > 0
    <3>1. PICK id \in DOMAIN f.body : f.body[id].pendingReads > 0
      BY <2>3
    <3>2. id \in Ids /\ Streaming(f, id) /\ f.body[id] \in Readables
      BY <1>3, <1>4, <3>1 DEF Streaming, IsFetch, IsTable
    <3>3. f.body[id].pendingReads = 1
      <4>1. f.body[id].pendingReads \in {0, 1}
        BY <3>2 DEF Readables
      <4> QED BY <3>1, <4>1
    <3>4. PullAt(f, id)
      BY <1>3, <3>2 DEF Core, BodyAt
    <3>5. ~JobOn(f, "pull", id)
      BY <2>1, <3>2 DEF JobOn
    <3>6. Waits(f, id)
      BY <3>3, <3>4, <3>5 DEF PullAt
    <3> QED BY <3>6 DEF HasPending, Waits, Live
  <2> QED BY <1>6, <2>2, <2>3
<1>7. Quiet => f.jobs = <<>>
  BY <1>2 DEF Quiet
<1> QED BY <1>2, <1>5, <1>6, <1>7 DEF WaitersAreServed

LEMMA InvLifeline == IInv => OneLifeline
<1> SUFFICES ASSUME IInv, who = "eventsource", ~es.closed
             PROVE  LET connecting == \/ net.told[es.conn] = "nothing"
                                      \/ \E i \in DOMAIN net.jobs : /\ net.jobs[i].on = "fetched"
                                                                    /\ net.jobs[i].id = es.conn
                    IN  es.timers + (IF connecting THEN 1 ELSE 0)
                          + (IF es.pump THEN 1 ELSE 0) = 1
  BY DEF OneLifeline
<1>1. PICK f, s : f = net /\ s = es
  OBVIOUS
<1>2. EsType(s) /\ Bound(f, s) /\ Lifeline(f, s) /\ FetchInv(f)
  BY <1>1 DEF IInv, Kinds, EsInv
<1>3. s.conn \in Ids /\ s.conn < f.next /\ s.timers \in {0, 1} /\ s.pump \in BOOLEAN
  BY <1>2 DEF EsType, Bound
<1>4. IsFetch(f) /\ Core(f, s.conn)
  BY <1>2, <1>3, InvAt
<1>5. ~(Connecting(f, s.conn) /\ Reading(f, s.conn))
  BY <1>4 DEF Core, JobsAt
<1>6. DOMAIN f.jobs = 1 .. Len(f.jobs)
  BY <1>4 DEF IsFetch
<1>7. JobOn(f, "fetched", s.conn) <=>
        \E i \in DOMAIN f.jobs : f.jobs[i].on = "fetched" /\ f.jobs[i].id = s.conn
  BY <1>6 DEF JobOn, Of, Key
<1>8. Connecting(f, s.conn) <=>
        \/ f.told[s.conn] = "nothing"
        \/ \E i \in DOMAIN f.jobs : f.jobs[i].on = "fetched" /\ f.jobs[i].id = s.conn
  BY <1>3, <1>7 DEF Connecting
<1>9. PICK b \in BOOLEAN : b <=> Connecting(f, s.conn)
  OBVIOUS
<1>10. (s.pump => ~b) /\ (s.timers = 1 <=> ~b /\ ~s.pump)
  BY <1>2, <1>3, <1>5, <1>9 DEF Lifeline
<1>11. s.timers + (IF b THEN 1 ELSE 0) + (IF s.pump THEN 1 ELSE 0) = 1
  BY <1>3, <1>10
<1> QED BY <1>1, <1>8, <1>9, <1>11

\* One event of each rank, in order.
LEMMA OutcomePrefix ==
  ASSUME NEW h \in Seq(EventTypes), \A i \in 1 .. Len(h) : Rank(h[i]) = i
  PROVE  \E o \in Outcomes : IsPrefix(h, <<"loadstart", o, "loadend">>)
<1>1. PICK k : k = Len(h)
  OBVIOUS
<1>2. k \in Nat
  BY <1>1
<1>3. k <= 3
  <2> SUFFICES ASSUME ~(k <= 3) PROVE FALSE
    OBVIOUS
  <2>1. 4 \in 1 .. Len(h)
    BY <1>1, <1>2
  <2>2. Rank(h[4]) = 4 /\ Rank(h[4]) \in 1 .. 3
    BY <2>1, RankIs
  <2> QED BY <2>2
<1>4. \A i \in 1 .. k : h[i] \in EventTypes /\ Rank(h[i]) = i
  BY <1>1
<1>5. ASSUME NEW type \in EventTypes
      PROVE  /\ Rank(type) = 1 => type = "loadstart"
             /\ Rank(type) = 2 => type \in Outcomes
             /\ Rank(type) = 3 => type = "loadend"
  BY DEF Rank, EventTypes, Outcomes
<1>6. PICK o \in Outcomes : 2 \in 1 .. k => h[2] = o
  <2>1. CASE 2 \in 1 .. k
    BY <1>4, <1>5, <2>1
  <2>2. CASE 2 \notin 1 .. k
    BY <2>2 DEF Outcomes
  <2> QED BY <2>1, <2>2
<1>7. PICK t : t = <<"loadstart", o, "loadend">>
  OBVIOUS
<1>8. /\ t \in Seq({"loadstart", o, "loadend"}) /\ Len(t) = 3
      /\ t[1] = "loadstart" /\ t[2] = o /\ t[3] = "loadend"
  BY ONLY <1>7
<1>9. \A i \in 1 .. k : h[i] = t[i]
  <2> SUFFICES ASSUME NEW i \in 1 .. k PROVE h[i] = t[i]
    OBVIOUS
  <2>1. i = 1 \/ i = 2 \/ i = 3
    BY <1>2, <1>3
  <2>2. h[i] \in EventTypes /\ Rank(h[i]) = i
    BY <1>4
  <2>3. CASE i = 1
    BY <1>5, <1>8, <2>2, <2>3
  <2>4. CASE i = 2
    BY <1>6, <1>8, <2>4
  <2>5. CASE i = 3
    BY <1>5, <1>8, <2>2, <2>5
  <2> QED BY <2>1, <2>3, <2>4, <2>5
<1>10. SubSeq(h, 1, k) = SubSeq(t, 1, k)
  <2>1. PICK a, b : a = SubSeq(h, 1, k) /\ b = SubSeq(t, 1, k)
    OBVIOUS
  <2>2. a = [i \in 1 .. k |-> h[i]] /\ b = [i \in 1 .. k |-> t[i]]
    BY <1>1, <1>2, <1>3, <1>8, <2>1
  <2> QED BY <1>9, <2>1, <2>2
<1>11. k <= Len(t)
  BY <1>3, <1>8
<1>12. IsPrefix(h, t)
  BY <1>1, <1>10, <1>11 DEF IsPrefix
<1> QED BY <1>7, <1>12

LEMMA InvOutcome == IInv => OneOutcome
<1> SUFFICES ASSUME IInv, NEW n \in 1 .. MaxSends
             PROVE  /\ \E o \in Outcomes : IsPrefix(x.hist[n], <<"loadstart", o, "loadend">>)
                    /\ Contains(x.hist[n], "load")
                         => n \notin x.aborted /\ net.end[x.flight[n].id] # "denied"
  BY DEF OneOutcome
<1>1. PICK h : h = x.hist[n]
  OBVIOUS
<1>2. /\ h \in Seq(EventTypes) /\ \A i \in 1 .. Len(h) : Rank(h[i]) = i
      /\ \A i \in 1 .. Len(h) :
           h[i] = "load" => n \notin x.aborted /\ net.end[x.flight[n].id] # "denied"
  <2>1. CASE who = "xhr"
    <3>1. Tale(net, x) /\ TaleAt(net, x, n)
      BY <2>1 DEF IInv, Kinds, Tale
    <3>2. h \in Seq(EventTypes)
      BY <1>1, <3>1 DEF Tale
    <3> QED BY <1>1, <3>1, <3>2 DEF TaleAt, Loads, MayLoad
  <2>2. CASE who # "xhr"
    <3>1. h = <<>>
      BY <1>1, <2>2 DEF IInv, Kinds, Asleep
    <3> QED BY <3>1
  <2> QED BY <2>1, <2>2
<1>3. \E o \in Outcomes : IsPrefix(h, <<"loadstart", o, "loadend">>)
  BY ONLY <1>2, OutcomePrefix
<1>4. Contains(h, "load") => n \notin x.aborted /\ net.end[x.flight[n].id] # "denied"
  BY <1>2 DEF Contains
<1> QED BY <1>1, <1>3, <1>4

LEMMA InvOnce == IInv => EventsOnce
<1> SUFFICES ASSUME IInv PROVE EventsOnce
  OBVIOUS
<1>1. CASE who = "eventsource"
  <2>1. EsType(es) /\ Resumes(es)
    BY <1>1 DEF IInv, Kinds, EsInv
  <2>2. DOMAIN es.seen = 1 .. Len(es.seen)
    BY <2>1 DEF EsType
  <2> QED BY <2>1, <2>2 DEF Resumes, EventsOnce
<1>2. CASE who # "eventsource"
  BY <1>2 DEF IInv, Kinds, EventsOnce
<1> QED BY <1>1, <1>2

\* The table, the bodies and the microtasks of fetch() fit each other, whichever of the
\* three programs uses them: what the other theorems rest on.
THEOREM InvAlways == Spec => []IInv
<1>1. Init => IInv
  BY InitHolds
<1>2. IInv /\ [Next]_vars => IInv'
  BY NextHolds
<1> QED BY <1>1, <1>2, PTL DEF Spec

\* A reader that waits for more of a body is one that curl will wake, and while somebody
\* waits for a promise of fetch() or of read() the host is told that something is pending:
\* __brokit_fetch_has_pending never lets the loop end with a promise that nobody settles.
THEOREM WaitersAlwaysServed == Spec => []WaitersAreServed
<1>1. IInv => WaitersAreServed
  BY InvServes
<1> QED BY <1>1, InvAlways, PTL

\* Each send() of an XMLHttpRequest dispatches loadstart, one outcome, loadend, at most,
\* in this order, whatever its handlers call and throw in the middle of the events and
\* whichever of answer, timeout and abort comes first: the seq that a send() has captured
\* keeps late answers and timers out.  What was aborted or lost its grant never loads.
THEOREM AlwaysOneOutcome == Spec => []OneOutcome
<1>1. IInv => OneOutcome
  BY InvOutcome
<1> QED BY <1>1, InvAlways, PTL

\* An EventSource that is not closed hangs on one thread: a request, a read or a timer.
\* _failAndReconnect neither forgets it nor makes it two, whatever fails and whoever
\* closes it in a handler.
THEOREM AlwaysOneLifeline == Spec => []OneLifeline
<1>1. IInv => OneLifeline
  BY InvLifeline
<1> QED BY <1>1, InvAlways, PTL

\* The events of the server are dispatched in order, none twice and none left out, across
\* chunks that cut them and reconnections that resume from Last-Event-ID.
THEOREM EventsAlwaysOnce == Spec => []EventsOnce
<1>1. IInv => EventsOnce
  BY InvOnce
<1> QED BY <1>1, InvAlways, PTL

===============================================================================
