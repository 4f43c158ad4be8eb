----------------------------- MODULE IndexedDb_proof ----------------------------
(***************************************************************************)
(* Proofs about IndexedDb, for any keys and values and any number of calls *)
(* and transactions: 'complete' comes after the outcome of every request   *)
(* made along with its transaction, and none of these is an error; and one *)
(* that is aborted gives back the rows it found; and a cursor shows each   *)
(* row there was once, in order.                                           *)
(*                                                                         *)
(* The code has no list of a transaction's requests to wait for.  It is    *)
(* the order of the microtasks that does it: the one that completes a      *)
(* transaction is queued behind those of the requests made before.         *)
(***************************************************************************)
EXTENDS IndexedDb, FiniteSetTheorems, FunctionTheorems, SequenceTheorems, NaturalsInduction,
        WellFoundedInduction, TLAPS

Tasks == [kind : {"upgrade", "opened", "begin", "complete", "abort", "failed", "request",
                  "cursor", "move", "stray"},
          of : Nat, key : Nat, by : Nat]

Requests == [tx : Nat, early : BOOLEAN, fails : BOOLEAN,
             told : {<<>>, <<"success">>, <<"error">>}]

TxFields == {"mode", "log", "started", "completed", "aborted", "told", "before",
             "restored", "alone", "late"}

\* Of a transaction's fields those that matter here have a type; rows have none.
IsTx(tx) == /\ tx = [f \in TxFields |-> tx[f]]
            /\ tx.started \in BOOLEAN /\ tx.completed \in BOOLEAN /\ tx.aborted \in BOOLEAN
            /\ tx.told \in Seq({"abort", "complete", "error"})

Completed(tx) == "complete" \in Range(tx.told)

\* A list of anything.
IsList(s) == \E n \in Nat : s = [i \in 1 .. n |-> s[i]]

\* A transaction moves on and does not complete.
Later(a, b) == /\ IsTx(b)
               /\ a.started => b.started
               /\ Over(a) => Over(b)
               /\ Completed(b) <=> Completed(a)

AllLater(ts, us) == /\ IsList(us) /\ DOMAIN us = DOMAIN ts
                    /\ \A t \in DOMAIN ts : Later(ts[t], us[t])

\* The microtask at i is about something there is, no other one is about its request,
\* and if it completes a transaction then no early request of that is behind it.
Fits(q, rs, ts, i) ==
  /\ q[i].kind = "request" => q[i].of \in DOMAIN rs /\ rs[q[i].of].told = <<>>
  /\ q[i].kind = "complete" => q[i].of \in DOMAIN ts /\ ts[q[i].of].started
  /\ q[i].kind \in {"begin", "abort", "failed"} => q[i].of \in DOMAIN ts
  /\ \A j \in i + 1 .. Len(q) :
       q[j].kind = "request" =>
         /\ q[i].kind = "request" => q[i].of # q[j].of
         /\ q[i].kind = "complete" /\ rs[q[j].of].early => q[i].of # rs[q[j].of].tx

Ordered(q, rs, ts) == \A i \in 1 .. Len(q) : Fits(q, rs, ts, i)

\* A request without an outcome has its microtask.
Awaited(q, rs) == \A r \in DOMAIN rs : rs[r].told = <<>> =>
                    \E i \in 1 .. Len(q) : q[i].kind = "request" /\ q[i].of = r

Outcome(r, tx, isRejecting) ==
  /\ r.early /\ Completed(tx) => r.told = <<"success">>
  /\ r.told = <<"error">> => isRejecting \/ Over(tx)

Outcomes(rs, ts, rej) ==
  \A r \in DOMAIN rs : /\ rs[r].tx \in DOMAIN ts
                       /\ Outcome(rs[r], ts[rs[r].tx], r = rej)

Transactions(ts) == /\ IsList(ts)
                    /\ \A t \in DOMAIN ts : IsTx(ts[t]) /\ (Completed(ts[t]) => ts[t].started)

Cursors(cs, ts) == /\ IsList(cs)
                   /\ \A c \in DOMAIN cs : "tx" \in DOMAIN cs[c] /\ cs[c].tx \in DOMAIN ts

CompletionInv == /\ microtasks \in Seq(Tasks) /\ reqs \in Seq(Requests)
                 /\ IsList(opens) /\ Transactions(txs)
                 /\ Cursors(cursors, txs)
                 /\ Ordered(microtasks, reqs, txs)
                 /\ Awaited(microtasks, reqs)
                 /\ rejecting \in {0} \union DOMAIN reqs
                 /\ Outcomes(reqs, txs, rejecting)

-------------------------------------------------------------------------------
(* The queue. *)

\* The first microtask is done, and was not that of a request.
LEMMA Dropped ==
  ASSUME NEW q \in Seq(Tasks), q # <<>>, NEW rs, NEW ts, Ordered(q, rs, ts), Awaited(q, rs),
         Head(q).kind # "request"
  PROVE  Tail(q) \in Seq(Tasks) /\ Ordered(Tail(q), rs, ts) /\ Awaited(Tail(q), rs)
<1>1. PICK v : v = Tail(q)
  OBVIOUS
<1>2. v \in Seq(Tasks) /\ Len(v) = Len(q) - 1 /\ \A i \in 1 .. Len(v) : v[i] = q[i + 1]
  BY <1>1, HeadTailProperties
<1>3. Len(q) \in Nat /\ Len(q) > 0 /\ q[1].kind # "request"
  BY EmptySeq, LenProperties
<1>4. Ordered(v, rs, ts)
  <2> SUFFICES ASSUME NEW i \in 1 .. Len(v)
               PROVE  Fits(v, rs, ts, i)
    BY DEF Ordered
  <2>1. i + 1 \in 1 .. Len(q) /\ v[i] = q[i + 1]
    BY <1>2, <1>3
  <2>2. \A j \in i + 1 .. Len(v) : j + 1 \in (i + 1) + 1 .. Len(q) /\ v[j] = q[j + 1]
    BY <1>2, <1>3
  <2>3. Fits(q, rs, ts, i + 1)
    BY <2>1 DEF Ordered
  <2>4. ASSUME NEW j \in i + 1 .. Len(v), v[j].kind = "request"
        PROVE  /\ v[i].kind = "request" => v[i].of # v[j].of
               /\ v[i].kind = "complete" /\ rs[v[j].of].early => v[i].of # rs[v[j].of].tx
    <3>1. PICK k : k = j + 1
      OBVIOUS
    <3>2. k \in (i + 1) + 1 .. Len(q) /\ v[j] = q[k]
      BY <2>2, <3>1
    <3> QED BY <2>1, <2>3, <2>4, <3>2 DEF Fits
  <2> QED BY <2>1, <2>3, <2>4 DEF Fits
<1>5. Awaited(v, rs)
  <2> SUFFICES ASSUME NEW r \in DOMAIN rs, rs[r].told = <<>>
               PROVE  \E i \in 1 .. Len(v) : v[i].kind = "request" /\ v[i].of = r
    BY DEF Awaited
  <2>1. PICK i \in 1 .. Len(q) : q[i].kind = "request" /\ q[i].of = r
    BY DEF Awaited
  <2>2. i - 1 \in 1 .. Len(v) /\ v[i - 1] = q[(i - 1) + 1]
    <3>1. i - 1 \in 1 .. Len(v)
      BY <1>2, <1>3, <2>1
    <3> QED BY <1>2, <3>1
  <2>3. (i - 1) + 1 = i
    OBVIOUS
  <2> QED BY <2>1, <2>2, <2>3
<1> QED BY <1>1, <1>2, <1>4, <1>5

\* A microtask is queued that is not a request's.
LEMMA Queued ==
  ASSUME NEW q \in Seq(Tasks), NEW e \in Tasks, NEW rs, NEW ts, Ordered(q, rs, ts), Awaited(q, rs),
         e.kind # "request",
         e.kind = "complete" => e.of \in DOMAIN ts /\ ts[e.of].started,
         e.kind \in {"begin", "abort", "failed"} => e.of \in DOMAIN ts
  PROVE  /\ Append(q, e) \in Seq(Tasks)
         /\ Ordered(Append(q, e), rs, ts) /\ Awaited(Append(q, e), rs)
<1>1. PICK v : v = Append(q, e)
  OBVIOUS
<1>2. /\ v \in Seq(Tasks) /\ Len(q) \in Nat /\ Len(v) = Len(q) + 1
      /\ \A i \in 1 .. Len(q) : v[i] = q[i]
      /\ v[Len(q) + 1] = e
  BY <1>1, AppendProperties, LenProperties
<1>3. Ordered(v, rs, ts)
  <2> SUFFICES ASSUME NEW i \in 1 .. Len(v)
               PROVE  Fits(v, rs, ts, i)
    BY DEF Ordered
  <2>1. CASE i \in 1 .. Len(q)
    <3>1. \A j \in i + 1 .. Len(v) : v[j].kind = "request" => j \in i + 1 .. Len(q) /\ v[j] = q[j]
      BY <1>2
    <3>2. v[i] = q[i]
      BY <1>2, <2>1
    <3> QED BY <2>1, <3>1, <3>2 DEF Ordered, Fits
  <2>2. CASE i = Len(q) + 1
    <3>1. i + 1 .. Len(v) = {} /\ v[i] = e
      BY <1>2, <2>2
    <3> QED BY <3>1 DEF Fits
  <2> QED BY <1>2, <2>1, <2>2
<1>4. Awaited(v, rs)
  <2>1. \A i \in 1 .. Len(q) : i \in 1 .. Len(v) /\ v[i] = q[i]
    BY <1>2
  <2> QED BY <2>1 DEF Awaited
<1> QED BY <1>1, <1>2, <1>3, <1>4

\* A request is made, and its microtask queued.
LEMMA RequestQueued ==
  ASSUME NEW q \in Seq(Tasks), NEW rs \in Seq(Requests), NEW ts,
         Ordered(q, rs, ts), Awaited(q, rs),
         NEW e \in Tasks, e.kind = "request", e.of = Len(rs) + 1,
         NEW r \in Requests, r.told = <<>>, r.early => ~ts[r.tx].started
  PROVE  /\ Append(q, e) \in Seq(Tasks) /\ Append(rs, r) \in Seq(Requests)
         /\ Ordered(Append(q, e), Append(rs, r), ts)
         /\ Awaited(Append(q, e), Append(rs, r))
<1>1. PICK v : v = Append(q, e)
  OBVIOUS
<1>2. PICK w : w = Append(rs, r)
  OBVIOUS
<1>3. /\ v \in Seq(Tasks) /\ Len(q) \in Nat /\ Len(v) = Len(q) + 1
      /\ \A i \in 1 .. Len(q) : v[i] = q[i]
      /\ v[Len(q) + 1] = e
  BY <1>1, AppendProperties, LenProperties
<1>4. /\ w \in Seq(Requests) /\ Len(rs) \in Nat /\ Len(w) = Len(rs) + 1
      /\ \A i \in 1 .. Len(rs) : w[i] = rs[i]
      /\ w[Len(rs) + 1] = r
  BY <1>2, AppendProperties, LenProperties
<1>5. /\ DOMAIN rs = 1 .. Len(rs) /\ DOMAIN w = 1 .. Len(rs) + 1
      /\ Len(rs) + 1 \notin DOMAIN rs
  BY <1>4, LenProperties
<1>6. \A i \in 1 .. Len(q) : q[i].kind = "request" =>
         q[i].of \in DOMAIN rs /\ w[q[i].of] = rs[q[i].of] /\ q[i].of # e.of
  BY <1>4, <1>5 DEF Ordered, Fits
<1>7. Ordered(v, w, ts)
  <2> SUFFICES ASSUME NEW i \in 1 .. Len(v)
               PROVE  Fits(v, w, ts, i)
    BY DEF Ordered
  <2>1. CASE i \in 1 .. Len(q)
    <3>1. Fits(q, rs, ts, i) /\ v[i] = q[i]
      BY <1>3, <2>1 DEF Ordered
    <3>2. ASSUME NEW j \in i + 1 .. Len(v), v[j].kind = "request"
          PROVE  /\ v[i].kind = "request" => v[i].of # v[j].of
                 /\ v[i].kind = "complete" /\ w[v[j].of].early => v[i].of # w[v[j].of].tx
      <4>1. CASE j \in i + 1 .. Len(q)
        <5>1. j \in 1 .. Len(q) /\ v[j] = q[j]
          BY <1>3, <2>1, <4>1
        <5> QED BY <1>6, <3>1, <3>2, <4>1, <5>1 DEF Fits
      <4>2. CASE j = Len(q) + 1
        <5>1. v[j] = e /\ w[e.of] = r
          BY <1>3, <1>4, <4>2
        <5>2. q[i].kind = "complete" /\ r.early => q[i].of # r.tx
          BY <3>1 DEF Fits
        <5> QED BY <1>6, <2>1, <3>1, <5>1, <5>2
      <4> QED BY <1>3, <2>1, <4>1, <4>2
    <3>3. v[i].kind = "request" => v[i].of \in DOMAIN w /\ w[v[i].of].told = <<>>
      BY <1>5, <1>6, <2>1, <3>1 DEF Fits
    <3> QED BY <3>1, <3>2, <3>3 DEF Fits
  <2>2. CASE i = Len(q) + 1
    <3>1. i + 1 .. Len(v) = {} /\ v[i] = e
      BY <1>3, <2>2
    <3>2. e.of \in DOMAIN w /\ w[e.of].told = <<>>
      BY <1>4, <1>5
    <3> QED BY <3>1, <3>2 DEF Fits
  <2> QED BY <1>3, <2>1, <2>2
<1>8. Awaited(v, w)
  <2> SUFFICES ASSUME NEW k \in DOMAIN w, w[k].told = <<>>
               PROVE  \E i \in 1 .. Len(v) : v[i].kind = "request" /\ v[i].of = k
    BY DEF Awaited
  <2>1. CASE k \in DOMAIN rs
    <3>1. PICK i \in 1 .. Len(q) : q[i].kind = "request" /\ q[i].of = k
      BY <1>4, <1>5, <2>1 DEF Awaited
    <3> QED BY <1>3, <3>1
  <2>2. CASE k = Len(rs) + 1
    BY <1>3, <2>2
  <2> QED BY <1>4, <1>5, <2>1, <2>2
<1> QED BY <1>1, <1>2, <1>3, <1>4, <1>7, <1>8

\* The first microtask tells a request's outcome.
LEMMA Told ==
  ASSUME NEW q \in Seq(Tasks), q # <<>>, NEW rs \in Seq(Requests), NEW ts,
         Ordered(q, rs, ts), Awaited(q, rs), Head(q).kind = "request",
         NEW o \in {"success", "error"},
         NEW w, w = [rs EXCEPT ![Head(q).of] = [rs[Head(q).of] EXCEPT !.told = <<o>>]]
  PROVE  /\ Tail(q) \in Seq(Tasks) /\ w \in Seq(Requests) /\ DOMAIN w = DOMAIN rs
         /\ Ordered(Tail(q), w, ts) /\ Awaited(Tail(q), w)
<1>1. PICK v : v = Tail(q)
  OBVIOUS
<1>2. v \in Seq(Tasks) /\ Len(v) = Len(q) - 1 /\ \A i \in 1 .. Len(v) : v[i] = q[i + 1]
  BY <1>1, HeadTailProperties
<1>3. Len(q) \in Nat /\ Len(q) > 0
  BY EmptySeq, LenProperties
<1>4. PICK x : x = q[1].of
  OBVIOUS
<1>5. Fits(q, rs, ts, 1) /\ q[1].kind = "request" /\ x = Head(q).of
  BY <1>3, <1>4 DEF Ordered
<1>6. x \in DOMAIN rs /\ rs[x] \in Requests
  BY <1>4, <1>5, ElementOfSeq, LenProperties DEF Fits
<1>7. PICK y : y = [rs[x] EXCEPT !.told = <<o>>]
  OBVIOUS
<1>8. y \in Requests /\ y.told = <<o>> /\ y.early = rs[x].early /\ y.tx = rs[x].tx
  BY <1>6, <1>7 DEF Requests
<1>9. w = [rs EXCEPT ![x] = y]
  BY <1>5, <1>7
<1>10. w \in Seq(Requests) /\ DOMAIN w = DOMAIN rs
  <2>1. x \in 1 .. Len(rs)
    BY <1>6, LenProperties
  <2>2. [rs EXCEPT ![x] = y] \in Seq(Requests)
    BY <1>8, <2>1, ExceptSeq
  <2>3. DOMAIN w = DOMAIN rs
    BY <1>9
  <2> QED BY <1>9, <2>2, <2>3
<1>11. \A r \in DOMAIN rs : /\ w[r].early = rs[r].early /\ w[r].tx = rs[r].tx
                           /\ r # x => w[r] = rs[r]
  BY <1>8, <1>9
<1>12. \A i \in 1 .. Len(v) : v[i].kind = "request" => v[i].of # x /\ v[i].of \in DOMAIN rs
  <2> SUFFICES ASSUME NEW i \in 1 .. Len(v), v[i].kind = "request"
               PROVE  v[i].of # x /\ v[i].of \in DOMAIN rs
    OBVIOUS
  <2>1. PICK k : k = i + 1
    OBVIOUS
  <2>2. k \in 1 + 1 .. Len(q) /\ k \in 1 .. Len(q) /\ v[i] = q[k]
    BY <1>2, <1>3, <2>1
  <2>3. Fits(q, rs, ts, k)
    BY <2>2 DEF Ordered
  <2> QED BY <1>4, <1>5, <2>2, <2>3 DEF Fits
<1>13. Ordered(v, w, ts)
  <2> SUFFICES ASSUME NEW i \in 1 .. Len(v) PROVE Fits(v, w, ts, i)
    BY DEF Ordered
  <2>1. PICK m : m = i + 1
    OBVIOUS
  <2>2. m \in 1 .. Len(q) /\ v[i] = q[m]
    BY <1>2, <1>3, <2>1
  <2>3. Fits(q, rs, ts, m)
    BY <2>2 DEF Ordered
  <2>4. ASSUME NEW j \in i + 1 .. Len(v), v[j].kind = "request"
        PROVE  /\ v[i].kind = "request" => v[i].of # v[j].of
               /\ v[i].kind = "complete" /\ w[v[j].of].early => v[i].of # w[v[j].of].tx
    <3>1. PICK k : k = j + 1
      OBVIOUS
    <3>2. j \in 1 .. Len(v) /\ k \in m + 1 .. Len(q) /\ v[j] = q[k]
      BY <1>2, <1>3, <2>1, <3>1
    <3>3. v[j].of \in DOMAIN rs
      BY <1>12, <2>4, <3>2
    <3> QED BY <1>11, <2>2, <2>3, <2>4, <3>2, <3>3 DEF Fits
  <2>5. v[i].kind = "request" => v[i].of \in DOMAIN w /\ w[v[i].of].told = <<>>
    <3> SUFFICES ASSUME v[i].kind = "request"
                 PROVE  v[i].of \in DOMAIN w /\ w[v[i].of].told = <<>>
      OBVIOUS
    <3>1. v[i].of \in DOMAIN rs /\ rs[v[i].of].told = <<>>
      BY <2>2, <2>3 DEF Fits
    <3>2. w[v[i].of] = rs[v[i].of]
      BY <1>11, <1>12, <3>1
    <3> QED BY <1>10, <3>1, <3>2
  <2> QED BY <2>2, <2>3, <2>4, <2>5 DEF Fits
<1>14. Awaited(v, w)
  <2> SUFFICES ASSUME NEW r \in DOMAIN w, w[r].told = <<>>
               PROVE  \E i \in 1 .. Len(v) : v[i].kind = "request" /\ v[i].of = r
    BY DEF Awaited
  <2>1. r # x
    <3>1. w[x].told # <<>>
      <4>1. w[x] = y
        BY <1>6, <1>9
      <4>2. <<o>> # <<>>
        OBVIOUS
      <4> QED BY <1>8, <4>1, <4>2
    <3> QED BY <3>1
  <2>2. rs[r].told = <<>>
    BY <1>10, <1>11, <2>1
  <2>3. PICK i \in 1 .. Len(q) : q[i].kind = "request" /\ q[i].of = r
    BY <1>10, <2>2 DEF Awaited
  <2>4. PICK k : k = i - 1
    OBVIOUS
  <2>5. i # 1
    BY <1>4, <2>1, <2>3
  <2>6. k \in 1 .. Len(v) /\ k + 1 = i
    BY <1>2, <1>3, <2>4, <2>5
  <2> QED BY <1>2, <2>3, <2>6
<1> QED BY <1>1, <1>2, <1>10, <1>13, <1>14

-------------------------------------------------------------------------------
(* The transactions. *)

LEMMA AppendToList ==
  ASSUME NEW s, IsList(s), NEW e
  PROVE  /\ IsList(Append(s, e)) /\ Len(s) \in Nat
         /\ DOMAIN s = 1 .. Len(s) /\ DOMAIN Append(s, e) = 1 .. Len(s) + 1
         /\ \A i \in DOMAIN s : Append(s, e)[i] = s[i]
         /\ Append(s, e)[Len(s) + 1] = e
<1>1. PICK n \in Nat : s = [i \in 1 .. n |-> s[i]]
  BY DEF IsList
<1>2. PICK S : S = {s[i] : i \in 1 .. n} \union {e}
  OBVIOUS
<1>3. s \in [1 .. n -> S]
  <2>1. \A i \in 1 .. n : s[i] \in S
    BY <1>2
  <2> QED BY <1>1, <2>1
<1>4. s \in Seq(S) /\ e \in S
  BY <1>2, <1>3, SeqDef
<1>5. Append(s, e) \in Seq(S) /\ Len(Append(s, e)) = Len(s) + 1
  BY <1>4, AppendProperties
<1>6. Len(s) \in Nat /\ DOMAIN s = 1 .. Len(s) /\ DOMAIN Append(s, e) = 1 .. Len(s) + 1
  BY <1>4, <1>5, LenProperties
<1>7. IsList(Append(s, e))
  <2>1. PICK v : v = Append(s, e)
    OBVIOUS
  <2>2. PICK m \in Nat : m = Len(s) + 1
    BY <1>6
  <2>3. v \in [1 .. m -> S]
    BY <1>5, <1>6, <2>1, <2>2, LenProperties
  <2>4. v = [i \in 1 .. m |-> v[i]]
    BY <2>3
  <2> QED BY <2>1, <2>4 DEF IsList
<1> QED BY <1>4, <1>6, <1>7, AppendProperties

\* What is not a function is none of ours.
LEMMA ListUpdated ==
  ASSUME NEW s, IsList(s), NEW x, NEW e, NEW w, w = [s EXCEPT ![x] = e]
  PROVE  /\ IsList(w) /\ DOMAIN w = DOMAIN s
         /\ \A i \in DOMAIN s : w[i] = IF i = x THEN e ELSE s[i]
<1>1. PICK n \in Nat : s = [i \in 1 .. n |-> s[i]]
  BY DEF IsList
<1>2. DOMAIN s = 1 .. n
  BY <1>1
<1>3. w = [i \in 1 .. n |-> w[i]]
  BY <1>2
<1> QED BY <1>2, <1>3 DEF IsList

LEMMA Unchanged == ASSUME NEW a, IsTx(a) PROVE Later(a, a)
<1> QED BY DEF Later

LEMMA AllUnchanged == ASSUME NEW ts, Transactions(ts) PROVE AllLater(ts, ts)
<1> QED BY Unchanged DEF AllLater, Transactions

\* `alone` is history.
LEMMA DisturbedOne ==
  ASSUME NEW a, IsTx(a), NEW v, NEW b, b = [a EXCEPT !.alone = v]
  PROVE  Later(a, b) /\ b.mode = a.mode /\ b.log = a.log /\ b.alone = v
<1>1. /\ b = [f \in TxFields |-> b[f]]
      /\ b.mode = a.mode /\ b.log = a.log /\ b.alone = v
      /\ b.started = a.started /\ b.completed = a.completed /\ b.aborted = a.aborted
      /\ b.told = a.told
  BY DEF IsTx, TxFields
<1> QED BY <1>1 DEF Later, IsTx, Over, Completed

LEMMA DisturbedLater ==
  ASSUME Transactions(txs), NEW t
  PROVE  AllLater(txs, Disturbed(t))
<1>1. PICK us : us = Disturbed(t)
  OBVIOUS
<1>2. DOMAIN us = DOMAIN txs
  BY <1>1 DEF Disturbed
<1>3. IsList(us)
  <2>1. PICK n \in Nat : DOMAIN txs = 1 .. n
    BY DEF Transactions, IsList
  <2>2. us = [u \in 1 .. n |-> us[u]]
    BY <1>1, <2>1 DEF Disturbed
  <2> QED BY <2>2 DEF IsList
<1>4. ASSUME NEW u \in DOMAIN txs PROVE Later(txs[u], us[u])
  <2>1. PICK v : us[u] = [txs[u] EXCEPT !.alone = v]
    BY <1>1 DEF Disturbed
  <2> QED BY <2>1, DisturbedOne DEF Transactions
<1> QED BY <1>1, <1>2, <1>3, <1>4 DEF AllLater

LEMMA LaterLater ==
  ASSUME NEW a, NEW b, NEW c, Later(a, b), Later(b, c)
  PROVE  Later(a, c)
<1> QED BY DEF Later

\* One transaction of those that follow moves on.
LEMMA OneLater ==
  ASSUME NEW ts, NEW us, Transactions(ts), AllLater(ts, us), NEW t \in DOMAIN ts,
         NEW b, Later(us[t], b), NEW vs, vs = [us EXCEPT ![t] = b]
  PROVE  AllLater(ts, vs)
<1>1. IsList(vs) /\ DOMAIN vs = DOMAIN ts /\ \A u \in DOMAIN ts : vs[u] = IF u = t THEN b ELSE us[u]
  BY ListUpdated DEF AllLater
<1>2. ASSUME NEW u \in DOMAIN ts PROVE Later(ts[u], vs[u])
  BY <1>1, LaterLater DEF AllLater
<1> QED BY <1>1, <1>2 DEF AllLater

\* What the transactions' moving on leaves alone.
LEMMA AfterLater ==
  ASSUME NEW ts, NEW us, Transactions(ts), AllLater(ts, us),
         NEW q, NEW rs, NEW rej, NEW cs
  PROVE  /\ Transactions(us)
         /\ Ordered(q, rs, ts) => Ordered(q, rs, us)
         /\ Outcomes(rs, ts, rej) => Outcomes(rs, us, rej)
         /\ Cursors(cs, ts) => Cursors(cs, us)
<1>1. Transactions(us)
  BY DEF AllLater, Later, Transactions
<1>2. ASSUME Ordered(q, rs, ts) PROVE Ordered(q, rs, us)
  BY <1>2 DEF AllLater, Later, Ordered, Fits
<1>3. ASSUME Outcomes(rs, ts, rej) PROVE Outcomes(rs, us, rej)
  BY <1>3 DEF AllLater, Later, Outcomes, Outcome
<1>4. ASSUME Cursors(cs, ts) PROVE Cursors(cs, us)
  BY <1>4 DEF AllLater, Cursors
<1> QED BY <1>1, <1>2, <1>3, <1>4

-------------------------------------------------------------------------------
(* The steps. *)

LEMMA InitCompletion == Init => CompletionInv
<1> SUFFICES ASSUME Init PROVE CompletionInv
  OBVIOUS
<1>1. microtasks = <<>> /\ txs = <<>> /\ reqs = <<>> /\ cursors = <<>> /\ rejecting = 0
  BY DEF Init
<1>2. microtasks \in Seq(Tasks) /\ reqs \in Seq(Requests)
  BY <1>1
<1>3. DOMAIN <<>> = 1 .. 0 /\ Len(<<>>) = 0 /\ 1 .. 0 = {}
  OBVIOUS
<1>4. IsList(txs)
  <2>1. <<>> = [i \in 1 .. 0 |-> <<>>[i]]
    BY <1>3
  <2> QED BY <1>1, <2>1 DEF IsList
<1>5. IsList(opens)
  <2>1. CASE opens = <<>>
    BY <1>1, <1>4, <2>1
  <2>2. CASE opens = <<<<"success">>>>
    <3>1. opens = [i \in 1 .. 1 |-> opens[i]]
      BY <2>2
    <3> QED BY <3>1 DEF IsList
  <2> QED BY <2>1, <2>2 DEF Init
<1> QED BY <1>1, <1>2, <1>3, <1>4, <1>5
         DEF CompletionInv, Transactions, Cursors, Ordered, Awaited, Outcomes

LEMMA MicrotaskTyped ==
  ASSUME NEW kind \in {"upgrade", "opened", "begin", "complete", "abort", "failed", "request",
                       "cursor", "move", "stray"}, NEW x \in Nat
  PROVE  /\ Microtask(kind, x) \in Tasks
         /\ Microtask(kind, x).kind = kind /\ Microtask(kind, x).of = x
<1> QED BY DEF Microtask, Tasks, None

\* One microtask, and no request, is queued while the transactions move on.
LEMMA QueuedStep ==
  ASSUME CompletionInv, NEW q \in Seq(Tasks),
         Ordered(q, reqs, txs), Awaited(q, reqs),
         NEW e \in Tasks, e.kind # "request",
         microtasks' = Append(q, e), reqs' = reqs,
         rejecting' \in {0, rejecting},
         IsList(opens'), AllLater(txs, txs'), Cursors(cursors', txs'),
         Outcomes(reqs, txs', rejecting'),
         e.kind = "complete" => e.of \in DOMAIN txs /\ txs'[e.of].started,
         e.kind \in {"begin", "abort", "failed"} => e.of \in DOMAIN txs
  PROVE  CompletionInv'
<1>1. PICK us : us = txs'
  OBVIOUS
<1>2. PICK w : w = Append(q, e)
  OBVIOUS
<1>3. Transactions(us) /\ Ordered(q, reqs, us) /\ DOMAIN us = DOMAIN txs
  BY <1>1, AfterLater DEF CompletionInv, AllLater
<1>4. w \in Seq(Tasks) /\ Ordered(w, reqs, us) /\ Awaited(w, reqs)
  BY <1>1, <1>2, <1>3, Queued
<1>5. rejecting' \in {0} \union DOMAIN reqs
  BY DEF CompletionInv
<1>6. microtasks' = w /\ txs' = us
  BY <1>1, <1>2
<1> QED BY <1>1, <1>3, <1>4, <1>5, <1>6 DEF CompletionInv

\* As long as the transactions just move on.
LEMMA MovedOn ==
  ASSUME CompletionInv, AllLater(txs, txs'), rejecting' = rejecting
  PROVE  /\ Outcomes(reqs, txs', rejecting')
         /\ cursors' = cursors => Cursors(cursors', txs')
<1>1. PICK us : us = txs'
  OBVIOUS
<1>2. Outcomes(reqs, us, rejecting) /\ Cursors(cursors, us)
  BY <1>1, AfterLater DEF CompletionInv
<1> QED BY <1>1, <1>2

\* The queue has been served, if at all; nothing is added to it.
LEMMA QuietStep ==
  ASSUME CompletionInv, microtasks' \in Seq(Tasks),
         Ordered(microtasks', reqs, txs), Awaited(microtasks', reqs),
         reqs' = reqs, rejecting' \in {0, rejecting},
         IsList(opens'), AllLater(txs, txs'), Cursors(cursors', txs'),
         Outcomes(reqs, txs', rejecting')
  PROVE  CompletionInv'
<1>1. PICK us : us = txs'
  OBVIOUS
<1>2. PICK w : w = microtasks'
  OBVIOUS
<1>3. Transactions(us) /\ Ordered(w, reqs, us)
  BY <1>1, <1>2, AfterLater DEF CompletionInv
<1>4. rejecting' \in {0} \union DOMAIN reqs
  BY DEF CompletionInv
<1> QED BY <1>1, <1>2, <1>3, <1>4 DEF CompletionInv

\* One transaction rolled back.
LEMMA RolledBackLater ==
  ASSUME CompletionInv, NEW t \in DOMAIN txs, RolledBack(t)
  PROVE  AllLater(txs, txs') /\ txs'[t].aborted
<1>1. PICK rows : rows = Undone(table, txs[t].log)
  OBVIOUS
<1>2. PICK base : base = IF rows = table THEN txs ELSE Disturbed(t)
  OBVIOUS
<1>3. PICK late : late = (txs[t].completed /\ ~txs[t].aborted)
  OBVIOUS
<1>4. Transactions(txs)
  BY DEF CompletionInv
<1>5. AllLater(txs, base)
  BY <1>2, <1>4, AllUnchanged, DisturbedLater
<1>6. DOMAIN base = DOMAIN txs /\ IsTx(base[t])
  BY <1>5 DEF AllLater, Later
<1>7. PICK b : b = [base[t] EXCEPT !.log = <<>>, !.aborted = TRUE, !.completed = TRUE,
                                   !.restored = rows, !.late = base[t].late \/ late]
  OBVIOUS
<1>8. txs' = [base EXCEPT ![t] = b]
  BY <1>1, <1>2, <1>3, <1>6, <1>7 DEF RolledBack
<1>9. Later(base[t], b) /\ b.aborted
  <2>1. /\ b = [f \in TxFields |-> b[f]]
        /\ b.aborted = TRUE /\ b.completed = TRUE
        /\ b.started = base[t].started /\ b.told = base[t].told
    BY <1>6, <1>7 DEF IsTx, TxFields
  <2> QED BY <1>6, <2>1 DEF Later, IsTx, Over, Completed
<1>10. AllLater(txs, [base EXCEPT ![t] = b])
  BY <1>4, <1>5, <1>9, OneLater
<1>11. txs'[t] = b
  BY <1>6, <1>8
<1> QED BY <1>8, <1>9, <1>10, <1>11

LEMMA OpenStep ==
  ASSUME CompletionInv, NEW requested, Open(requested)
  PROVE  CompletionInv'
<1>1. PICK kind : kind = IF requested > version THEN "upgrade" ELSE "opened"
  OBVIOUS
<1>2. PICK o : o = Len(opens) + 1
  OBVIOUS
<1>3. PICK e : e = Microtask(kind, o)
  OBVIOUS
<1>4. /\ opens' = Append(opens, <<>>) /\ microtasks' = Append(microtasks, e)
      /\ UNCHANGED <<txs, reqs, cursors, rejecting>>
  BY <1>1, <1>2, <1>3 DEF Open, QueueMicrotask
<1>5. IsList(opens') /\ o \in Nat
  <2>1. PICK v : v = Append(opens, <<>>)
    OBVIOUS
  <2>2. IsList(v) /\ Len(opens) \in Nat
    BY <2>1, AppendToList DEF CompletionInv
  <2> QED BY <1>2, <1>4, <2>1, <2>2
<1>6. e \in Tasks /\ e.kind \in {"upgrade", "opened"}
  BY <1>1, <1>3, <1>5, MicrotaskTyped
<1>7. AllLater(txs, txs)
  BY AllUnchanged DEF CompletionInv
<1> QED BY <1>4, <1>5, <1>6, <1>7, QueuedStep DEF CompletionInv

LEMMA DeletedStep ==
  ASSUME CompletionInv, DeleteStore \/ DeleteDatabase
  PROVE  CompletionInv'
<1>1. Transactions(txs)
  BY DEF CompletionInv
<1>2. txs' = Disturbed(0) /\ UNCHANGED <<microtasks, opens, reqs, cursors, rejecting>>
  BY DEF DeleteStore, DeleteDatabase
<1>3. AllLater(txs, txs')
  BY <1>1, <1>2, DisturbedLater
<1> QED BY <1>2, <1>3, MovedOn, QuietStep DEF CompletionInv

LEMMA AbortStep ==
  ASSUME CompletionInv, NEW t \in DOMAIN txs, Abort(t)
  PROVE  CompletionInv'
<1>1. /\ RolledBack(t) /\ UNCHANGED <<opens, reqs, cursors, rejecting>>
      /\ microtasks' = Append(microtasks, Microtask("abort", t))
  BY DEF Abort, QueueMicrotask
<1>2. AllLater(txs, txs')
  BY <1>1, RolledBackLater
<1>3. t \in Nat
  BY DEF CompletionInv, Transactions, IsList
<1>4. PICK e : e = Microtask("abort", t)
  OBVIOUS
<1>5. e \in Tasks /\ e.kind = "abort" /\ e.of = t
  BY <1>3, <1>4, MicrotaskTyped
<1>6. Outcomes(reqs, txs', rejecting') /\ Cursors(cursors', txs')
  BY <1>1, <1>2, MovedOn
<1> QED BY <1>1, <1>2, <1>4, <1>5, <1>6, QueuedStep DEF CompletionInv

LEMMA RejectStep ==
  ASSUME CompletionInv, Reject
  PROVE  CompletionInv'
<1>1. PICK t : t = reqs[rejecting].tx
  OBVIOUS
<1>2. /\ rejecting \in DOMAIN reqs /\ t \in DOMAIN txs /\ Transactions(txs)
      /\ Outcomes(reqs, txs, rejecting)
      /\ rejecting' = 0 /\ UNCHANGED <<opens, reqs, cursors>>
  BY <1>1 DEF Reject, CompletionInv, Outcomes
<1>3. CASE Over(txs[t])
  <2>1. UNCHANGED <<txs, microtasks>>
    BY <1>1, <1>3 DEF Reject
  <2>2. Outcomes(reqs, txs, 0)
    BY <1>1, <1>2, <1>3 DEF Outcomes, Outcome
  <2>3. AllLater(txs, txs)
    BY <1>2, AllUnchanged
  <2> QED BY <1>2, <2>1, <2>2, <2>3, QuietStep DEF CompletionInv
<1>4. CASE ~Over(txs[t])
  <2>1. RolledBack(t) /\ microtasks' = Append(microtasks, Microtask("failed", t))
    BY <1>1, <1>4 DEF Reject, QueueMicrotask
  <2>2. AllLater(txs, txs') /\ txs'[t].aborted
    BY <1>2, <2>1, RolledBackLater
  <2>3. PICK us : us = txs'
    OBVIOUS
  <2>4. Outcomes(reqs, us, 0) /\ Cursors(cursors, us)
    <3>1. Outcomes(reqs, us, rejecting) /\ Cursors(cursors, us)
      BY <1>2, <2>2, <2>3, AfterLater DEF CompletionInv
    <3>2. Over(us[t])
      BY <2>2, <2>3 DEF Over
    <3> QED BY <1>1, <3>1, <3>2 DEF Outcomes, Outcome
  <2>5. t \in Nat
    BY <1>2 DEF Transactions, IsList
  <2>6. PICK e : e = Microtask("failed", t)
    OBVIOUS
  <2>7. e \in Tasks /\ e.kind = "failed" /\ e.of = t
    BY <2>5, <2>6, MicrotaskTyped
  <2> QED BY <1>2, <2>1, <2>2, <2>3, <2>4, <2>6, <2>7, QueuedStep DEF CompletionInv
<1> QED BY <1>3, <1>4

LEMMA TransactionStep ==
  ASSUME CompletionInv, NEW mode \in {"readonly", "readwrite"}, Transaction(mode)
  PROVE  CompletionInv'
<1>1. PICK us : us = txs'
  OBVIOUS
<1>2. PICK new : new = NewTransaction(mode)
  OBVIOUS
<1>3. PICK e : e = Microtask("begin", Len(txs) + 1)
  OBVIOUS
<1>4. PICK w : w = Append(microtasks, e)
  OBVIOUS
<1>5. /\ us = Append(txs, new) /\ microtasks' = w
      /\ UNCHANGED <<opens, reqs, cursors, rejecting>>
  BY <1>1, <1>2, <1>3, <1>4 DEF Transaction, QueueMicrotask
<1>6. /\ IsList(us) /\ Len(txs) \in Nat
      /\ DOMAIN txs = 1 .. Len(txs) /\ DOMAIN us = 1 .. Len(txs) + 1
      /\ \A t \in DOMAIN txs : us[t] = txs[t]
      /\ us[Len(txs) + 1] = new
  BY <1>5, AppendToList DEF CompletionInv, Transactions
<1>7. IsTx(new) /\ ~Completed(new)
  <2>1. new = [f \in TxFields |-> new[f]]
    BY <1>2 DEF NewTransaction, TxFields
  <2>2. /\ new.started = FALSE /\ new.completed = FALSE /\ new.aborted = FALSE /\ new.told = <<>>
    BY <1>2 DEF NewTransaction
  <2>3. Range(<<>>) = {}
    BY DEF Range
  <2>4. ~Completed(new)
    BY <2>2, <2>3 DEF Completed
  <2>5. <<>> \in Seq({"abort", "complete", "error"})
    OBVIOUS
  <2> QED BY <2>1, <2>2, <2>4, <2>5 DEF IsTx
<1>8. Transactions(us)
  BY <1>6, <1>7 DEF CompletionInv, Transactions
<1>9. e \in Tasks /\ e.kind = "begin" /\ e.of = Len(txs) + 1
  BY <1>3, <1>6, MicrotaskTyped
<1>10. Ordered(microtasks, reqs, us)
  BY <1>6 DEF CompletionInv, Ordered, Fits
<1>11. w \in Seq(Tasks) /\ Ordered(w, reqs, us) /\ Awaited(w, reqs)
  BY <1>4, <1>6, <1>9, <1>10, Queued DEF CompletionInv
<1>12. Outcomes(reqs, us, rejecting)
  BY <1>6 DEF CompletionInv, Outcomes
<1>13. Cursors(cursors, us)
  BY <1>6 DEF CompletionInv, Cursors
<1> QED BY <1>1, <1>5, <1>8, <1>11, <1>12, <1>13 DEF CompletionInv

LEMMA OpenCursorStep ==
  ASSUME CompletionInv, NEW t \in DOMAIN txs, NEW source, NEW lower, NEW dir,
         OpenCursor(t, source, lower, dir)
  PROVE  CompletionInv'
<1>1. PICK c : c = NewCursor(t, table, source, lower, dir)
  OBVIOUS
<1>2. PICK e : e = Microtask("cursor", Len(cursors) + 1)
  OBVIOUS
<1>3. /\ cursors' = Append(cursors, c) /\ microtasks' = Append(microtasks, e)
      /\ UNCHANGED <<opens, txs, reqs, rejecting>>
  BY <1>1, <1>2 DEF OpenCursor, QueueMicrotask
<1>4. "tx" \in DOMAIN c /\ c.tx = t
  BY <1>1 DEF NewCursor
<1>5. PICK cs : cs = Append(cursors, c)
  OBVIOUS
<1>6. IsList(cursors) /\ Cursors(cursors, txs)
  BY DEF CompletionInv, Cursors
<1>7. /\ IsList(cs) /\ Len(cursors) \in Nat /\ DOMAIN cs = 1 .. Len(cursors) + 1
      /\ DOMAIN cursors = 1 .. Len(cursors)
      /\ \A d \in DOMAIN cursors : cs[d] = cursors[d]
      /\ cs[Len(cursors) + 1] = c
  BY <1>5, <1>6, AppendToList
<1>8. Cursors(cs, txs)
  <2> SUFFICES ASSUME NEW d \in DOMAIN cs PROVE "tx" \in DOMAIN cs[d] /\ cs[d].tx \in DOMAIN txs
    BY <1>7 DEF Cursors
  <2>1. d \in DOMAIN cursors \/ d = Len(cursors) + 1
    BY <1>7
  <2> QED BY <1>4, <1>6, <1>7, <2>1 DEF Cursors
<1>9. e \in Tasks /\ e.kind = "cursor"
  BY <1>2, <1>7, MicrotaskTyped
<1>10. AllLater(txs, txs)
  BY AllUnchanged DEF CompletionInv
<1> QED BY <1>3, <1>5, <1>8, <1>9, <1>10, QueuedStep DEF CompletionInv

LEMMA CursorMovesStep ==
  ASSUME CompletionInv, NEW c \in DOMAIN cursors,
         NEW key \in Keys \union {None}, NEW by \in Nat, CursorMoves(c, key, by)
  PROVE  CompletionInv'
<1>1. PICK e : e = [Microtask("move", c) EXCEPT !.key = key, !.by = by]
  OBVIOUS
<1>2. microtasks' = Append(microtasks, e) /\ UNCHANGED <<opens, txs, reqs, cursors, rejecting>>
  BY <1>1 DEF CursorMoves
<1>3. e \in Tasks /\ e.kind = "move"
  <2>1. PICK m : m = Microtask("move", c)
    OBVIOUS
  <2>2. c \in Nat /\ key \in Nat
    <3>1. c \in Nat
      BY DEF CompletionInv, Cursors, IsList
    <3>2. key \in Nat
      BY IdbCursorAssumption DEF None
    <3> QED BY <3>1, <3>2
  <2>3. m \in Tasks /\ m.kind = "move"
    BY <2>1, <2>2, MicrotaskTyped
  <2>4. e = [m EXCEPT !.key = key, !.by = by]
    BY <1>1, <2>1
  <2> QED BY <2>2, <2>3, <2>4 DEF Tasks
<1>4. AllLater(txs, txs)
  BY AllUnchanged DEF CompletionInv
<1> QED BY <1>2, <1>3, <1>4, QueuedStep DEF CompletionInv

LEMMA CursorStraysStep ==
  ASSUME CompletionInv, NEW c \in DOMAIN cursors, NEW by \in Nat, CursorStrays(c, by)
  PROVE  CompletionInv'
<1>1. PICK e : e = [Microtask("stray", c) EXCEPT !.by = by]
  OBVIOUS
<1>2. microtasks' = Append(microtasks, e) /\ UNCHANGED <<opens, txs, reqs, cursors, rejecting>>
  BY <1>1 DEF CursorStrays
<1>3. e \in Tasks /\ e.kind = "stray"
  <2>1. PICK m : m = Microtask("stray", c)
    OBVIOUS
  <2>2. c \in Nat
    BY DEF CompletionInv, Cursors, IsList
  <2>3. m \in Tasks /\ m.kind = "stray"
    BY <2>1, <2>2, MicrotaskTyped
  <2>4. e = [m EXCEPT !.by = by]
    BY <1>1, <2>1
  <2> QED BY <2>3, <2>4 DEF Tasks
<1>4. AllLater(txs, txs)
  BY AllUnchanged DEF CompletionInv
<1> QED BY <1>2, <1>3, <1>4, QueuedStep DEF CompletionInv

\* The reads and writes that a request, or a cursor, may ask for.
LEMMA PutsAre ==
  ASSUME NEW k, NEW effect \in Puts(k) \union Adds(k)
  PROVE  \E v \in Values : \E whole \in {PutEffect(table, k, v), AddEffect(table, k, v)} :
           effect = whole \/ effect = Effect(table, whole.log, TRUE)
<1>1. PICK v \in Values : \E whole \in {PutEffect(table, k, v), AddEffect(table, k, v)} :
        effect = whole \/ effect = Thrown(whole)
  BY DEF Puts, Adds, WithThrown
<1>which. PICK whole \in {PutEffect(table, k, v), AddEffect(table, k, v)} :
        effect = whole \/ effect = Thrown(whole)
  BY <1>1
<1> QED BY <1>which DEF Thrown

LEMMA EffectsAre ==
  ASSUME NEW effect \in Effects
  PROVE  \/ \E k : effect \in Puts(k) \union Adds(k) \/ effect = DeleteEffect(table, k)
         \/ effect = ClearEffect(table) \/ effect = ReadEffect(table)
<1>1. CASE effect \in UNION {Puts(k) \union Adds(k) \union {DeleteEffect(table, k)} : k \in Keys}
  <2>1. PICK k \in Keys : effect \in Puts(k) \union Adds(k) \union {DeleteEffect(table, k)}
    BY <1>1
  <2> QED BY <2>1
<1>2. CASE effect \in {ClearEffect(table), ReadEffect(table)}
  BY <1>2
<1> QED BY <1>1, <1>2 DEF Effects

LEMMA EffectsTyped ==
  /\ \A effect \in Effects : effect.fails \in BOOLEAN
  /\ \A k : \A effect \in Puts(k) : effect.fails \in BOOLEAN
  /\ \A k : DeleteEffect(table, k).fails \in BOOLEAN
<1>1. \A k, v : PutEffect(table, k, v).fails \in BOOLEAN
  BY DEF PutEffect, Effect
<1>2. \A k, v : AddEffect(table, k, v).fails \in BOOLEAN
  BY DEF AddEffect, Effect
<1>3. \A k : DeleteEffect(table, k).fails \in BOOLEAN
  BY DEF DeleteEffect, Effect
<1>4. ClearEffect(table).fails \in BOOLEAN /\ ReadEffect(table).fails \in BOOLEAN
  BY DEF ClearEffect, ReadEffect, Effect
<1>5. ASSUME NEW k, NEW effect \in Puts(k) \union Adds(k) PROVE effect.fails \in BOOLEAN
  <2>1. PICK v \in Values : \E whole \in {PutEffect(table, k, v), AddEffect(table, k, v)} :
          effect = whole \/ effect = Effect(table, whole.log, TRUE)
    BY PutsAre
  <2>which. PICK whole \in {PutEffect(table, k, v), AddEffect(table, k, v)} :
          effect = whole \/ effect = Effect(table, whole.log, TRUE)
    BY <2>1
  <2>2. whole.fails \in BOOLEAN
    BY <1>1, <1>2, <2>which
  <2>3. Effect(table, whole.log, TRUE).fails = TRUE
    BY DEF Effect
  <2> QED BY <2>which, <2>2, <2>3
<1>6. ASSUME NEW effect \in Effects PROVE effect.fails \in BOOLEAN
  BY <1>3, <1>4, <1>5, EffectsAre
<1>7. ASSUME NEW k, NEW effect \in Puts(k) PROVE effect.fails \in BOOLEAN
  BY <1>5
<1> QED BY <1>3, <1>6, <1>7

LEMMA RequestLater ==
  ASSUME CompletionInv, NEW t \in DOMAIN txs, NEW effect, Request(t, effect)
  PROVE  AllLater(txs, txs')
<1>1. PICK others : others = IF effect.table = table THEN txs ELSE Disturbed(t)
  OBVIOUS
<1>2. Transactions(txs) /\ AllLater(txs, others)
  BY <1>1, AllUnchanged, DisturbedLater DEF CompletionInv
<1>3. DOMAIN others = DOMAIN txs /\ IsTx(others[t])
  BY <1>2 DEF AllLater, Later
<1>4. CASE txs[t].mode = "readwrite"
  <2>1. PICK log : log = others[t].log \o effect.log
    OBVIOUS
  <2>2. PICK b : b = [others[t] EXCEPT !.log = log]
    OBVIOUS
  <2>3. txs' = [others EXCEPT ![t] = b]
    BY <1>1, <1>3, <1>4, <2>1, <2>2 DEF Request
  <2>4. Later(others[t], b)
    <3>1. /\ b = [f \in TxFields |-> b[f]]
          /\ b.started = others[t].started /\ b.told = others[t].told
          /\ b.completed = others[t].completed /\ b.aborted = others[t].aborted
      BY <1>3, <2>2 DEF IsTx, TxFields
    <3> QED BY <1>3, <3>1 DEF Later, IsTx, Over, Completed
  <2>5. AllLater(txs, [others EXCEPT ![t] = b])
    BY <1>2, <2>4, OneLater
  <2> QED BY <2>3, <2>5
<1>5. CASE txs[t].mode # "readwrite"
  <2>1. PICK alone : alone = (others[t].alone /\ effect.table = table)
    OBVIOUS
  <2>2. PICK b : b = [others[t] EXCEPT !.alone = alone]
    OBVIOUS
  <2>3. txs' = [others EXCEPT ![t] = b]
    BY <1>1, <1>3, <1>5, <2>1, <2>2 DEF Request
  <2>4. Later(others[t], b)
    BY <1>3, <2>2, DisturbedOne
  <2>5. AllLater(txs, [others EXCEPT ![t] = b])
    BY <1>2, <2>4, OneLater
  <2> QED BY <2>3, <2>5
<1> QED BY <1>4, <1>5

LEMMA RequestStep ==
  ASSUME CompletionInv, NEW t \in DOMAIN txs, NEW effect, effect.fails \in BOOLEAN,
         Request(t, effect), UNCHANGED <<opens, cursors, rejecting>>
  PROVE  CompletionInv'
<1>1. PICK us : us = txs'
  OBVIOUS
<1>2. PICK r : r = NewRequest(t, effect.fails)
  OBVIOUS
<1>3. PICK e : e = Microtask("request", Len(reqs) + 1)
  OBVIOUS
<1>4. PICK w : w = Append(microtasks, e)
  OBVIOUS
<1>5. PICK rs : rs = Append(reqs, r)
  OBVIOUS
<1>6. reqs' = rs /\ microtasks' = w
  BY <1>2, <1>3, <1>4, <1>5 DEF Request, QueueMicrotask
<1>7. t \in Nat /\ IsTx(txs[t]) /\ (Completed(txs[t]) => txs[t].started)
  BY DEF CompletionInv, Transactions, IsList
<1>8. r \in Requests /\ r.told = <<>> /\ r.tx = t /\ (r.early => ~txs[t].started)
  <2>1. PICK early \in BOOLEAN : early = ~txs[t].started
    BY <1>7 DEF IsTx
  <2>2. r = [tx |-> t, early |-> early, fails |-> effect.fails, told |-> <<>>]
    BY <1>2, <2>1 DEF NewRequest
  <2> QED BY <1>7, <2>1, <2>2 DEF Requests
<1>9. Len(reqs) \in Nat
  BY LenProperties DEF CompletionInv
<1>10. e \in Tasks /\ e.kind = "request" /\ e.of = Len(reqs) + 1
  BY <1>3, <1>9, MicrotaskTyped
<1>11. /\ w \in Seq(Tasks) /\ rs \in Seq(Requests)
       /\ Ordered(w, rs, txs) /\ Awaited(w, rs)
  BY <1>4, <1>5, <1>8, <1>10, RequestQueued DEF CompletionInv
<1>12. AllLater(txs, us)
  BY <1>1, RequestLater
<1>13. Transactions(us) /\ Ordered(w, rs, us) /\ Cursors(cursors, us) /\ Outcomes(reqs, us, rejecting)
  BY <1>11, <1>12, AfterLater DEF CompletionInv
<1>14. /\ DOMAIN reqs = 1 .. Len(reqs) /\ DOMAIN rs = 1 .. Len(reqs) + 1
       /\ \A k \in DOMAIN reqs : rs[k] = reqs[k]
       /\ rs[Len(reqs) + 1] = r
  BY <1>5, <1>8, <1>9, AppendProperties, LenProperties DEF CompletionInv
<1>15. Outcomes(rs, us, rejecting)
  <2>1. t \in DOMAIN us /\ Outcome(r, us[t], FALSE)
    <3>1. t \in DOMAIN us /\ (Completed(us[t]) <=> Completed(txs[t]))
      BY <1>12 DEF AllLater, Later
    <3>2. <<>> # <<"error">>
      OBVIOUS
    <3> QED BY <1>7, <1>8, <3>1, <3>2 DEF Outcome
  <2>2. Outcome(r, us[t], Len(reqs) + 1 = rejecting)
    BY <2>1 DEF Outcome
  <2>3. \A k \in DOMAIN rs : k \in DOMAIN reqs \/ k = Len(reqs) + 1
    BY <1>9, <1>14
  <2> QED BY <1>8, <1>13, <1>14, <2>1, <2>2, <2>3 DEF Outcomes
<1>16. rejecting \in {0} \union DOMAIN rs
  BY <1>9, <1>14 DEF CompletionInv
<1> QED BY <1>1, <1>6, <1>11, <1>13, <1>15, <1>16 DEF CompletionInv

LEMMA CursorWritesStep ==
  ASSUME CompletionInv, NEW c \in DOMAIN cursors, CursorWrites(c)
  PROVE  CompletionInv'
<1>1. PICK t : t = cursors[c].tx
  OBVIOUS
<1>2. t \in DOMAIN txs
  BY <1>1 DEF CompletionInv, Cursors
<1>3. PICK effect : effect.fails \in BOOLEAN /\ Request(t, effect)
  BY <1>1, EffectsTyped DEF CursorWrites
<1>4. UNCHANGED <<opens, cursors, rejecting>>
  BY DEF CursorWrites
<1> QED BY <1>2, <1>3, <1>4, RequestStep

-------------------------------------------------------------------------------
(* The microtasks. *)

LEMMA UpgradeStep ==
  ASSUME CompletionInv, microtasks # <<>>, Head(microtasks).kind = "upgrade",
         NEW o \in Nat, Upgrade(o), rejecting = 0
  PROVE  CompletionInv'
<1>1. PICK q : q = Tail(microtasks)
  OBVIOUS
<1>2. q \in Seq(Tasks) /\ Ordered(q, reqs, txs) /\ Awaited(q, reqs)
  BY <1>1, Dropped DEF CompletionInv
<1>3. PICK e : e = Microtask("opened", o)
  OBVIOUS
<1>4. e \in Tasks /\ e.kind = "opened"
  BY <1>3, MicrotaskTyped
<1>5. /\ microtasks' = Append(q, e)
      /\ opens' = [opens EXCEPT ![o] = Append(opens[o], "upgradeneeded")]
      /\ txs' = txs \/ txs' = Disturbed(0)
      /\ UNCHANGED <<reqs, cursors, rejecting>>
  BY <1>1, <1>3 DEF Upgrade, QueueMicrotask
<1>6. IsList(opens')
  <2>1. PICK v : v = [opens EXCEPT ![o] = Append(opens[o], "upgradeneeded")]
    OBVIOUS
  <2>2. IsList(v)
    BY <2>1, ListUpdated DEF CompletionInv
  <2> QED BY <1>5, <2>1, <2>2
<1>7. AllLater(txs, txs')
  BY <1>5, AllUnchanged, DisturbedLater DEF CompletionInv
<1>8. Outcomes(reqs, txs', rejecting') /\ Cursors(cursors', txs')
  BY <1>5, <1>7, MovedOn
<1> QED BY <1>2, <1>4, <1>5, <1>6, <1>7, <1>8, QueuedStep

LEMMA OpenedStep ==
  ASSUME CompletionInv, microtasks # <<>>, Head(microtasks).kind = "opened", NEW o, Opened(o)
  PROVE  CompletionInv'
<1>1. PICK q : q = Tail(microtasks)
  OBVIOUS
<1>2. q \in Seq(Tasks) /\ Ordered(q, reqs, txs) /\ Awaited(q, reqs)
  BY <1>1, Dropped DEF CompletionInv
<1>3. /\ microtasks' = q
      /\ opens' = [opens EXCEPT ![o] = Append(opens[o], "success")]
      /\ UNCHANGED <<txs, reqs, cursors, rejecting>>
  BY <1>1 DEF Opened
<1>4. IsList(opens')
  <2>1. PICK v : v = [opens EXCEPT ![o] = Append(opens[o], "success")]
    OBVIOUS
  <2>2. IsList(v)
    BY <2>1, ListUpdated DEF CompletionInv
  <2> QED BY <1>3, <2>1, <2>2
<1>5. AllLater(txs, txs)
  BY AllUnchanged DEF CompletionInv
<1> QED BY <1>2, <1>3, <1>4, <1>5, QuietStep DEF CompletionInv

LEMMA BeginStep ==
  ASSUME CompletionInv, microtasks # <<>>, Head(microtasks).kind = "begin",
         NEW t \in DOMAIN txs, Begin(t), rejecting = 0
  PROVE  CompletionInv'
<1>1. PICK q : q = Tail(microtasks)
  OBVIOUS
<1>2. q \in Seq(Tasks) /\ Ordered(q, reqs, txs) /\ Awaited(q, reqs)
  BY <1>1, Dropped DEF CompletionInv
<1>3. PICK e : e = Microtask("complete", t)
  OBVIOUS
<1>4. t \in Nat /\ Transactions(txs) /\ IsTx(txs[t])
  BY DEF CompletionInv, Transactions, IsList
<1>5. e \in Tasks /\ e.kind = "complete" /\ e.of = t
  BY <1>3, <1>4, MicrotaskTyped
<1>6. PICK b : b = [txs[t] EXCEPT !.started = TRUE]
  OBVIOUS
<1>7. /\ microtasks' = Append(q, e) /\ txs' = [txs EXCEPT ![t] = b]
      /\ UNCHANGED <<opens, reqs, cursors, rejecting>>
  BY <1>1, <1>3, <1>6 DEF Begin, QueueMicrotask
<1>8. Later(txs[t], b) /\ b.started
  <2>1. /\ b = [f \in TxFields |-> b[f]]
        /\ b.started = TRUE /\ b.told = txs[t].told
        /\ b.completed = txs[t].completed /\ b.aborted = txs[t].aborted
    BY <1>4, <1>6 DEF IsTx, TxFields
  <2> QED BY <1>4, <2>1 DEF Later, IsTx, Over, Completed
<1>9. AllLater(txs, txs')
  <2>1. AllLater(txs, [txs EXCEPT ![t] = b])
    BY <1>4, <1>8, AllUnchanged, OneLater
  <2> QED BY <1>7, <2>1
<1>10. txs'[t].started
  BY <1>7, <1>8
<1>11. Outcomes(reqs, txs', rejecting') /\ Cursors(cursors', txs')
  BY <1>7, <1>9, MovedOn
<1> QED BY <1>2, <1>5, <1>7, <1>9, <1>10, <1>11, QueuedStep DEF CompletionInv

\* A transaction completes: its early requests have had their microtasks, and one
\* that failed has taken it with it.
LEMMA CompleteStep ==
  ASSUME CompletionInv, microtasks # <<>>, Head(microtasks).kind = "complete",
         NEW t \in DOMAIN txs, t = Head(microtasks).of, Complete(t), rejecting = 0
  PROVE  CompletionInv'
<1>1. PICK q : q = Tail(microtasks)
  OBVIOUS
<1>2. q \in Seq(Tasks) /\ Ordered(q, reqs, txs) /\ Awaited(q, reqs)
  BY <1>1, Dropped DEF CompletionInv
<1>3. microtasks' = q /\ UNCHANGED <<opens, reqs, cursors, rejecting>>
  BY <1>1 DEF Complete
<1>4. Transactions(txs) /\ IsTx(txs[t])
  BY DEF CompletionInv, Transactions
<1>5. CASE Over(txs[t])
  <2>1. txs' = txs
    BY <1>5 DEF Complete
  <2>2. AllLater(txs, txs)
    BY <1>4, AllUnchanged
  <2> QED BY <1>2, <1>3, <2>1, <2>2, QuietStep DEF CompletionInv
<1>6. CASE ~Over(txs[t])
  <2>1. PICK told : told = Append(txs[t].told, "complete")
    OBVIOUS
  <2>2. PICK b : b = [txs[t] EXCEPT !.completed = TRUE, !.told = told]
    OBVIOUS
  <2>3. PICK us : us = [txs EXCEPT ![t] = b]
    OBVIOUS
  <2>4. txs' = us
    BY <1>6, <2>1, <2>2, <2>3 DEF Complete
  <2>5. /\ IsList(us) /\ DOMAIN us = DOMAIN txs
        /\ \A u \in DOMAIN txs : us[u] = IF u = t THEN b ELSE txs[u]
    BY <1>4, <2>3, ListUpdated DEF Transactions
  <2>6. /\ microtasks \in Seq(Tasks) /\ Len(microtasks) \in Nat /\ 1 \in 1 .. Len(microtasks)
        /\ microtasks[1].kind = "complete" /\ microtasks[1].of = t
    BY EmptySeq, LenProperties DEF CompletionInv
  <2>7. Fits(microtasks, reqs, txs, 1) /\ txs[t].started
    BY <2>6 DEF CompletionInv, Ordered, Fits
  <2>8. IsTx(b) /\ b.started
    <3>1. /\ b = [f \in TxFields |-> b[f]]
          /\ b.started = txs[t].started /\ b.told = told
          /\ b.completed = TRUE /\ b.aborted = txs[t].aborted
      BY <1>4, <2>2 DEF IsTx, TxFields
    <3>2. told \in Seq({"abort", "complete", "error"})
      BY <1>4, <2>1, AppendProperties DEF IsTx
    <3> QED BY <1>4, <2>7, <3>1, <3>2 DEF IsTx
  <2>9. Transactions(us)
    BY <1>4, <2>5, <2>8 DEF Transactions
  <2>10. Ordered(q, reqs, us)
    BY <1>2, <2>5, <2>8 DEF Ordered, Fits
  <2>11. ASSUME NEW r \in DOMAIN reqs, reqs[r].tx = t, reqs[r].early
         PROVE  reqs[r].told = <<"success">>
    <3>1. reqs[r].told # <<>>
      <4> SUFFICES ASSUME reqs[r].told = <<>> PROVE FALSE
        OBVIOUS
      <4>1. PICK i \in 1 .. Len(microtasks) : /\ microtasks[i].kind = "request"
                                              /\ microtasks[i].of = r
        BY DEF CompletionInv, Awaited
      <4>2. i \in 1 + 1 .. Len(microtasks)
        BY <2>6, <4>1
      <4> QED BY <2>6, <2>7, <2>11, <4>1, <4>2 DEF Fits
    <3>2. reqs[r].told # <<"error">>
      <4>1. r # rejecting
        BY LenProperties DEF CompletionInv
      <4> QED BY <1>6, <2>11, <4>1 DEF CompletionInv, Outcomes, Outcome
    <3>3. reqs[r] \in Requests
      BY ElementOfSeq, LenProperties DEF CompletionInv
    <3> QED BY <3>1, <3>2, <3>3 DEF Requests
  <2>12. Outcomes(reqs, us, rejecting)
    <3> SUFFICES ASSUME NEW r \in DOMAIN reqs
                 PROVE  /\ reqs[r].tx \in DOMAIN us
                        /\ Outcome(reqs[r], us[reqs[r].tx], r = rejecting)
      BY DEF Outcomes
    <3>1. reqs[r].tx \in DOMAIN txs /\ Outcome(reqs[r], txs[reqs[r].tx], r = rejecting)
      BY DEF CompletionInv, Outcomes
    <3>2. CASE reqs[r].tx = t
      <4>1. Over(b)
        BY <1>4, <2>2 DEF Over, IsTx, TxFields
      <4> QED BY <2>5, <2>11, <3>1, <3>2, <4>1 DEF Outcome
    <3>3. CASE reqs[r].tx # t
      BY <2>5, <3>1, <3>3
    <3> QED BY <3>2, <3>3
  <2>13. Cursors(cursors, us)
    BY <2>5 DEF CompletionInv, Cursors
  <2> QED BY <1>2, <1>3, <2>4, <2>9, <2>10, <2>12, <2>13 DEF CompletionInv
<1> QED BY <1>5, <1>6

LEMMA TellAbortStep ==
  ASSUME CompletionInv, microtasks # <<>>, Head(microtasks).kind \in {"abort", "failed"},
         NEW t \in DOMAIN txs, NEW types \in Seq({"abort", "error"}), TellAbort(t, types),
         rejecting = 0
  PROVE  CompletionInv'
<1>1. PICK q : q = Tail(microtasks)
  OBVIOUS
<1>2. q \in Seq(Tasks) /\ Ordered(q, reqs, txs) /\ Awaited(q, reqs)
  BY <1>1, Dropped DEF CompletionInv
<1>3. Transactions(txs) /\ IsTx(txs[t])
  BY DEF CompletionInv, Transactions
<1>4. PICK told : told = txs[t].told \o types
  OBVIOUS
<1>5. PICK b : b = [txs[t] EXCEPT !.told = told]
  OBVIOUS
<1>6. /\ microtasks' = q /\ txs' = [txs EXCEPT ![t] = b]
      /\ UNCHANGED <<opens, reqs, cursors, rejecting>>
  BY <1>1, <1>4, <1>5 DEF TellAbort
<1>7. /\ told \in Seq({"abort", "complete", "error"})
      /\ "complete" \in Range(told) <=> "complete" \in Range(txs[t].told)
  <2>1. PICK old : old = txs[t].told
    OBVIOUS
  <2>2. old \in Seq({"abort", "complete", "error"}) /\ types \in Seq({"abort", "complete", "error"})
    <3>1. types \in Seq({"abort", "complete", "error"})
      BY SeqMonotonic
    <3> QED BY <1>3, <2>1, <3>1 DEF IsTx
  <2>3. /\ told \in Seq({"abort", "complete", "error"}) /\ Len(told) = Len(old) + Len(types)
        /\ \A i \in 1 .. Len(told) : told[i] = IF i <= Len(old) THEN old[i] ELSE types[i - Len(old)]
    BY <1>4, <2>1, <2>2, ConcatProperties
  <2>4. /\ Len(old) \in Nat /\ Len(types) \in Nat /\ DOMAIN old = 1 .. Len(old)
        /\ DOMAIN told = 1 .. Len(told)
    BY <2>2, <2>3, LenProperties
  <2>5. \A i \in 1 .. Len(types) : types[i] # "complete"
    BY ElementOfSeq
  <2>6. ASSUME NEW i \in 1 .. Len(told), told[i] = "complete"
        PROVE  "complete" \in Range(old)
    <3>1. i <= Len(old)
      <4> SUFFICES ASSUME ~(i <= Len(old)) PROVE FALSE
        OBVIOUS
      <4>1. i - Len(old) \in 1 .. Len(types)
        BY <2>3, <2>4
      <4> QED BY <2>3, <2>5, <2>6, <4>1
    <3>2. i \in DOMAIN old /\ old[i] = "complete"
      BY <2>3, <2>4, <2>6, <3>1
    <3> QED BY <3>2 DEF Range
  <2>7. ASSUME NEW i \in DOMAIN old, old[i] = "complete"
        PROVE  "complete" \in Range(told)
    <3>1. i \in DOMAIN told /\ told[i] = "complete"
      BY <2>3, <2>4, <2>7
    <3> QED BY <3>1 DEF Range
  <2> QED BY <2>1, <2>3, <2>4, <2>6, <2>7 DEF Range
<1>8. Later(txs[t], b)
  <2>1. /\ b = [f \in TxFields |-> b[f]]
        /\ b.started = txs[t].started /\ b.told = told
        /\ b.completed = txs[t].completed /\ b.aborted = txs[t].aborted
    BY <1>3, <1>5 DEF IsTx, TxFields
  <2> QED BY <1>3, <1>7, <2>1 DEF Later, IsTx, Over, Completed
<1>9. AllLater(txs, txs')
  <2>1. AllLater(txs, [txs EXCEPT ![t] = b])
    BY <1>3, <1>8, AllUnchanged, OneLater
  <2> QED BY <1>6, <2>1
<1>10. Outcomes(reqs, txs', rejecting') /\ Cursors(cursors', txs')
  BY <1>6, <1>9, MovedOn
<1> QED BY <1>2, <1>6, <1>9, <1>10, QuietStep DEF CompletionInv

LEMMA SettleStep ==
  ASSUME CompletionInv, microtasks # <<>>, Head(microtasks).kind = "request",
         NEW r, r = Head(microtasks).of, Settle(r), rejecting = 0
  PROVE  CompletionInv'
<1>1. PICK q : q = Tail(microtasks)
  OBVIOUS
<1>2. PICK o \in {"success", "error"} : o = IF reqs[r].fails THEN "error" ELSE "success"
  OBVIOUS
<1>3. PICK y : y = [reqs[r] EXCEPT !.told = <<o>>]
  OBVIOUS
<1>4. PICK rs : rs = [reqs EXCEPT ![r] = y]
  OBVIOUS
<1>5. /\ Len(microtasks) \in Nat /\ 1 \in 1 .. Len(microtasks)
      /\ microtasks[1].kind = "request" /\ microtasks[1].of = r
  BY EmptySeq, LenProperties DEF CompletionInv
<1>6. r \in DOMAIN reqs /\ reqs[r].told = <<>>
  BY <1>5 DEF CompletionInv, Ordered, Fits
<1>7. reqs[r] \in Requests /\ r # 0
  BY <1>6, ElementOfSeq, LenProperties DEF CompletionInv
<1>8. reqs' = rs
  <2>1. Append(reqs[r].told, o) = <<o>>
    BY <1>6
  <2> QED BY <1>2, <1>3, <1>4, <2>1 DEF Settle
<1>9. /\ microtasks' = q /\ rejecting' = (IF reqs[r].fails THEN r ELSE 0)
      /\ UNCHANGED <<opens, txs, cursors>>
  BY <1>1 DEF Settle
<1>10. /\ q \in Seq(Tasks) /\ rs \in Seq(Requests) /\ DOMAIN rs = DOMAIN reqs
       /\ Ordered(q, rs, txs) /\ Awaited(q, rs)
  BY <1>1, <1>3, <1>4, Told DEF CompletionInv
<1>11. \A k \in DOMAIN reqs : rs[k] = IF k = r THEN y ELSE reqs[k]
  BY <1>4
<1>12. y.told = <<o>> /\ y.tx = reqs[r].tx /\ y.early = reqs[r].early
  BY <1>3, <1>7 DEF Requests
<1>13. Outcomes(rs, txs, rejecting')
  <2> SUFFICES ASSUME NEW k \in DOMAIN reqs
               PROVE  /\ rs[k].tx \in DOMAIN txs
                      /\ Outcome(rs[k], txs[rs[k].tx], k = rejecting')
    BY <1>10 DEF Outcomes
  <2>1. reqs[k].tx \in DOMAIN txs /\ Outcome(reqs[k], txs[reqs[k].tx], k = 0)
    BY DEF CompletionInv, Outcomes
  <2>2. CASE k = r
    <3>1. ~(reqs[r].early /\ Completed(txs[reqs[r].tx]))
      <4>1. <<>> # <<"success">>
        OBVIOUS
      <4> QED BY <1>6, <2>1, <2>2, <4>1 DEF Outcome
    <3>2. y.told = <<"error">> => k = rejecting'
      BY <1>2, <1>9, <1>12, <2>2
    <3> QED BY <1>11, <1>12, <2>1, <2>2, <3>1, <3>2 DEF Outcome
  <2>3. CASE k # r
    <3>1. k # 0
      BY LenProperties DEF CompletionInv
    <3> QED BY <1>11, <2>1, <2>3, <3>1 DEF Outcome
  <2> QED BY <2>2, <2>3
<1>14. rejecting' \in {0} \union DOMAIN rs
  BY <1>6, <1>9, <1>10
<1> QED BY <1>8, <1>9, <1>10, <1>13, <1>14 DEF CompletionInv

LEMMA TellCursorStep ==
  ASSUME CompletionInv, microtasks # <<>>, Head(microtasks).kind \in {"cursor", "move", "stray"},
         NEW c, NEW key, NEW by, rejecting = 0,
         \/ TellCursor(c, Shown(cursors[c], key, by)) \/ TellCursor(c, Moved(cursors[c], key, by))
         \/ TellCursor(c, Strayed(cursors[c], by))
  PROVE  CompletionInv'
<1>1. PICK q : q = Tail(microtasks)
  OBVIOUS
<1>2. q \in Seq(Tasks) /\ Ordered(q, reqs, txs) /\ Awaited(q, reqs)
  BY <1>1, Dropped DEF CompletionInv
<1>3. PICK next : /\ \/ next = Shown(cursors[c], key, by) \/ next = Moved(cursors[c], key, by)
                     \/ next = Strayed(cursors[c], by)
                  /\ TellCursor(c, next)
  OBVIOUS
<1>4. PICK cs : cs = [cursors EXCEPT ![c] = next]
  OBVIOUS
<1>5. microtasks' = q /\ cursors' = cs /\ UNCHANGED <<opens, txs, reqs, rejecting>>
  BY <1>1, <1>3, <1>4 DEF TellCursor
<1>6. Cursors(cs, txs)
  <2>1. /\ IsList(cs) /\ DOMAIN cs = DOMAIN cursors
        /\ \A d \in DOMAIN cursors : cs[d] = IF d = c THEN next ELSE cursors[d]
    BY <1>4, ListUpdated DEF CompletionInv, Cursors
  <2>2. \A d \in DOMAIN cursors : "tx" \in DOMAIN cursors[d] /\ cursors[d].tx \in DOMAIN txs
    BY DEF CompletionInv, Cursors
  <2>3. c \in DOMAIN cursors => DOMAIN next = DOMAIN cursors[c] /\ next["tx"] = cursors[c]["tx"]
    BY <1>3, <2>2 DEF Shown, Moved, Strayed, Arrived
  <2> QED BY <2>1, <2>2, <2>3 DEF Cursors
<1>7. AllLater(txs, txs)
  BY AllUnchanged DEF CompletionInv
<1> QED BY <1>2, <1>5, <1>6, <1>7, QuietStep DEF CompletionInv

LEMMA MicrotaskStep ==
  ASSUME CompletionInv, RunMicrotask
  PROVE  CompletionInv'
<1>1. microtasks # <<>> /\ rejecting = 0
  BY DEF RunMicrotask
<1>2. PICK task : task = Head(microtasks)
  OBVIOUS
<1>3. PICK x : x = task.of
  OBVIOUS
<1>4. task \in Tasks /\ x \in Nat
  <2>1. microtasks \in Seq(Tasks)
    BY DEF CompletionInv
  <2>2. task \in Tasks
    BY <1>1, <1>2, <2>1, HeadTailProperties
  <2> QED BY <1>3, <2>2 DEF Tasks
<1>5. task.kind \in {"begin", "complete", "abort", "failed"} => x \in DOMAIN txs
  <2>1. 1 \in 1 .. Len(microtasks) /\ task = microtasks[1]
    BY <1>1, <1>2, EmptySeq, LenProperties DEF CompletionInv
  <2> QED BY <1>3, <2>1 DEF CompletionInv, Ordered, Fits
<1>6. CASE task.kind = "upgrade" /\ Upgrade(x)
  BY <1>1, <1>2, <1>4, <1>6, UpgradeStep
<1>7. CASE task.kind = "opened" /\ Opened(x)
  BY <1>1, <1>2, <1>7, OpenedStep
<1>8. CASE task.kind = "begin" /\ Begin(x)
  BY <1>1, <1>2, <1>5, <1>8, BeginStep
<1>9. CASE task.kind = "complete" /\ Complete(x)
  BY <1>1, <1>2, <1>3, <1>5, <1>9, CompleteStep
<1>10. CASE task.kind = "abort" /\ TellAbort(x, <<"abort">>)
  <2>1. <<"abort">> \in Seq({"abort", "error"})
    OBVIOUS
  <2> QED BY <1>1, <1>2, <1>5, <1>10, <2>1, TellAbortStep
<1>11. CASE task.kind = "failed" /\ TellAbort(x, <<"error", "abort">>)
  <2>1. <<"error", "abort">> \in Seq({"abort", "error"})
    OBVIOUS
  <2> QED BY <1>1, <1>2, <1>5, <1>11, <2>1, TellAbortStep
<1>12. CASE task.kind = "request" /\ Settle(x)
  BY <1>1, <1>2, <1>3, <1>12, SettleStep
<1>13. CASE task.kind = "cursor" /\ TellCursor(x, Shown(cursors[x], None, 1))
  BY <1>1, <1>2, <1>13, TellCursorStep
<1>14. CASE task.kind = "move" /\ TellCursor(x, Moved(cursors[x], task.key, task.by))
  BY <1>1, <1>2, <1>14, TellCursorStep
<1>15. CASE task.kind = "stray" /\ TellCursor(x, Strayed(cursors[x], task.by))
  BY <1>1, <1>2, <1>15, TellCursorStep
<1> QED BY <1>2, <1>3, <1>6, <1>7, <1>8, <1>9, <1>10, <1>11, <1>12, <1>13, <1>14, <1>15
        DEF RunMicrotask

LEMMA ProgramStep ==
  ASSUME CompletionInv, Program
  PROVE  CompletionInv'
<1>1. CASE \E requested \in 1 .. 2 : Open(requested)
  BY <1>1, OpenStep
<1>2. CASE DeleteStore \/ DeleteDatabase
  BY <1>2, DeletedStep
<1>3. CASE \E mode \in {"readonly", "readwrite"} : Transaction(mode)
  BY <1>3, TransactionStep
<1>4. ASSUME NEW t \in DOMAIN txs, Abort(t) PROVE CompletionInv'
  BY <1>4, AbortStep
<1>5. ASSUME NEW t \in DOMAIN txs, NEW effect \in Effects, Request(t, effect),
             UNCHANGED <<version, opens, cursors, rejecting>>
      PROVE  CompletionInv'
  BY <1>5, EffectsTyped, RequestStep
<1>6. ASSUME NEW t \in DOMAIN txs, NEW source, NEW lower, NEW dir,
             OpenCursor(t, source, lower, dir)
      PROVE  CompletionInv'
  BY <1>6, OpenCursorStep
<1>7. ASSUME NEW c \in DOMAIN cursors, NEW key \in Keys \union {None}, NEW by \in {1, 2},
             CursorMoves(c, key, by)
      PROVE  CompletionInv'
  BY <1>7, CursorMovesStep
<1>8. ASSUME NEW c \in DOMAIN cursors, CursorWrites(c) PROVE CompletionInv'
  BY <1>8, CursorWritesStep
<1>9. ASSUME NEW c \in DOMAIN cursors, NEW by \in {0, 1}, CursorStrays(c, by) PROVE CompletionInv'
  BY <1>9, CursorStraysStep
<1> QED BY <1>1, <1>2, <1>3, <1>4, <1>5, <1>6, <1>7, <1>8, <1>9 DEF Program

LEMMA NextCompletion == CompletionInv /\ [Next]_vars => CompletionInv'
<1> SUFFICES ASSUME CompletionInv, [Next]_vars PROVE CompletionInv'
  OBVIOUS
<1>1. CASE RunMicrotask
  BY <1>1, MicrotaskStep
<1>2. CASE Reject
  BY <1>2, RejectStep
<1>3. CASE Program
  BY <1>3, ProgramStep
<1>4. CASE UNCHANGED vars
  BY <1>4 DEF vars, dbVars, CompletionInv
<1> QED BY <1>1, <1>2, <1>3, <1>4 DEF Next

\* 'complete' comes after the outcome of every request made along with its
\* transaction, none of which is an error: for any keys, values, calls and
\* transactions, and whatever the program does between two microtasks.
THEOREM CompleteIsTheLastEvent == Spec => []CompleteIsLast
<1>1. CompletionInv => CompleteIsLast
  BY DEF CompletionInv, Outcomes, Outcome, Completed, CompleteIsLast
<1> QED BY <1>1, InitCompletion, NextCompletion, PTL DEF Spec

-------------------------------------------------------------------------------
(* The fold of Undone.  FoldLeft is a function on sets of indices, chosen by its *)
(* equation: that there is one, and what it gives, goes by induction on indices. *)

\* h is the fold of Restore over the entries of s, on any set of their indices.
StepOf(h, s, start, I) == IF I = {} THEN start ELSE Restore(h[I \ {Max(I)}], s[Max(I)])
IsFold(h, s, start, n) == h = [I \in SUBSET (1 .. n) |-> StepOf(h, s, start, I)]

\* Of numbers there is a least one.
LEMMA LeastNat ==
  ASSUME NEW T, T \subseteq Nat, T # {}
  PROVE  \E x \in T : \A y \in T : x <= y
<1>1. IsWellFoundedOn(OpToRel(<, Nat), Nat)
  BY NatLessThanWellFounded
<1>2. PICK x \in T : \A y \in T : ~(<<y, x>> \in OpToRel(<, Nat))
  BY <1>1, WFMin
<1>3. \A y \in T : ~(y < x)
  BY <1>2 DEF OpToRel
<1> QED BY <1>3

\* What holds of 0, and of m + 1 if it does of m, holds up to n: T are the numbers it
\* holds of.
LEMMA UpTo ==
  ASSUME NEW n \in Nat, NEW T, 0 \in T, \A m \in 0 .. n - 1 : m \in T => m + 1 \in T
  PROVE  0 .. n \subseteq T
<1> SUFFICES ASSUME NEW z \in 0 .. n, z \notin T PROVE FALSE
  OBVIOUS
<1>1. PICK x \in (0 .. n) \ T : \A y \in (0 .. n) \ T : x <= y
  <2>1. (0 .. n) \ T \subseteq Nat /\ (0 .. n) \ T # {}
    OBVIOUS
  <2> QED BY <2>1, LeastNat
<1>2. x # 0 /\ x - 1 \in 0 .. n - 1 /\ (x - 1) + 1 = x
  BY <1>1
<1>3. x - 1 \in T
  BY <1>1, <1>2
<1> QED BY <1>1, <1>2, <1>3

LEMMA Greatest ==
  ASSUME NEW n \in Nat, NEW I \in SUBSET (1 .. n), I # {}
  PROVE  Max(I) \in I /\ \A i \in I : i <= Max(I)
<1>1. \E x \in I : \A y \in I : x >= y
  <2>1. PICK T : T = {n - i : i \in I}
    OBVIOUS
  <2>2. T \subseteq Nat /\ T # {}
    <3>1. \A i \in I : n - i \in Nat /\ n - i \in T
      BY <2>1
    <3> QED BY <2>1, <3>1
  <2>3. PICK x \in T : \A y \in T : x <= y
    BY <2>2, LeastNat
  <2>4. PICK i \in I : x = n - i
    BY <2>1
  <2>5. ASSUME NEW j \in I PROVE i >= j
    <3>1. n - j \in T
      BY <2>1
    <3>2. n - i <= n - j /\ i \in Nat /\ j \in Nat
      BY <2>3, <2>4, <3>1
    <3> QED BY <3>2
  <2> QED BY <2>5
<1>2. Max(I) \in I /\ \A y \in I : Max(I) >= y
  BY <1>1 DEF Max
<1>3. \A i \in I : i \in Nat
  OBVIOUS
<1> QED BY <1>2, <1>3

LEMMA FoldExists ==
  ASSUME NEW s, NEW start, NEW n \in Nat
  PROVE  \E h : IsFold(h, s, start, n)
<1> DEFINE Upto(m) == \E h : h = [I \in SUBSET (1 .. n) |-> h[I]]
                             /\ \A I \in SUBSET (1 .. m) : h[I] = StepOf(h, s, start, I)
<1>1. PICK T : T = {m \in 0 .. n : Upto(m)}
  OBVIOUS
<1>2. 0 \in T
  <2>1. PICK h : h = [I \in SUBSET (1 .. n) |-> start]
    OBVIOUS
  <2>2. h = [I \in SUBSET (1 .. n) |-> h[I]]
    BY <2>1
  <2>3. \A I \in SUBSET (1 .. 0) : I = {} /\ I \in SUBSET (1 .. n)
    OBVIOUS
  <2>4. \A I \in SUBSET (1 .. 0) : h[I] = StepOf(h, s, start, I)
    BY <2>1, <2>3 DEF StepOf
  <2>5. Upto(0)
    BY <2>2, <2>4
  <2> HIDE DEF Upto
  <2> QED BY <1>1, <2>5
<1>3. ASSUME NEW m \in 0 .. n - 1, m \in T PROVE m + 1 \in T
  <2>1. PICK h : /\ h = [I \in SUBSET (1 .. n) |-> h[I]]
                 /\ \A I \in SUBSET (1 .. m) : h[I] = StepOf(h, s, start, I)
    BY <1>1, <1>3
  <2>2. PICK g : g = [I \in SUBSET (1 .. n) |-> StepOf(h, s, start, I)]
    OBVIOUS
  <2>3. g = [I \in SUBSET (1 .. n) |-> g[I]]
    BY <2>2
  <2>4. ASSUME NEW I \in SUBSET (1 .. m + 1) PROVE g[I] = StepOf(g, s, start, I)
    <3>1. I \in SUBSET (1 .. n) /\ m + 1 \in Nat
      OBVIOUS
    <3>2. CASE I = {}
      BY <2>2, <3>1, <3>2 DEF StepOf
    <3>3. CASE I # {}
      <4>1. PICK J : J = I \ {Max(I)}
        OBVIOUS
      <4>2. J \in SUBSET (1 .. m)
        <5>1. Max(I) \in I /\ \A i \in I : i <= Max(I)
          BY <3>1, <3>3, Greatest
        <5>2. \A i \in J : i \in 1 .. m + 1 /\ i # Max(I) /\ i <= Max(I) /\ Max(I) \in 1 .. m + 1
          BY <4>1, <5>1
        <5>3. \A i \in J : i \in 1 .. m
          BY <5>2
        <5> QED BY <5>3
      <4>3. J \in SUBSET (1 .. n)
        BY <4>2
      <4>4. g[J] = h[J]
        BY <2>1, <2>2, <4>2, <4>3
      <4> QED BY <2>2, <3>1, <3>3, <4>1, <4>4 DEF StepOf
    <3> QED BY <3>2, <3>3
  <2>5. m + 1 \in 0 .. n
    OBVIOUS
  <2> QED BY <1>1, <2>3, <2>4, <2>5
<1>4. 0 .. n \subseteq T
  <2> HIDE DEF Upto
  <2> QED BY <1>2, <1>3, UpTo
<1>5. Upto(n)
  <2> HIDE DEF Upto
  <2>1. n \in 0 .. n
    OBVIOUS
  <2> QED BY <1>1, <1>4, <2>1
<1>6. PICK h : /\ h = [I \in SUBSET (1 .. n) |-> h[I]]
               /\ \A I \in SUBSET (1 .. n) : h[I] = StepOf(h, s, start, I)
  BY <1>5
<1>7. IsFold(h, s, start, n)
  BY <1>6 DEF IsFold
<1> QED BY <1>7

LEMMA UndoneFolds ==
  ASSUME NEW tbl, NEW log, NEW n \in Nat, DOMAIN Reverse(log) = 1 .. n
  PROVE  \E h : IsFold(h, Reverse(log), tbl, n) /\ Undone(tbl, log) = h[1 .. n]
<1>1. PICK s : s = Reverse(log)
  OBVIOUS
<1>2. PICK h : h = CHOOSE iter : IsFold(iter, s, tbl, n)
  OBVIOUS
<1>3. IsFold(h, s, tbl, n)
  BY <1>2, FoldExists
<1>4. Undone(tbl, log) = (CHOOSE iter : IsFold(iter, s, tbl, n))[1 .. n]
  BY <1>1 DEF Undone, FoldLeft, MapThenFoldSet, IsFold, StepOf
<1> QED BY <1>1, <1>2, <1>3, <1>4

-------------------------------------------------------------------------------
\* Row k after the first m entries of s: that of the last one that has it.
LastOf(u, s, m, k, start) ==
  \/ u[k] = start[k] /\ \A i \in 1 .. m : k \notin DOMAIN s[i]
  \/ \E i \in 1 .. m : /\ k \in DOMAIN s[i] /\ u[k] = s[i][k]
                       /\ \A j \in i + 1 .. m : k \notin DOMAIN s[j]

Restored(u, s, m, start) == /\ u = [k \in DOMAIN start |-> u[k]]
                            /\ \A k \in DOMAIN start : LastOf(u, s, m, k, start)

LEMMA RestoreStep ==
  ASSUME NEW s, NEW start, NEW m \in Nat, NEW u, Restored(u, s, m, start),
         NEW v, v = Restore(u, s[m + 1])
  PROVE  Restored(v, s, m + 1, start)
<1>1. v = [k \in DOMAIN start |-> IF k \in DOMAIN s[m + 1] THEN s[m + 1][k] ELSE u[k]]
  BY DEF Restored, Restore
<1>2. v = [k \in DOMAIN start |-> v[k]]
  BY <1>1
<1>3. ASSUME NEW k \in DOMAIN start PROVE LastOf(v, s, m + 1, k, start)
  <2>1. CASE k \in DOMAIN s[m + 1]
    <3>1. v[k] = s[m + 1][k] /\ m + 1 \in 1 .. m + 1 /\ (m + 1) + 1 .. m + 1 = {}
      BY <1>1, <2>1
    <3> QED BY <2>1, <3>1 DEF LastOf
  <2>2. CASE k \notin DOMAIN s[m + 1]
    <3>1. v[k] = u[k]
      BY <1>1, <2>2
    <3>2. \A i \in 1 .. m + 1 : i \in 1 .. m \/ i = m + 1
      OBVIOUS
    <3>3. CASE u[k] = start[k] /\ \A i \in 1 .. m : k \notin DOMAIN s[i]
      BY <2>2, <3>1, <3>2, <3>3 DEF LastOf
    <3>4. ASSUME NEW i \in 1 .. m, k \in DOMAIN s[i], u[k] = s[i][k],
                 \A j \in i + 1 .. m : k \notin DOMAIN s[j]
          PROVE  LastOf(v, s, m + 1, k, start)
      <4>1. i \in 1 .. m + 1 /\ \A j \in i + 1 .. m + 1 : j \in i + 1 .. m \/ j = m + 1
        OBVIOUS
      <4> QED BY <2>2, <3>1, <3>4, <4>1 DEF LastOf
    <3> QED BY <3>3, <3>4 DEF Restored, LastOf
  <2> QED BY <2>1, <2>2
<1> QED BY <1>2, <1>3 DEF Restored

LEMMA FoldRows ==
  ASSUME NEW s, NEW start, start = [k \in DOMAIN start |-> start[k]], NEW n \in Nat,
         NEW h, IsFold(h, s, start, n)
  PROVE  Restored(h[1 .. n], s, n, start)
<1>1. PICK T : T = {m \in 0 .. n : Restored(h[1 .. m], s, m, start)}
  OBVIOUS
<1>2. 0 \in T
  <2>1. 1 .. 0 = {} /\ {} \in SUBSET (1 .. n) /\ 0 \in 0 .. n
    OBVIOUS
  <2>2. h[{}] = start
    BY <2>1 DEF IsFold, StepOf
  <2>3. Restored(start, s, 0, start)
    BY <2>1 DEF Restored, LastOf
  <2> QED BY <1>1, <2>1, <2>2, <2>3
<1>3. ASSUME NEW m \in 0 .. n - 1, m \in T PROVE m + 1 \in T
  <2>1. m \in Nat /\ m + 1 \in 0 .. n /\ Restored(h[1 .. m], s, m, start)
    BY <1>1, <1>3
  <2>2. PICK I : I = 1 .. m + 1
    OBVIOUS
  <2>3. I \in SUBSET (1 .. n) /\ I # {} /\ m + 1 \in I /\ \A i \in I : i <= m + 1 /\ i \in Nat
    BY <2>2
  <2>4. Max(I) = m + 1
    <3>1. Max(I) \in I /\ \A i \in I : i <= Max(I)
      BY <2>3, Greatest
    <3>2. Max(I) <= m + 1 /\ m + 1 <= Max(I) /\ Max(I) \in Nat
      BY <2>3, <3>1
    <3> QED BY <3>2
  <2>5. I \ {m + 1} = 1 .. m
    BY <2>2
  <2>6. h[I] = Restore(h[1 .. m], s[m + 1])
    <3>1. h[I] = StepOf(h, s, start, I)
      BY <2>3 DEF IsFold
    <3> QED BY <2>3, <2>4, <2>5, <3>1 DEF StepOf
  <2>7. Restored(h[I], s, m + 1, start)
    BY <2>1, <2>6, RestoreStep
  <2> QED BY <1>1, <2>1, <2>2, <2>7
<1>4. n \in 0 .. n /\ 0 .. n \subseteq T
  BY <1>2, <1>3, UpTo
<1> QED BY <1>1, <1>4

-------------------------------------------------------------------------------
\* Row k before the writes of a log: that of the first entry that has it.
FirstOf(u, log, n, k, tbl) ==
  \/ u[k] = tbl[k] /\ \A i \in 1 .. n : k \notin DOMAIN log[i]
  \/ \E i \in 1 .. n : /\ k \in DOMAIN log[i] /\ u[k] = log[i][k]
                       /\ \A j \in 1 .. i - 1 : k \notin DOMAIN log[j]

Undoes(u, log, tbl) == /\ u = [k \in DOMAIN tbl |-> u[k]]
                       /\ \A k \in DOMAIN tbl : FirstOf(u, log, Len(log), k, tbl)

IsRows(tbl) == tbl = [k \in DOMAIN tbl |-> tbl[k]]

LEMMA ListLen ==
  ASSUME NEW s, IsList(s)
  PROVE  Len(s) \in Nat /\ DOMAIN s = 1 .. Len(s) /\ \E S : s \in Seq(S)
<1>1. PICK n \in Nat : s = [i \in 1 .. n |-> s[i]]
  BY DEF IsList
<1>2. PICK S : S = {s[i] : i \in 1 .. n}
  OBVIOUS
<1>3. s \in [1 .. n -> S]
  <2>1. \A i \in 1 .. n : s[i] \in S
    BY <1>2
  <2> QED BY <1>1, <2>1
<1>4. s \in Seq(S)
  BY <1>3, SeqDef
<1> QED BY <1>4, LenProperties

LEMMA UndoneRows ==
  ASSUME NEW tbl, IsRows(tbl), NEW log, IsList(log)
  PROVE  Undoes(Undone(tbl, log), log, tbl)
<1>1. PICK n \in Nat : n = Len(log)
  BY ListLen
<1>2. PICK s : s = Reverse(log)
  OBVIOUS
<1>3. DOMAIN s = 1 .. n /\ \A i \in 1 .. n : s[i] = log[(n - i) + 1]
  BY <1>1, <1>2 DEF Reverse
<1>4. PICK h : IsFold(h, s, tbl, n) /\ Undone(tbl, log) = h[1 .. n]
  BY <1>2, <1>3, UndoneFolds
<1>5. PICK u : u = Undone(tbl, log)
  OBVIOUS
<1>6. Restored(u, s, n, tbl)
  BY <1>4, <1>5, FoldRows DEF IsRows
<1>7. ASSUME NEW k \in DOMAIN tbl PROVE FirstOf(u, log, n, k, tbl)
  <2>1. LastOf(u, s, n, k, tbl)
    BY <1>6 DEF Restored
  <2>2. \A i \in 1 .. n : (n - i) + 1 \in 1 .. n /\ s[(n - i) + 1] = log[i]
    <3>1. ASSUME NEW i \in 1 .. n PROVE (n - i) + 1 \in 1 .. n /\ (n - ((n - i) + 1)) + 1 = i
      OBVIOUS
    <3> QED BY <1>3, <3>1
  <2>3. CASE u[k] = tbl[k] /\ \A i \in 1 .. n : k \notin DOMAIN s[i]
    <3>1. \A i \in 1 .. n : k \notin DOMAIN log[i]
      BY <2>2, <2>3
    <3> QED BY <2>3, <3>1 DEF FirstOf
  <2>4. ASSUME NEW i \in 1 .. n, k \in DOMAIN s[i], u[k] = s[i][k],
               \A j \in i + 1 .. n : k \notin DOMAIN s[j]
        PROVE  FirstOf(u, log, n, k, tbl)
    <3>1. PICK m : m = (n - i) + 1
      OBVIOUS
    <3>2. m \in 1 .. n /\ s[i] = log[m]
      BY <1>3, <3>1
    <3>3. ASSUME NEW j \in 1 .. m - 1 PROVE k \notin DOMAIN log[j]
      <4>1. j \in 1 .. n /\ (n - j) + 1 \in i + 1 .. n
        BY <3>1
      <4> QED BY <2>2, <2>4, <4>1
    <3> QED BY <2>4, <3>2, <3>3 DEF FirstOf
  <2> QED BY <2>1, <2>3, <2>4 DEF LastOf
<1> QED BY <1>1, <1>5, <1>6, <1>7 DEF Undoes, Restored

LEMMA UndoesOne ==
  ASSUME NEW u, NEW v, NEW log, NEW tbl, Undoes(u, log, tbl), Undoes(v, log, tbl),
         Len(log) \in Nat
  PROVE  u = v
<1>1. PICK n \in Nat : n = Len(log)
  OBVIOUS
<1>2. ASSUME NEW k \in DOMAIN tbl PROVE u[k] = v[k]
  <2>1. FirstOf(u, log, n, k, tbl) /\ FirstOf(v, log, n, k, tbl)
    BY <1>1 DEF Undoes
  <2>2. CASE \A i \in 1 .. n : k \notin DOMAIN log[i]
    BY <2>1, <2>2 DEF FirstOf
  <2>3. CASE \E i \in 1 .. n : k \in DOMAIN log[i]
    <3>1. PICK i \in 1 .. n : /\ k \in DOMAIN log[i] /\ u[k] = log[i][k]
                             /\ \A j \in 1 .. i - 1 : k \notin DOMAIN log[j]
      BY <2>1, <2>3 DEF FirstOf
    <3>2. PICK m \in 1 .. n : /\ k \in DOMAIN log[m] /\ v[k] = log[m][k]
                             /\ \A j \in 1 .. m - 1 : k \notin DOMAIN log[j]
      BY <2>1, <2>3 DEF FirstOf
    <3>3. i = m
      BY <3>1, <3>2
    <3> QED BY <3>1, <3>2, <3>3
  <2> QED BY <2>2, <2>3
<1> QED BY <1>2 DEF Undoes

\* The entry has what the write has changed.
Reverts(entry, old, new) ==
  /\ DOMAIN new = DOMAIN old
  /\ \A k \in DOMAIN old : IF k \in DOMAIN entry THEN entry[k] = old[k] ELSE new[k] = old[k]

LEMMA UndoneAfter ==
  ASSUME NEW old, IsRows(old), NEW new, IsRows(new), NEW log, IsList(log),
         NEW entry, Reverts(entry, old, new)
  PROVE  IsList(Append(log, entry)) /\ Undone(new, Append(log, entry)) = Undone(old, log)
<1>1. PICK l : l = Append(log, entry)
  OBVIOUS
<1>2. PICK n \in Nat : n = Len(log)
  BY ListLen
<1>3. /\ IsList(l) /\ DOMAIN l = 1 .. n + 1
      /\ \A i \in 1 .. n : l[i] = log[i]
      /\ l[n + 1] = entry
  BY <1>1, <1>2, AppendToList
<1>4. Len(l) = n + 1
  BY <1>2, <1>3, ListLen
<1>5. PICK u : u = Undone(new, l)
  OBVIOUS
<1>6. Undoes(u, l, new)
  BY <1>3, <1>5, UndoneRows
<1>7. DOMAIN new = DOMAIN old
  BY DEF Reverts
<1>8. ASSUME NEW k \in DOMAIN old PROVE FirstOf(u, log, n, k, old)
  <2>1. FirstOf(u, l, n + 1, k, new)
    BY <1>4, <1>6, <1>7 DEF Undoes
  <2>2. \A i \in 1 .. n : i \in 1 .. n + 1 /\ \A j \in 1 .. i - 1 : j \in 1 .. n
    OBVIOUS
  <2>3. IF k \in DOMAIN entry THEN entry[k] = old[k] ELSE new[k] = old[k]
    BY DEF Reverts
  <2>4. CASE u[k] = new[k] /\ \A i \in 1 .. n + 1 : k \notin DOMAIN l[i]
    <3>1. n + 1 \in 1 .. n + 1
      OBVIOUS
    <3> QED BY <1>3, <2>2, <2>3, <2>4, <3>1 DEF FirstOf
  <2>5. ASSUME NEW i \in 1 .. n + 1, k \in DOMAIN l[i], u[k] = l[i][k],
               \A j \in 1 .. i - 1 : k \notin DOMAIN l[j]
        PROVE  FirstOf(u, log, n, k, old)
    <3>1. CASE i = n + 1
      <4>1. \A j \in 1 .. n : j \in 1 .. i - 1
        BY <3>1
      <4> QED BY <1>3, <2>3, <2>5, <3>1, <4>1 DEF FirstOf
    <3>2. CASE i # n + 1
      <4>1. i \in 1 .. n
        BY <3>2
      <4> QED BY <1>3, <2>2, <2>5, <4>1 DEF FirstOf
    <3> QED BY <3>1, <3>2
  <2> QED BY <2>1, <2>4, <2>5 DEF FirstOf
<1>9. Undoes(u, log, old)
  BY <1>2, <1>6, <1>7, <1>8 DEF Undoes
<1>10. Undoes(Undone(old, log), log, old)
  BY UndoneRows
<1>11. u = Undone(old, log)
  BY <1>2, <1>9, <1>10, UndoesOne
<1> QED BY <1>1, <1>3, <1>5, <1>11

LEMMA UndoneNothing ==
  ASSUME NEW tbl, IsRows(tbl)
  PROVE  Undone(tbl, <<>>) = tbl
<1>1. IsList(<<>>) /\ Len(<<>>) = 0 /\ 1 .. 0 = {}
  <2>1. <<>> = [i \in 1 .. 0 |-> <<>>[i]]
    OBVIOUS
  <2> QED BY <2>1 DEF IsList
<1>2. PICK l : l = <<>>
  OBVIOUS
<1>3. Undoes(tbl, l, tbl)
  BY <1>1, <1>2 DEF Undoes, FirstOf, IsRows
<1>4. Undoes(Undone(tbl, l), l, tbl)
  BY <1>1, <1>2, UndoneRows
<1> QED BY <1>1, <1>2, <1>3, <1>4, UndoesOne

-------------------------------------------------------------------------------
(* What the operations do to the rows, and what they log. *)

\* A table has a row, or the place for one, for every key, or it is none.
IsTable(tbl) == IsRows(tbl) /\ (DOMAIN tbl = Keys \/ tbl = NoTable)

\* Of a log: nothing, for rows that stay, or what undoes the change.
Undoable(effect, tbl) ==
  /\ IsTable(effect.table)
  /\ \/ effect.log = <<>> /\ effect.table = tbl
     \/ \E entry : effect.log = <<entry>> /\ Reverts(entry, tbl, effect.table)

LEMMA WriteUndone ==
  ASSUME NEW tbl, IsTable(tbl), NEW k, NEW v, NEW new, new = Write(tbl, k, v),
         NEW entry, entry = Entry(k, Row(tbl, k))
  PROVE  /\ IsTable(new) /\ Reverts(entry, tbl, new)
         /\ Row(tbl, k) = None /\ v = None => new = tbl
<1>1. DOMAIN entry = {k} /\ entry[k] = Row(tbl, k)
  BY DEF Entry
<1>2. CASE tbl = NoTable
  <2>1. new = tbl /\ DOMAIN tbl = {}
    BY <1>2 DEF Write, NoTable
  <2> QED BY <2>1 DEF Reverts
<1>3. CASE tbl # NoTable
  <2>1. /\ DOMAIN tbl = Keys /\ new = [tbl EXCEPT ![k] = v]
        /\ k \in Keys => Row(tbl, k) = tbl[k]
    BY <1>3 DEF IsTable, Write, Row
  <2>2. /\ DOMAIN new = Keys /\ new = [x \in Keys |-> new[x]]
        /\ \A x \in Keys : new[x] = IF x = k THEN v ELSE tbl[x]
    BY <2>1 DEF IsTable, IsRows
  <2>3. tbl = [x \in Keys |-> tbl[x]]
    BY <2>1 DEF IsTable, IsRows
  <2>4. k \notin Keys \/ tbl[k] = v => new = tbl
    BY <2>1, <2>2, <2>3
  <2>5. Reverts(entry, tbl, new)
    BY <1>1, <2>1, <2>2 DEF Reverts
  <2> QED BY <2>1, <2>2, <2>4, <2>5 DEF IsTable, IsRows
<1> QED BY <1>2, <1>3

LEMMA EffectsUndoable ==
  ASSUME IsTable(table)
  PROVE  /\ \A k : /\ Undoable(DeleteEffect(table, k), table)
                  /\ \A v : /\ Undoable(PutEffect(table, k, v), table)
                            /\ Undoable(AddEffect(table, k, v), table)
         /\ Undoable(ClearEffect(table), table) /\ Undoable(ReadEffect(table), table)
<1>1. Undoable(Effect(table, <<>>, TRUE), table) /\ Undoable(Effect(table, <<>>, FALSE), table)
  BY DEF Undoable, Effect
<1>2. ASSUME NEW new, NEW entry, NEW fails, IsTable(new), Reverts(entry, table, new)
      PROVE  Undoable(Effect(new, <<entry>>, fails), table)
  BY <1>2 DEF Undoable, Effect
<1>3. ASSUME NEW k, NEW v PROVE Undoable(PutEffect(table, k, v), table)
  <2>1. PICK new : new = Write(table, k, v)
    OBVIOUS
  <2>2. PICK entry : entry = Entry(k, Row(table, k))
    OBVIOUS
  <2>3. IsTable(new) /\ Reverts(entry, table, new)
    BY <2>1, <2>2, WriteUndone
  <2> QED BY <1>2, <2>1, <2>2, <2>3 DEF PutEffect
<1>4. ASSUME NEW k, NEW v PROVE Undoable(AddEffect(table, k, v), table)
  <2>1. CASE Row(table, k) # None
    BY <1>1, <2>1 DEF AddEffect
  <2>2. CASE Row(table, k) = None
    <3>1. PICK new : new = Write(table, k, v)
      OBVIOUS
    <3>2. PICK entry : entry = Entry(k, Row(table, k))
      OBVIOUS
    <3>3. IsTable(new) /\ Reverts(entry, table, new)
      BY <3>1, <3>2, WriteUndone
    <3> QED BY <1>2, <2>2, <3>1, <3>2, <3>3 DEF AddEffect
  <2> QED BY <2>1, <2>2
<1>5. ASSUME NEW k PROVE Undoable(DeleteEffect(table, k), table)
  <2>1. PICK new : new = Write(table, k, None)
    OBVIOUS
  <2>2. PICK entry : entry = Entry(k, Row(table, k))
    OBVIOUS
  <2>3. /\ IsTable(new) /\ Reverts(entry, table, new)
        /\ Row(table, k) = None => new = table
    BY <2>1, <2>2, WriteUndone
  <2>4. CASE Row(table, k) = None
    BY <1>1, <2>1, <2>3, <2>4 DEF DeleteEffect
  <2>5. CASE Row(table, k) # None
    BY <1>2, <2>1, <2>2, <2>3, <2>5 DEF DeleteEffect
  <2> QED BY <2>4, <2>5
<1>6. Undoable(ClearEffect(table), table)
  <2>1. PICK new : new = [k \in DOMAIN table |-> None]
    OBVIOUS
  <2>2. PICK entry : entry = [k \in Present(table) |-> table[k]]
    OBVIOUS
  <2>3. IsTable(new)
    <3>1. CASE table = NoTable
      BY <2>1, <3>1 DEF IsTable, IsRows, NoTable
    <3>2. CASE table # NoTable
      BY <2>1, <3>2 DEF IsTable, IsRows
    <3> QED BY <3>1, <3>2
  <2>4. Reverts(entry, table, new)
    BY <2>1, <2>2 DEF Reverts, Present
  <2> QED BY <1>2, <2>1, <2>2, <2>3, <2>4 DEF ClearEffect
<1>7. Undoable(ReadEffect(table), table)
  BY <1>1 DEF ReadEffect
<1> QED BY <1>3, <1>4, <1>5, <1>6, <1>7

LEMMA PutsUndoable ==
  ASSUME IsTable(table), NEW k, NEW effect \in Puts(k) \union Adds(k)
  PROVE  Undoable(effect, table)
<1>1. PICK v \in Values : \E whole \in {PutEffect(table, k, v), AddEffect(table, k, v)} :
        effect = whole \/ effect = Effect(table, whole.log, TRUE)
  BY PutsAre
<1>which. PICK whole \in {PutEffect(table, k, v), AddEffect(table, k, v)} :
        effect = whole \/ effect = Effect(table, whole.log, TRUE)
  BY <1>1
<1>2. Undoable(whole, table)
  BY <1>which, EffectsUndoable
<1>3. \A entry : Reverts(entry, table, whole.table) => Reverts(entry, table, table)
  BY DEF Reverts
<1>4. Undoable(Effect(table, whole.log, TRUE), table)
  BY <1>2, <1>3 DEF Undoable, Effect
<1> QED BY <1>which, <1>2, <1>4

-------------------------------------------------------------------------------
(* What was true of the rows when a transaction began. *)

\* As long as a transaction is alone and not over, undoing what it has logged gives the
\* rows it found; if it was aborted then, it has been given them.
Whole(tx, tbl) ==
  /\ IsList(tx.log) /\ tx.alone \in BOOLEAN /\ tx.late \in BOOLEAN
  /\ ~Over(tx) /\ tx.alone => Undone(tbl, tx.log) = tx.before
  /\ tx.aborted /\ tx.alone /\ ~tx.late => tx.restored = tx.before

AllWhole(ts, tbl) == \A t \in DOMAIN ts : Whole(ts[t], tbl)

AtomicInv == IsTable(table) /\ AllWhole(txs, table)

LEMMA EmptyList == IsList(<<>>)
<1>1. <<>> = [i \in 1 .. 0 |-> <<>>[i]]
  OBVIOUS
<1> QED BY <1>1 DEF IsList

\* A transaction that moves on, and whose rows and history do not change.
LEMMA WholeKept ==
  ASSUME NEW a, NEW tbl, Whole(a, tbl), NEW b, Over(a) => Over(b), b.aborted = a.aborted,
         b.log = a.log, b.alone = a.alone, b.late = a.late,
         b.restored = a.restored, b.before = a.before
  PROVE  Whole(b, tbl)
<1> QED BY DEF Whole

\* Something else has changed the rows, or may have.
LEMMA WholeDisturbed ==
  ASSUME NEW a, IsTx(a), NEW tbl, Whole(a, tbl), NEW own \in BOOLEAN, own => Over(a),
         NEW b, b = [a EXCEPT !.alone = @ /\ own], NEW new
  PROVE  Whole(b, new)
<1>1. PICK v \in BOOLEAN : v = (a.alone /\ own)
  OBVIOUS
<1>2. b = [a EXCEPT !.alone = v]
  BY <1>1
<1>3. /\ b.log = a.log /\ b.alone = v /\ b.late = a.late /\ b.before = a.before
      /\ b.restored = a.restored /\ b.aborted = a.aborted /\ b.completed = a.completed
  BY <1>2 DEF IsTx, TxFields
<1> QED BY <1>1, <1>3 DEF Whole, Over

LEMMA DisturbedRest ==
  ASSUME CompletionInv, AllWhole(txs, table), NEW t, NEW new
  PROVE  /\ DOMAIN Disturbed(t) = DOMAIN txs /\ IsList(Disturbed(t))
         /\ \A u \in DOMAIN txs : u # t => Whole(Disturbed(t)[u], new)
<1>1. PICK us : us = Disturbed(t)
  OBVIOUS
<1>2. IsList(us) /\ DOMAIN us = DOMAIN txs
  BY <1>1, DisturbedLater DEF AllLater, CompletionInv
<1>3. ASSUME NEW u \in DOMAIN txs, u # t PROVE Whole(us[u], new)
  <2>1. PICK own \in BOOLEAN : own = Over(txs[u])
    BY DEF Over, CompletionInv, Transactions, IsTx
  <2>2. us[u] = [txs[u] EXCEPT !.alone = @ /\ own]
    BY <1>1, <1>3, <2>1 DEF Disturbed
  <2>3. IsTx(txs[u]) /\ Whole(txs[u], table)
    BY DEF CompletionInv, Transactions, AllWhole
  <2> QED BY <2>1, <2>2, <2>3, WholeDisturbed
<1> QED BY <1>1, <1>2, <1>3

\* What becomes of the transaction that changed them.
LEMMA DisturbedOwn ==
  ASSUME CompletionInv, NEW t \in DOMAIN txs, NEW a, a = Disturbed(t)[t]
  PROVE  /\ IsTx(a) /\ a.mode = txs[t].mode /\ a.log = txs[t].log /\ a.late = txs[t].late
         /\ a.before = txs[t].before /\ a.restored = txs[t].restored
         /\ a.aborted = txs[t].aborted /\ a.completed = txs[t].completed
         /\ a.alone \in BOOLEAN /\ (a.alone => txs[t].alone /\ ~Over(txs[t]))
<1>1. PICK own \in BOOLEAN : own = ~Over(txs[t])
  BY DEF Over, CompletionInv, Transactions, IsTx
<1>2. a = [txs[t] EXCEPT !.alone = @ /\ own]
  BY <1>1 DEF Disturbed
<1>3. PICK v \in BOOLEAN : v = (txs[t].alone /\ own)
  OBVIOUS
<1>4. a = [txs[t] EXCEPT !.alone = v]
  BY <1>2, <1>3
<1>5. IsTx(txs[t])
  BY DEF CompletionInv, Transactions
<1>6. IsTx(a)
  BY <1>4, <1>5, DisturbedOne DEF Later
<1> QED BY <1>1, <1>3, <1>4, <1>5, <1>6 DEF IsTx, TxFields

-------------------------------------------------------------------------------
(* The steps that write rows, or end a transaction. *)

LEMMA InitAtomic == Init => AtomicInv
<1> SUFFICES ASSUME Init PROVE AtomicInv
  OBVIOUS
<1>1. txs = <<>> /\ DOMAIN <<>> = {}
  BY DEF Init
<1>2. IsTable(table)
  BY DEF Init, IsTable, IsRows, NoTable
<1> QED BY <1>1, <1>2 DEF AtomicInv, AllWhole

\* The store is made or goes away.
LEMMA StoreAtomic ==
  ASSUME CompletionInv, AtomicInv, txs' = Disturbed(0), IsTable(table')
  PROVE  AtomicInv'
<1>1. PICK us : us = Disturbed(0)
  OBVIOUS
<1>2. PICK new : new = table'
  OBVIOUS
<1>3. 0 \notin DOMAIN txs
  BY DEF CompletionInv, Transactions, IsList
<1>4. DOMAIN us = DOMAIN txs /\ \A u \in DOMAIN txs : u # 0 => Whole(us[u], new)
  BY <1>1, DisturbedRest DEF AtomicInv
<1>5. AllWhole(us, new)
  BY <1>3, <1>4 DEF AllWhole
<1> QED BY <1>1, <1>2, <1>5 DEF AtomicInv

\* One transaction moves on.
LEMMA MovedAtomic ==
  ASSUME CompletionInv, AtomicInv, table' = table, NEW t \in DOMAIN txs, NEW b,
         txs' = [txs EXCEPT ![t] = b], Whole(b, table)
  PROVE  AtomicInv'
<1>1. \A u \in DOMAIN txs : Whole(txs[u], table)
  BY DEF AtomicInv, AllWhole
<1>2. AllWhole([txs EXCEPT ![t] = b], table)
  BY <1>1 DEF AllWhole
<1> QED BY <1>2 DEF AtomicInv

LEMMA BeginAtomic ==
  ASSUME CompletionInv, AtomicInv, NEW t \in DOMAIN txs,
         Begin(t) \/ Complete(t) \/ \E types : TellAbort(t, types)
  PROVE  AtomicInv'
<1>1. IsTx(txs[t]) /\ Whole(txs[t], table)
  BY DEF CompletionInv, Transactions, AtomicInv, AllWhole
<1>2. table' = table
  BY DEF Begin, Complete, TellAbort
<1>3. CASE Begin(t)
  <2>1. PICK b : b = [txs[t] EXCEPT !.started = TRUE]
    OBVIOUS
  <2>2. Whole(b, table)
    BY <1>1, <2>1, WholeKept DEF IsTx, TxFields, Over
  <2> QED BY <1>2, <1>3, <2>1, <2>2, MovedAtomic DEF Begin
<1>4. CASE Complete(t)
  <2>1. PICK told : told = Append(txs[t].told, "complete")
    OBVIOUS
  <2>2. PICK b : b = [txs[t] EXCEPT !.completed = TRUE, !.told = told]
    OBVIOUS
  <2>3. Whole(b, table)
    BY <1>1, <2>2, WholeKept DEF IsTx, TxFields, Over
  <2>4. txs' = txs \/ txs' = [txs EXCEPT ![t] = b]
    BY <1>4, <2>1, <2>2 DEF Complete
  <2>5. CASE txs' = txs
    BY <1>2, <2>5 DEF AtomicInv
  <2>6. CASE txs' = [txs EXCEPT ![t] = b]
    BY <1>2, <2>3, <2>6, MovedAtomic
  <2> QED BY <2>4, <2>5, <2>6
<1>5. ASSUME NEW types, TellAbort(t, types) PROVE AtomicInv'
  <2>1. PICK told : told = txs[t].told \o types
    OBVIOUS
  <2>2. PICK b : b = [txs[t] EXCEPT !.told = told]
    OBVIOUS
  <2>3. Whole(b, table)
    BY <1>1, <2>2, WholeKept DEF IsTx, TxFields, Over
  <2> QED BY <1>2, <1>5, <2>1, <2>2, <2>3, MovedAtomic DEF TellAbort
<1> QED BY <1>3, <1>4, <1>5

LEMMA TransactionAtomic ==
  ASSUME CompletionInv, AtomicInv, NEW mode, Transaction(mode)
  PROVE  AtomicInv'
<1>1. PICK new : new = NewTransaction(mode)
  OBVIOUS
<1>2. PICK us : us = Append(txs, new)
  OBVIOUS
<1>3. txs' = us /\ table' = table
  BY <1>1, <1>2 DEF Transaction
<1>4. /\ Len(txs) \in Nat /\ DOMAIN txs = 1 .. Len(txs) /\ DOMAIN us = 1 .. Len(txs) + 1
      /\ \A t \in DOMAIN txs : us[t] = txs[t]
      /\ us[Len(txs) + 1] = new
  BY <1>2, AppendToList DEF CompletionInv, Transactions
<1>5. Whole(new, table)
  <2>1. /\ new.log = <<>> /\ new.alone = TRUE /\ new.late = FALSE /\ new.aborted = FALSE
        /\ new.before = table
    BY <1>1 DEF NewTransaction
  <2>2. Undone(table, <<>>) = table
    BY UndoneNothing DEF AtomicInv, IsTable
  <2> QED BY <2>1, <2>2, EmptyList DEF Whole
<1>6. \A t \in DOMAIN us : t \in DOMAIN txs \/ t = Len(txs) + 1
  BY <1>4
<1>7. AllWhole(us, table)
  BY <1>4, <1>5, <1>6 DEF AllWhole, AtomicInv
<1> QED BY <1>3, <1>7 DEF AtomicInv

\* A transaction that is not over is rolled back.
LEMMA RolledBackAtomic ==
  ASSUME CompletionInv, AtomicInv, NEW t \in DOMAIN txs, ~txs[t].aborted, RolledBack(t)
  PROVE  AtomicInv'
<1>1. PICK a : a = txs[t]
  OBVIOUS
<1>2. PICK rows : rows = Undone(table, a.log)
  OBVIOUS
<1>3. PICK base : base = IF rows = table THEN txs ELSE Disturbed(t)
  OBVIOUS
<1>4. PICK late : late = (base[t].late \/ (a.completed /\ ~a.aborted))
  OBVIOUS
<1>5. PICK b : b = [base[t] EXCEPT !.log = <<>>, !.aborted = TRUE, !.completed = TRUE,
                                   !.restored = rows, !.late = late]
  OBVIOUS
<1>6. IsTx(a) /\ Whole(a, table) /\ IsTable(table) /\ Transactions(txs)
  BY <1>1 DEF CompletionInv, Transactions, AtomicInv, AllWhole
<1>7. /\ IsTx(base[t]) /\ base[t].late = a.late /\ base[t].before = a.before
      /\ base[t].alone \in BOOLEAN /\ (base[t].alone => a.alone)
      /\ DOMAIN base = DOMAIN txs
  <2>1. CASE rows = table
    BY <1>1, <1>3, <1>6, <2>1 DEF Whole
  <2>2. CASE rows # table
    <3>1. DOMAIN base = DOMAIN txs
      BY <1>3, <2>2 DEF Disturbed
    <3> QED BY <1>1, <1>3, <2>2, <3>1, DisturbedOwn
  <2> QED BY <2>1, <2>2
<1>8. table' = rows /\ txs' = [base EXCEPT ![t] = b]
  BY <1>1, <1>2, <1>3, <1>4, <1>5, <1>7 DEF RolledBack
<1>9. IsTable(rows)
  <2>1. rows = [k \in DOMAIN table |-> rows[k]]
    BY <1>2, <1>6, UndoneRows DEF Undoes, IsTable, Whole
  <2>2. CASE DOMAIN table = Keys
    BY <2>1, <2>2 DEF IsTable, IsRows
  <2>3. CASE table = NoTable
    <3>1. DOMAIN table = {}
      BY <2>3 DEF NoTable
    <3>2. rows = NoTable
      BY <2>1, <3>1 DEF NoTable
    <3> QED BY <3>2 DEF IsTable, IsRows, NoTable
  <2> QED BY <1>6, <2>2, <2>3 DEF IsTable
<1>10. Whole(b, rows)
  <2>1. /\ b.log = <<>> /\ b.aborted = TRUE /\ b.completed = TRUE /\ b.restored = rows
        /\ b.late = late /\ b.alone = base[t].alone /\ b.before = a.before
    BY <1>5, <1>7 DEF IsTx, TxFields
  <2>2. late \in BOOLEAN /\ a.completed \in BOOLEAN
    BY <1>4, <1>6, <1>7 DEF Whole, IsTx
  <2>3. ~late => ~Over(a)
    BY <1>1, <1>4 DEF Over
  <2>4. ~Over(a) /\ a.alone => rows = a.before
    BY <1>2, <1>6 DEF Whole
  <2> QED BY <1>7, <2>1, <2>2, <2>3, <2>4, EmptyList DEF Whole, Over
<1>11. ASSUME NEW u \in DOMAIN txs, u # t PROVE Whole(base[u], rows)
  <2>1. CASE rows = table
    BY <1>3, <2>1 DEF AtomicInv, AllWhole
  <2>2. CASE rows # table
    BY <1>3, <1>11, <2>2, DisturbedRest DEF AtomicInv
  <2> QED BY <2>1, <2>2
<1>12. AllWhole([base EXCEPT ![t] = b], rows)
  BY <1>7, <1>10, <1>11 DEF AllWhole
<1> QED BY <1>8, <1>9, <1>12 DEF AtomicInv

\* A request reads or writes.
LEMMA RequestAtomic ==
  ASSUME CompletionInv, AtomicInv, NEW t \in DOMAIN txs, NEW effect, Undoable(effect, table),
         Request(t, effect)
  PROVE  AtomicInv'
<1>1. PICK a : a = txs[t]
  OBVIOUS
<1>2. PICK new : new = effect.table
  OBVIOUS
<1>3. PICK base : base = IF new = table THEN txs ELSE Disturbed(t)
  OBVIOUS
<1>4. IsTx(a) /\ Whole(a, table) /\ IsTable(table) /\ Transactions(txs)
  BY <1>1 DEF CompletionInv, Transactions, AtomicInv, AllWhole
<1>5. /\ IsTx(base[t]) /\ base[t].late = a.late /\ base[t].before = a.before
      /\ base[t].log = a.log /\ base[t].restored = a.restored
      /\ base[t].aborted = a.aborted /\ base[t].completed = a.completed
      /\ base[t].alone \in BOOLEAN /\ (base[t].alone => a.alone)
      /\ DOMAIN base = DOMAIN txs
  <2>1. CASE new = table
    BY <1>1, <1>3, <1>4, <2>1 DEF Whole
  <2>2. CASE new # table
    <3>1. DOMAIN base = DOMAIN txs
      BY <1>3, <2>2 DEF Disturbed
    <3> QED BY <1>1, <1>3, <2>2, <3>1, DisturbedOwn
  <2> QED BY <2>1, <2>2
<1>6. ASSUME NEW u \in DOMAIN txs, u # t PROVE Whole(base[u], new)
  <2>1. CASE new = table
    BY <1>3, <2>1 DEF AtomicInv, AllWhole
  <2>2. CASE new # table
    BY <1>3, <1>6, <2>2, DisturbedRest DEF AtomicInv
  <2> QED BY <2>1, <2>2
<1>7. \E b : txs' = [base EXCEPT ![t] = b] /\ Whole(b, new)
  <2>1. CASE txs[t].mode = "readwrite"
    <3>1. PICK log : log = a.log \o effect.log
      OBVIOUS
    <3>2. PICK b : b = [base[t] EXCEPT !.log = log]
      OBVIOUS
    <3>3. txs' = [base EXCEPT ![t] = b]
      BY <1>1, <1>2, <1>3, <1>5, <2>1, <3>1, <3>2 DEF Request
    <3>4. IsList(log) /\ Undone(new, log) = Undone(table, a.log)
      <4>1. PICK S : a.log \in Seq(S)
        BY <1>4, ListLen DEF Whole
      <4>2. CASE effect.log = <<>> /\ new = table
        <5>1. log = a.log
          BY <3>1, <4>1, <4>2
        <5> QED BY <1>4, <4>2, <5>1 DEF Whole
      <4>3. ASSUME NEW entry, effect.log = <<entry>>, Reverts(entry, table, new)
            PROVE  IsList(log) /\ Undone(new, log) = Undone(table, a.log)
        <5>1. log = Append(a.log, entry)
          BY <3>1, <4>1, <4>3
        <5>2. IsRows(table) /\ IsRows(new) /\ IsList(a.log)
          BY <1>2, <1>4 DEF Whole, IsTable, Undoable
        <5> QED BY <4>3, <5>1, <5>2, UndoneAfter
      <4> QED BY <1>2, <4>2, <4>3 DEF Undoable
    <3>5. /\ b.log = log /\ b.alone = base[t].alone /\ b.late = a.late /\ b.before = a.before
          /\ b.restored = a.restored /\ b.aborted = a.aborted /\ b.completed = a.completed
      BY <1>5, <3>2 DEF IsTx, TxFields
    <3>6. Whole(b, new)
      BY <1>4, <1>5, <3>4, <3>5 DEF Whole, Over
    <3> QED BY <3>3, <3>6
  <2>2. CASE txs[t].mode # "readwrite"
    <3>1. PICK v \in BOOLEAN : v = (base[t].alone /\ new = table)
      OBVIOUS
    <3>2. PICK b : b = [base[t] EXCEPT !.alone = v]
      OBVIOUS
    <3>3. txs' = [base EXCEPT ![t] = b]
      BY <1>1, <1>2, <1>3, <1>5, <2>2, <3>1, <3>2 DEF Request
    <3>4. /\ b.log = a.log /\ b.alone = v /\ b.late = a.late /\ b.before = a.before
          /\ b.restored = a.restored /\ b.aborted = a.aborted /\ b.completed = a.completed
      BY <1>5, <3>2 DEF IsTx, TxFields
    <3>5. Whole(b, new)
      BY <1>4, <1>5, <3>1, <3>4 DEF Whole, Over
    <3> QED BY <3>3, <3>5
  <2> QED BY <2>1, <2>2
<1>8. PICK b : txs' = [base EXCEPT ![t] = b] /\ Whole(b, new)
  BY <1>7
<1>9. AllWhole([base EXCEPT ![t] = b], new)
  BY <1>5, <1>6, <1>8 DEF AllWhole
<1>10. table' = new /\ IsTable(new)
  BY <1>2 DEF Request, Undoable
<1> QED BY <1>8, <1>9, <1>10 DEF AtomicInv

LEMMA NextAtomic == CompletionInv /\ AtomicInv /\ [Next]_vars => AtomicInv'
<1> SUFFICES ASSUME CompletionInv, AtomicInv, [Next]_vars PROVE AtomicInv'
  OBVIOUS
<1>1. UNCHANGED <<table, txs>> => AtomicInv'
  BY DEF AtomicInv
<1>2. CASE RunMicrotask
  <2>1. PICK x : x = Head(microtasks).of
    OBVIOUS
  <2>2. Head(microtasks).kind \in {"begin", "complete", "abort", "failed"} => x \in DOMAIN txs
    <3>1. 1 \in 1 .. Len(microtasks) /\ Head(microtasks) = microtasks[1]
      BY <1>2, EmptySeq, LenProperties DEF CompletionInv, RunMicrotask
    <3> QED BY <2>1, <3>1 DEF CompletionInv, Ordered, Fits
  <2>3. CASE Upgrade(x)
    <3>1. CASE table = NoTable
      <4>1. IsTable(table')
        BY <2>3, <3>1 DEF Upgrade, IsTable, IsRows
      <4> QED BY <2>3, <3>1, <4>1, StoreAtomic DEF Upgrade
    <3>2. CASE table # NoTable
      BY <1>1, <2>3, <3>2 DEF Upgrade
    <3> QED BY <3>1, <3>2
  <2>4. CASE UNCHANGED <<table, txs>>
    BY <1>1, <2>4
  <2>5. CASE /\ x \in DOMAIN txs
             /\ Begin(x) \/ Complete(x) \/ \E types : TellAbort(x, types)
    BY <2>5, BeginAtomic
  <2> QED BY <1>2, <2>1, <2>2, <2>3, <2>4, <2>5
          DEF RunMicrotask, Opened, Settle, TellCursor
<1>3. CASE Reject
  <2>1. PICK t : t = reqs[rejecting].tx
    OBVIOUS
  <2>2. t \in DOMAIN txs
    BY <1>3, <2>1 DEF Reject, CompletionInv, Outcomes
  <2>3. UNCHANGED <<table, txs>> \/ (~txs[t].aborted /\ RolledBack(t))
    BY <1>3, <2>1 DEF Reject, Over
  <2> QED BY <1>1, <2>2, <2>3, RolledBackAtomic
<1>4. CASE Program
  <2>1. CASE \E requested \in 1 .. 2 : Open(requested)
    BY <1>1, <2>1 DEF Open
  <2>2. CASE DeleteStore \/ DeleteDatabase
    <3>1. txs' = Disturbed(0) /\ IsTable(table')
      BY <2>2 DEF DeleteStore, DeleteDatabase, IsTable, IsRows, NoTable
    <3> QED BY <3>1, StoreAtomic
  <2>3. CASE \E mode \in {"readonly", "readwrite"} : Transaction(mode)
    BY <2>3, TransactionAtomic
  <2>4. ASSUME NEW t \in DOMAIN txs, Abort(t) PROVE AtomicInv'
    BY <2>4, RolledBackAtomic DEF Abort
  <2>5. ASSUME NEW t \in DOMAIN txs, NEW effect \in Effects, Request(t, effect)
        PROVE  AtomicInv'
    <3>1. Undoable(effect, table)
      <4>1. IsTable(table)
        BY DEF AtomicInv
      <4> QED BY <4>1, EffectsAre, EffectsUndoable, PutsUndoable
    <3> QED BY <2>5, <3>1, RequestAtomic
  <2>6. ASSUME NEW t \in DOMAIN txs, NEW source, NEW lower, NEW dir,
               OpenCursor(t, source, lower, dir)
        PROVE  AtomicInv'
    BY <1>1, <2>6 DEF OpenCursor
  <2>7. ASSUME NEW c, NEW key, NEW by, CursorMoves(c, key, by) PROVE AtomicInv'
    BY <1>1, <2>7 DEF CursorMoves
  <2>9. ASSUME NEW c, NEW by, CursorStrays(c, by) PROVE AtomicInv'
    BY <1>1, <2>9 DEF CursorStrays
  <2>8. ASSUME NEW c \in DOMAIN cursors, CursorWrites(c) PROVE AtomicInv'
    <3>1. PICK t : t = cursors[c].tx
      OBVIOUS
    <3>2. t \in DOMAIN txs
      BY <3>1 DEF CompletionInv, Cursors
    <3>3. PICK effect : Undoable(effect, table) /\ Request(t, effect)
      BY <2>8, <3>1, EffectsUndoable, PutsUndoable DEF CursorWrites, AtomicInv
    <3> QED BY <3>2, <3>3, RequestAtomic
  <2> QED BY <1>4, <2>1, <2>2, <2>3, <2>4, <2>5, <2>6, <2>7, <2>8, <2>9 DEF Program
<1>5. CASE UNCHANGED vars
  BY <1>1, <1>5 DEF vars, dbVars
<1> QED BY <1>2, <1>3, <1>4, <1>5 DEF Next

\* An aborted transaction leaves the rows as it found them, whatever it did to them and
\* in which order, if no other one wrote meanwhile and it was not used, or aborted, when
\* it was over: for any keys and values, any number of transactions and of writes.
THEOREM AbortRestores == Spec => []Atomic
<1>1. AtomicInv => Atomic
  BY DEF AtomicInv, AllWhole, Whole, Atomic
<1> QED BY <1>1, InitCompletion, NextCompletion, InitAtomic, NextAtomic, PTL DEF Spec

-------------------------------------------------------------------------------
(* Sorting. *)

Before(R, x, S) == {y \in S : <<y, x>> \in R}

\* L has every one of S once, in the order R.
Lists(L, S, R) == /\ L \in [1 .. Cardinality(S) -> S]
                  /\ \A x \in S : \E n \in 1 .. Cardinality(S) : L[n] = x
                  /\ \A i, j \in 1 .. Cardinality(S) : i < j => <<L[i], L[j]>> \in R

Orders(R, S) ==
  /\ \A x \in S : <<x, x>> \notin R
  /\ \A x, y \in S : x # y => <<x, y>> \in R \/ <<y, x>> \in R
  /\ \A x, y, z \in S : <<x, y>> \in R /\ <<y, z>> \in R => <<x, z>> \in R

LEMMA Ranked ==
  ASSUME NEW S, IsFiniteSet(S), NEW R, Orders(R, S), NEW L,
         L = [n \in 1 .. Cardinality(S) |-> L[n]],
         \A n \in 1 .. Cardinality(S) :
           (\E x \in S : Cardinality(Before(R, x, S)) = n - 1)
             => L[n] \in S /\ Cardinality(Before(R, L[n], S)) = n - 1
  PROVE  Lists(L, S, R)
<1>1. PICK n \in Nat : n = Cardinality(S)
  BY FS_CardinalityType
<1>2. PICK rank : rank = [x \in S |-> Cardinality(Before(R, x, S))]
  OBVIOUS
<1>3. ASSUME NEW x \in S PROVE IsFiniteSet(Before(R, x, S)) /\ rank[x] \in 0 .. n - 1
  <2>1. Before(R, x, S) \in SUBSET S /\ x \notin Before(R, x, S)
    BY DEF Before, Orders
  <2>2. /\ IsFiniteSet(Before(R, x, S)) /\ Cardinality(Before(R, x, S)) \in Nat
        /\ Cardinality(Before(R, x, S)) <= n /\ Cardinality(Before(R, x, S)) # n
    BY <1>1, <2>1, FS_Subset, FS_CardinalityType
  <2> QED BY <1>1, <1>2, <2>2
<1>4. ASSUME NEW x \in S, NEW y \in S, <<x, y>> \in R PROVE rank[x] < rank[y]
  <2>1. Before(R, x, S) \in SUBSET Before(R, y, S) /\ Before(R, x, S) # Before(R, y, S)
    BY <1>4 DEF Before, Orders
  <2>2. /\ Cardinality(Before(R, x, S)) <= Cardinality(Before(R, y, S))
        /\ Cardinality(Before(R, x, S)) # Cardinality(Before(R, y, S))
    BY <1>3, <2>1, FS_Subset
  <2> QED BY <1>2, <1>3, <2>2
<1>5. ASSUME NEW x \in S, NEW y \in S, rank[x] = rank[y] PROVE x = y
  <2>1. ~(rank[x] < rank[y]) /\ ~(rank[y] < rank[x])
    BY <1>3, <1>5
  <2> QED BY <1>4, <2>1 DEF Orders
<1>6. \A m \in 0 .. n - 1 : \E x \in S : rank[x] = m
  <2>1. rank \in Injection(S, 0 .. n - 1)
    BY <1>2, <1>3, <1>5 DEF Injection, IsInjective
  <2>2. IsFiniteSet(0 .. n - 1) /\ Cardinality(0 .. n - 1) = n
    BY FS_Interval
  <2>3. rank \in Surjection(S, 0 .. n - 1)
    BY <1>1, <2>1, <2>2, FS_Injection
  <2> QED BY <2>3 DEF Surjection
<1>7. ASSUME NEW i \in 1 .. n PROVE L[i] \in S /\ rank[L[i]] = i - 1
  <2>1. i - 1 \in 0 .. n - 1
    OBVIOUS
  <2>2. \E x \in S : Cardinality(Before(R, x, S)) = i - 1
    BY <1>2, <1>6, <2>1
  <2>3. L[i] \in S /\ Cardinality(Before(R, L[i], S)) = i - 1
    BY <1>1, <2>2
  <2> QED BY <1>2, <2>3
<1>8. L \in [1 .. n -> S]
  BY <1>1, <1>7
<1>9. ASSUME NEW x \in S PROVE \E i \in 1 .. n : L[i] = x
  <2>1. PICK i : i = rank[x] + 1
    OBVIOUS
  <2>2. i \in 1 .. n /\ i - 1 = rank[x]
    BY <1>3, <2>1
  <2>3. L[i] \in S /\ rank[L[i]] = rank[x]
    BY <1>7, <2>2
  <2> QED BY <1>5, <2>2, <2>3
<1>10. ASSUME NEW i \in 1 .. n, NEW j \in 1 .. n, i < j PROVE <<L[i], L[j]>> \in R
  <2>1. L[i] \in S /\ L[j] \in S /\ rank[L[i]] < rank[L[j]]
    <3>1. L[i] \in S /\ rank[L[i]] = i - 1
      BY <1>7
    <3>2. L[j] \in S /\ rank[L[j]] = j - 1
      BY <1>7
    <3>3. i - 1 < j - 1
      BY <1>10
    <3> QED BY <3>1, <3>2, <3>3
  <2>2. ~(rank[L[j]] < rank[L[i]]) /\ L[i] # L[j]
    BY <1>3, <2>1
  <2> QED BY <1>4, <2>1, <2>2 DEF Orders
<1> QED BY <1>1, <1>8, <1>9, <1>10 DEF Lists

-------------------------------------------------------------------------------
(* What a cursor goes over. *)

Rows == [key : Nat, primary : Nat \ {0}]

\* A sequence of the items of S, each once, in the order of the direction.
InOrder(items, dir, S) ==
  /\ \E n \in Nat : items \in [1 .. n -> S] /\ Len(items) = n
  /\ \A x \in S : \E i \in DOMAIN items : items[i] = x
  /\ \A i, j \in DOMAIN items : i < j => Precedes(dir, items[i], items[j])

LEMMA AscendingOrders ==
  ASSUME NEW S, S \subseteq Rows, NEW R, R = {p \in S \X S : Ascending(p[1], p[2])}
  PROVE  Orders(R, S)
<1>1. ASSUME NEW x \in S, NEW y \in S
      PROVE  /\ <<x, y>> \in R <=> Ascending(x, y)
             /\ x.key \in Nat /\ x.primary \in Nat
             /\ x.key = y.key /\ x.primary = y.primary => x = y
  BY DEF Rows
<1>2. \A x \in S : <<x, x>> \notin R
  BY <1>1 DEF Ascending
<1>3. \A x, y \in S : x # y => <<x, y>> \in R \/ <<y, x>> \in R
  BY <1>1 DEF Ascending
<1>4. \A x, y, z \in S : <<x, y>> \in R /\ <<y, z>> \in R => <<x, z>> \in R
  <2> SUFFICES ASSUME NEW x \in S, NEW y \in S, NEW z \in S, Ascending(x, y), Ascending(y, z)
               PROVE  Ascending(x, z)
    BY <1>1
  <2>1. /\ x.key \in Nat /\ y.key \in Nat /\ z.key \in Nat
        /\ x.primary \in Nat /\ y.primary \in Nat /\ z.primary \in Nat
    BY <1>1
  <2> QED BY <2>1 DEF Ascending
<1> QED BY <1>2, <1>3, <1>4 DEF Orders

Ranking(S, n) == CHOOSE x \in S : Cardinality({y \in S : Ascending(y, x)}) = n - 1

LEMMA SortedItems ==
  ASSUME NEW S, S \subseteq Rows, IsFiniteSet(S)
  PROVE  InOrder(Listed(S, Ascending), "next", S)
<1>1. PICK R : R = {p \in S \X S : Ascending(p[1], p[2])}
  OBVIOUS
<1>2. PICK L : L = Listed(S, Ascending)
  OBVIOUS
<1>3. ASSUME NEW x \in S PROVE {y \in S : Ascending(y, x)} = Before(R, x, S)
  BY <1>1 DEF Before
<1>4. L = [n \in 1 .. Cardinality(S) |-> Ranking(S, n)]
  BY <1>2 DEF Listed, Ranking
<1>5. Lists(L, S, R)
  <2>1. ASSUME NEW n \in 1 .. Cardinality(S),
               \E x \in S : Cardinality(Before(R, x, S)) = n - 1
        PROVE  L[n] \in S /\ Cardinality(Before(R, L[n], S)) = n - 1
    <3>1. \E x \in S : Cardinality({y \in S : Ascending(y, x)}) = n - 1
      BY <1>3, <2>1
    <3>2. /\ Ranking(S, n) \in S
          /\ Cardinality({y \in S : Ascending(y, Ranking(S, n))}) = n - 1
      BY <3>1 DEF Ranking
    <3>3. L[n] = Ranking(S, n)
      BY <1>4
    <3> QED BY <1>3, <3>2, <3>3
  <2>2. Orders(R, S)
    BY <1>1, AscendingOrders
  <2>3. L = [n \in 1 .. Cardinality(S) |-> L[n]]
    BY <1>4
  <2> QED BY <2>1, <2>2, <2>3, Ranked
<1>6. PICK n \in Nat : n = Cardinality(S)
  BY FS_CardinalityType
<1>7. L \in [1 .. n -> S] /\ DOMAIN L = 1 .. n /\ Len(L) = n
  <2>1. L \in [1 .. n -> S]
    BY <1>5, <1>6 DEF Lists
  <2>2. L \in Seq(S)
    BY <2>1, SeqDef
  <2> QED BY <2>1, <2>2, LenProperties
<1>8. \A i, j \in 1 .. n : i < j => Precedes("next", L[i], L[j])
  BY <1>1, <1>5, <1>6 DEF Lists, Precedes, IsPrev
<1> QED BY <1>2, <1>5, <1>6, <1>7, <1>8 DEF InOrder, Lists

Placing(I, n) == CHOOSE x \in I : Cardinality({y \in I : y < x}) = n - 1

\* p has every place of I once, in order.
Places(p, I) == \E n \in Nat : /\ p \in [1 .. n -> I]
                               /\ \A x \in I : \E i \in 1 .. n : p[i] = x
                               /\ \A i, j \in 1 .. n : i < j => p[i] < p[j]

LEMMA SortedPlaces ==
  ASSUME NEW I, I \subseteq Nat, IsFiniteSet(I)
  PROVE  Places(Listed(I, <), I)
<1>0. PICK p : p = Listed(I, <)
  OBVIOUS
<1>1. PICK R : R = {q \in I \X I : q[1] < q[2]}
  OBVIOUS
<1>2. \A x, y \in I : <<x, y>> \in R <=> x < y
  BY <1>1
<1>3. ASSUME NEW x \in I PROVE {y \in I : y < x} = Before(R, x, I)
  BY <1>2 DEF Before
<1>4. p = [n \in 1 .. Cardinality(I) |-> Placing(I, n)]
  BY <1>0 DEF Listed, Placing
<1>5. Lists(p, I, R)
  <2>1. ASSUME NEW n \in 1 .. Cardinality(I),
               \E x \in I : Cardinality(Before(R, x, I)) = n - 1
        PROVE  p[n] \in I /\ Cardinality(Before(R, p[n], I)) = n - 1
    <3>1. \E x \in I : Cardinality({y \in I : y < x}) = n - 1
      BY <1>3, <2>1
    <3>2. Placing(I, n) \in I /\ Cardinality({y \in I : y < Placing(I, n)}) = n - 1
      BY <3>1 DEF Placing
    <3>3. p[n] = Placing(I, n)
      BY <1>4
    <3> QED BY <1>3, <3>2, <3>3
  <2>2. Orders(R, I)
    <3>1. \A x \in I : x \in Nat
      OBVIOUS
    <3>2. \A x \in I : <<x, x>> \notin R
      BY <1>2, <3>1
    <3>3. \A x, y \in I : x # y => <<x, y>> \in R \/ <<y, x>> \in R
      BY <1>2, <3>1
    <3>4. \A x, y, z \in I : <<x, y>> \in R /\ <<y, z>> \in R => <<x, z>> \in R
      <4> SUFFICES ASSUME NEW x \in I, NEW y \in I, NEW z \in I, x < y, y < z
                   PROVE  x < z
        BY <1>2
      <4> QED BY <3>1
    <3> QED BY <3>2, <3>3, <3>4 DEF Orders
  <2>3. p = [n \in 1 .. Cardinality(I) |-> p[n]]
    BY <1>4
  <2> QED BY <2>1, <2>2, <2>3, Ranked
<1>6. PICK n \in Nat : n = Cardinality(I)
  BY FS_CardinalityType
<1>7. p \in [1 .. n -> I] /\ \A x \in I : \E i \in 1 .. n : p[i] = x
  BY <1>5, <1>6 DEF Lists
<1>8. ASSUME NEW i \in 1 .. n, NEW j \in 1 .. n, i < j PROVE p[i] < p[j]
  <2>1. <<p[i], p[j]>> \in R
    BY <1>5, <1>6, <1>8 DEF Lists
  <2> QED BY <1>2, <1>7, <2>1
<1>9. Places(p, I)
  BY <1>7, <1>8 DEF Places
<1> QED BY <1>0, <1>9

LEMMA ReversedItems ==
  ASSUME NEW s, NEW S, NEW from, NEW dir, InOrder(s, from, S), ~IsPrev(from), IsPrev(dir)
  PROVE  InOrder(Reverse(s), dir, S)
<1>1. PICK n \in Nat : s \in [1 .. n -> S] /\ Len(s) = n
  BY DEF InOrder
<1>2. PICK r : r = Reverse(s)
  OBVIOUS
<1>3. r = [i \in 1 .. n |-> s[(n - i) + 1]]
  BY <1>1, <1>2 DEF Reverse
<1>4. \A i \in 1 .. n : (n - i) + 1 \in 1 .. n /\ (n - ((n - i) + 1)) + 1 = i
  OBVIOUS
<1>5. r \in [1 .. n -> S] /\ DOMAIN r = 1 .. n
  BY <1>1, <1>3, <1>4
<1>6. Len(r) = n
  BY <1>5, SeqDef, LenProperties
<1>7. ASSUME NEW x \in S PROVE \E i \in 1 .. n : r[i] = x
  <2>1. PICK i \in 1 .. n : s[i] = x
    BY <1>1 DEF InOrder
  <2>2. r[(n - i) + 1] = x
    BY <1>3, <1>4, <2>1
  <2> QED BY <1>4, <2>2
<1>8. ASSUME NEW i \in 1 .. n, NEW j \in 1 .. n, i < j PROVE Precedes(dir, r[i], r[j])
  <2>1. (n - j) + 1 < (n - i) + 1
    BY <1>8
  <2>2. Precedes(from, s[(n - j) + 1], s[(n - i) + 1])
    BY <1>1, <1>4, <2>1 DEF InOrder
  <2>3. r[i] = s[(n - i) + 1] /\ r[j] = s[(n - j) + 1]
    BY <1>3
  <2> QED BY <2>2, <2>3 DEF Precedes
<1> QED BY <1>2, <1>5, <1>6, <1>7, <1>8 DEF InOrder

\* With a unique direction: the first of each key.
Firsts(S, dir) ==
  {item \in S : \A other \in S : Precedes(dir, other, item) => other.key # item.key}

LEMMA UniqueItems ==
  ASSUME NEW S, S \subseteq Rows, NEW dir, NEW s, InOrder(s, dir, S)
  PROVE  InOrder(Unique(s), dir, Firsts(S, dir))
<1>1. PICK n \in Nat : s \in [1 .. n -> S] /\ Len(s) = n
  BY DEF InOrder
<1>2. PICK I : I = {i \in 1 .. n : i = 1 \/ s[i].key # s[i - 1].key}
  OBVIOUS
<1>3. PICK p : p = Listed(I, <)
  OBVIOUS
<1>4. PICK u : u = Unique(s)
  OBVIOUS
<1>5. u = [m \in DOMAIN p |-> s[p[m]]]
  <2>1. DOMAIN s = 1 .. n
    BY <1>1
  <2> QED BY <1>2, <1>3, <1>4, <2>1 DEF Unique
<1>6. I \subseteq Nat /\ IsFiniteSet(I)
  <2>1. IsFiniteSet(1 .. n)
    BY FS_Interval
  <2>2. I \in SUBSET (1 .. n)
    BY <1>2
  <2>3. IsFiniteSet(I)
    BY <2>1, <2>2, FS_Subset
  <2> QED BY <2>2, <2>3
<1>7. PICK k \in Nat : /\ p \in [1 .. k -> I]
                       /\ \A x \in I : \E i \in 1 .. k : p[i] = x
                       /\ \A i, j \in 1 .. k : i < j => p[i] < p[j]
  <2>1. Places(p, I)
    BY <1>3, <1>6, SortedPlaces
  <2> QED BY <2>1 DEF Places
<1>8. \A i \in 1 .. n : s[i] \in S /\ s[i].key \in Nat
  BY <1>1 DEF Rows
<1>9. \A i, j \in 1 .. n : i < j => Precedes(dir, s[i], s[j])
  BY <1>1 DEF InOrder
<1>10. \A i, j \in 1 .. n : Precedes(dir, s[i], s[j]) => i < j
  <2> SUFFICES ASSUME NEW i \in 1 .. n, NEW j \in 1 .. n, Precedes(dir, s[i], s[j]), ~(i < j)
               PROVE  FALSE
    OBVIOUS
  <2>1. s[i] \in Rows /\ s[j] \in Rows
    BY <1>8
  <2>2. i = j \/ Precedes(dir, s[j], s[i])
    BY <1>9
  <2> QED BY <2>1, <2>2 DEF Precedes, Ascending, Rows
<1>11. ASSUME NEW i \in 1 .. n PROVE i \in I <=> s[i] \in Firsts(S, dir)
  <2>1. ASSUME i \in I, NEW other \in S, Precedes(dir, other, s[i]) PROVE other.key # s[i].key
    <3>1. PICK j \in 1 .. n : s[j] = other
      BY <1>1 DEF InOrder
    <3>2. j < i
      BY <1>10, <2>1, <3>1
    <3>3. i # 1 /\ i - 1 \in 1 .. n /\ (j = i - 1 \/ j < i - 1) /\ i - 1 < i
      BY <3>2
    <3>4. s[i].key # s[i - 1].key
      BY <1>2, <2>1, <3>3
    <3>5. s[j] = s[i - 1] \/ Precedes(dir, s[j], s[i - 1])
      BY <1>9, <3>3
    <3>6. Precedes(dir, s[i - 1], s[i])
      BY <1>9, <3>3
    <3>7. /\ s[i].key \in Nat /\ s[i - 1].key \in Nat /\ s[j].key \in Nat
      BY <1>8, <3>3
    <3> QED BY <3>1, <3>4, <3>5, <3>6, <3>7 DEF Precedes, Ascending
  <2>2. ASSUME i \notin I PROVE s[i] \notin Firsts(S, dir)
    <3>1. i - 1 \in 1 .. n /\ i - 1 < i /\ s[i].key = s[i - 1].key
      BY <1>2, <2>2
    <3>2. s[i - 1] \in S /\ Precedes(dir, s[i - 1], s[i])
      BY <1>8, <1>9, <3>1
    <3> QED BY <3>1, <3>2 DEF Firsts
  <2>3. i \in I => s[i] \in Firsts(S, dir)
    BY <1>8, <2>1 DEF Firsts
  <2> QED BY <2>2, <2>3
<1>12. I \subseteq 1 .. n
  BY <1>2
<1>13. \A m \in 1 .. k : p[m] \in I /\ p[m] \in 1 .. n /\ u[m] = s[p[m]]
  BY <1>5, <1>7, <1>12
<1>14. DOMAIN u = 1 .. k /\ u \in [1 .. k -> Firsts(S, dir)]
  BY <1>5, <1>7, <1>11, <1>13
<1>15. Len(u) = k
  BY <1>14, SeqDef, LenProperties
<1>16. ASSUME NEW x \in Firsts(S, dir) PROVE \E m \in 1 .. k : u[m] = x
  <2>1. PICK i \in 1 .. n : s[i] = x
    BY <1>1 DEF InOrder, Firsts
  <2>2. i \in I
    BY <1>11, <2>1
  <2> QED BY <1>7, <1>13, <2>1, <2>2
<1>17. ASSUME NEW i \in 1 .. k, NEW j \in 1 .. k, i < j PROVE Precedes(dir, u[i], u[j])
  BY <1>7, <1>9, <1>13, <1>17
<1> QED BY <1>4, <1>14, <1>15, <1>16, <1>17 DEF InOrder

Shows(found, dir) == IF IsUnique(dir) THEN Firsts(found, dir) ELSE found

LEMMA ItemsInOrder ==
  ASSUME NEW S, S \subseteq Rows, IsFiniteSet(S), NEW dir
  PROVE  InOrder(Items(S, dir), dir, Shows(S, dir))
<1>1. PICK sorted : sorted = Listed(S, Ascending)
  OBVIOUS
<1>2. PICK turned : turned = IF IsPrev(dir) THEN Reverse(sorted) ELSE sorted
  OBVIOUS
<1>3. InOrder(turned, dir, S)
  <2>1. InOrder(sorted, "next", S) /\ ~IsPrev("next")
    BY <1>1, SortedItems DEF IsPrev
  <2>2. CASE IsPrev(dir)
    BY <1>2, <2>1, <2>2, ReversedItems
  <2>3. CASE ~IsPrev(dir)
    BY <1>2, <2>1, <2>3 DEF InOrder, Precedes
  <2> QED BY <2>2, <2>3
<1>4. Items(S, dir) = IF IsUnique(dir) THEN Unique(turned) ELSE turned
  BY <1>1, <1>2 DEF Items
<1> QED BY <1>3, <1>4, UniqueItems DEF Shows

-------------------------------------------------------------------------------
(* Counting. *)

LEMMA PlacesOrdered ==
  ASSUME NEW S, S \subseteq Rows, NEW dir, NEW items, InOrder(items, dir, S)
  PROVE  /\ Len(items) \in Nat /\ DOMAIN items = 1 .. Len(items)
         /\ \A i \in 1 .. Len(items) : items[i] \in S /\ items[i] \in Rows
         /\ \A x \in S : \E i \in 1 .. Len(items) : items[i] = x
         /\ \A i, j \in 1 .. Len(items) :
              /\ Precedes(dir, items[i], items[j]) <=> i < j
              /\ items[i] = items[j] => i = j
<1>1. PICK n \in Nat : items \in [1 .. n -> S] /\ Len(items) = n
  BY DEF InOrder
<1>2. \A i \in 1 .. n : items[i] \in S /\ items[i] \in Rows
  BY <1>1
<1>3. \A i, j \in 1 .. n : i < j => Precedes(dir, items[i], items[j])
  BY <1>1 DEF InOrder
<1>4. ASSUME NEW i \in 1 .. n, NEW j \in 1 .. n, ~(i < j)
      PROVE  ~Precedes(dir, items[i], items[j])
  <2>1. items[i] \in Rows /\ items[j] \in Rows
    BY <1>2
  <2>2. i = j \/ Precedes(dir, items[j], items[i])
    BY <1>3, <1>4
  <2> QED BY <2>1, <2>2 DEF Precedes, Ascending, Rows
<1>5. ASSUME NEW i \in 1 .. n, NEW j \in 1 .. n, items[i] = items[j] PROVE i = j
  <2>1. ~(i < j) /\ ~(j < i)
    BY <1>3, <1>4, <1>5
  <2> QED BY <2>1
<1> QED BY <1>1, <1>2, <1>3, <1>4, <1>5 DEF InOrder

LEMMA Apart ==
  ASSUME NEW S, S \subseteq Rows, NEW dir, NEW items, InOrder(items, dir, S),
         NEW i \in 1 .. Len(items), NEW j \in 1 .. Len(items)
  PROVE  /\ Precedes(dir, items[i], items[j]) <=> i < j
         /\ items[i] = items[j] => i = j
BY PlacesOrdered

LEMMA CountPlaces ==
  ASSUME NEW items, NEW a \in Nat, NEW b \in Nat, a <= b,
         \A i, j \in a + 1 .. b : items[i] = items[j] => i = j,
         NEW C, C = {items[i] : i \in a + 1 .. b}
  PROVE  IsFiniteSet(C) /\ Cardinality(C) = b - a
<1>1. PICK f : f = [i \in a + 1 .. b |-> items[i]]
  OBVIOUS
<1>2. f \in Bijection(a + 1 .. b, C)
  <2>1. f \in [a + 1 .. b -> C]
    BY <1>1
  <2>2. f \in Injection(a + 1 .. b, C)
    BY <1>1, <2>1 DEF Injection, IsInjective
  <2>3. f \in Surjection(a + 1 .. b, C)
    BY <1>1, <2>1 DEF Surjection
  <2> QED BY <2>2, <2>3 DEF Bijection
<1>3. ExistsBijection(a + 1 .. b, C)
  BY <1>2 DEF ExistsBijection
<1>4. IsFiniteSet(a + 1 .. b) /\ Cardinality(a + 1 .. b) = b - a
  <2>1. a + 1 \in Int /\ b \in Int
    OBVIOUS
  <2>2. /\ IsFiniteSet(a + 1 .. b)
        /\ Cardinality(a + 1 .. b) = IF a + 1 > b THEN 0 ELSE b - (a + 1) + 1
    BY <2>1, FS_Interval
  <2> QED BY <2>2
<1> QED BY <1>3, <1>4, FS_Bijection

LEMMA Counted ==
  ASSUME NEW items, NEW a \in Nat, NEW b \in Nat, a <= b,
         \A i, j \in a + 1 .. b : items[i] = items[j] => i = j
  PROVE  Cardinality({items[i] : i \in a + 1 .. b}) = b - a
<1>1. PICK C : C = {items[i] : i \in a + 1 .. b}
  OBVIOUS
<1>2. Cardinality(C) = b - a
  BY <1>1, CountPlaces
<1> QED BY <1>1, <1>2

\* What IsNext says of an item, candidates and a count.
Follows(item, C, dir, by) ==
  IF Cardinality(C) < by THEN item = Nothing
  ELSE item \in C /\ Cardinality({other \in C : Precedes(dir, other, item)}) = by - 1

\* The item `by` places on, of those behind place lo.
LEMMA FollowsBy ==
  ASSUME NEW S, S \subseteq Rows, NEW dir, NEW items, InOrder(items, dir, S),
         NEW lo \in 0 .. Len(items), NEW by \in Nat \ {0},
         NEW C, C = {items[i] : i \in lo + 1 .. Len(items)},
         NEW item, item = IF lo + by <= Len(items) THEN items[lo + by] ELSE Nothing
  PROVE  Follows(item, C, dir, by)
<1>0. PICK n \in Nat : n = Len(items)
  BY PlacesOrdered
<1>1. /\ Len(items) = n
      /\ \A i, j \in 1 .. n : Precedes(dir, items[i], items[j]) <=> i < j
      /\ \A i, j \in 1 .. n : items[i] = items[j] => i = j
  <2>1. ASSUME NEW i \in 1 .. Len(items), NEW j \in 1 .. Len(items)
        PROVE  /\ Precedes(dir, items[i], items[j]) <=> i < j
               /\ items[i] = items[j] => i = j
    BY PlacesOrdered
  <2> QED BY <1>0, <2>1
<1>2. lo \in Nat /\ lo <= n /\ \A i \in lo + 1 .. n : i \in 1 .. n
  BY <1>1
<1>3. Cardinality(C) = n - lo
  <2>1. \A i, j \in lo + 1 .. n : items[i] = items[j] => i = j
    BY <1>1, <1>2
  <2> QED BY <1>1, <1>2, <2>1, CountPlaces
<1>4. CASE lo + by > n
  <2>1. Cardinality(C) < by
    BY <1>2, <1>3, <1>4
  <2>2. item = Nothing
    BY <1>1, <1>2, <1>4
  <2> QED BY <2>1, <2>2 DEF Follows
<1>5. CASE lo + by <= n
  <2>1. PICK m : m = lo + by
    OBVIOUS
  <2>2. m \in lo + 1 .. n /\ item = items[m] /\ item \in C
    BY <1>1, <1>2, <1>5, <2>1
  <2>3. PICK k \in Nat : k = m - 1
    BY <1>2, <2>2
  <2>4. {other \in C : Precedes(dir, other, item)} = {items[i] : i \in lo + 1 .. k}
    <3>1. \A i \in lo + 1 .. n : Precedes(dir, items[i], items[m]) <=> i \in lo + 1 .. k
      BY <1>1, <1>2, <2>2, <2>3
    <3>2. \A i \in lo + 1 .. k : i \in lo + 1 .. n
      BY <1>2, <2>2, <2>3
    <3> QED BY <1>1, <2>2, <3>1, <3>2
  <2>5. Cardinality({items[i] : i \in lo + 1 .. k}) = k - lo
    <3>1. lo \in Nat /\ k \in Nat /\ lo <= k
      BY <1>2, <2>2, <2>3
    <3>2. \A i, j \in lo + 1 .. k : items[i] = items[j] => i = j
      BY <1>1, <1>2, <2>2, <2>3
    <3> QED BY <3>1, <3>2, Counted, SMTT(60)
  <2>6. k - lo = by - 1 /\ ~(n - lo < by)
    BY <1>2, <1>5, <2>1, <2>3
  <2> QED BY <1>3, <2>2, <2>4, <2>5, <2>6 DEF Follows
<1> QED BY <1>2, <1>4, <1>5

\* The first item of those at the places M.
LEMMA FollowsFirst ==
  ASSUME NEW S, S \subseteq Rows, NEW dir, NEW items, InOrder(items, dir, S),
         NEW M, M \subseteq 1 .. Len(items), NEW C, C = {items[i] : i \in M},
         NEW item, M = {} => item = Nothing,
         M # {} => \E m \in M : item = items[m] /\ \A i \in M : m <= i
  PROVE  Follows(item, C, dir, 1)
<1>0. PICK n \in Nat : n = Len(items)
  BY PlacesOrdered
<1>1. /\ Len(items) = n
      /\ \A i, j \in 1 .. n : Precedes(dir, items[i], items[j]) <=> i < j
      /\ \A i, j \in 1 .. n : items[i] = items[j] => i = j
  <2>1. ASSUME NEW i \in 1 .. Len(items), NEW j \in 1 .. Len(items)
        PROVE  /\ Precedes(dir, items[i], items[j]) <=> i < j
               /\ items[i] = items[j] => i = j
    BY Apart
  <2> QED BY <1>0, <2>1
<1>2. CASE M = {}
  <2>1. Cardinality(C) = 0
    BY <1>2, FS_EmptySet
  <2> QED BY <1>2, <2>1 DEF Follows
<1>3. CASE M # {}
  <2>1. PICK m \in M : item = items[m] /\ \A i \in M : m <= i
    BY <1>3
  <2>2. IsFiniteSet(C)
    <3>1. PICK D : D = {items[i] : i \in 0 + 1 .. n}
      OBVIOUS
    <3>2. \A i, j \in 0 + 1 .. n : items[i] = items[j] => i = j
      BY <1>1
    <3>3. IsFiniteSet(D)
      <4>1. 0 \in Nat /\ 0 <= n
        OBVIOUS
      <4> QED BY <3>1, <3>2, <4>1, CountPlaces
    <3>4. C \in SUBSET D
      BY <1>1, <3>1
    <3> QED BY <3>3, <3>4, FS_Subset
  <2>3. item \in C
    BY <2>1
  <2>4. Cardinality(C) \in Nat /\ ~(Cardinality(C) < 1)
    <3>1. Cardinality(C) \in Nat
      BY <2>2, FS_CardinalityType
    <3>2. Cardinality(C) # 0
      BY <2>2, <2>3, FS_EmptySet
    <3> QED BY <3>1, <3>2
  <2>5. {other \in C : Precedes(dir, other, item)} = {}
    <3> SUFFICES ASSUME NEW i \in M, Precedes(dir, items[i], items[m]) PROVE FALSE
      BY <2>1
    <3>1. i \in 1 .. n /\ m \in 1 .. n /\ m <= i
      BY <1>1, <2>1
    <3> QED BY <1>1, <3>1
  <2>6. Cardinality({}) = 1 - 1
    BY FS_EmptySet
  <2> QED BY <2>3, <2>4, <2>5, <2>6 DEF Follows
<1> QED BY <1>2, <1>3

-------------------------------------------------------------------------------
(* A cursor. *)

CursorFields == {"tx", "items", "index", "dir", "astray", "found", "told"}

\* Its items are those there are to show, in order; it has shown what it should have;
\* and what it showed last is where it stands.
Walking(c) ==
  /\ c = [f \in CursorFields |-> c[f]]
  /\ c.found \subseteq Rows
  /\ InOrder(c.items, c.dir, Shows(c.found, c.dir))
  /\ c.index \in Nat \ {0}
  /\ IsList(c.told)
  /\ c.told = <<>> => c.index = 1
  /\ c.told # <<>> => c.told[Len(c.told)].item = IF Stands(c) THEN Position(c) ELSE Nothing
  /\ \A i \in DOMAIN c.told : IsNext(c, i)

\* A move that the program may ask for.
IsMove(key, by) == key \in Nat /\ by \in Nat \ {0} /\ (key = None \/ by = 1)

\* What is left of it when it has gone astray, after it was shown first.
Fares(c) ==
  IF c.astray THEN c = [f \in CursorFields |-> c[f]] /\ IsList(c.told) /\ c.told # <<>>
  ELSE Walking(c)

LEMMA ShowsRows ==
  ASSUME NEW c, Walking(c)
  PROVE  /\ ToShow(c) = Shows(c.found, c.dir) /\ ToShow(c) \subseteq Rows
         /\ InOrder(c.items, c.dir, ToShow(c))
<1>1. ToShow(c) = Shows(c.found, c.dir)
  BY DEF ToShow, Shows, Firsts
<1>2. ToShow(c) \subseteq c.found /\ c.found \subseteq Rows
  BY DEF ToShow, Walking
<1> QED BY <1>1, <1>2 DEF Walking

\* What was shown before says all that IsNext wants to know.
LEMMA SameNext ==
  ASSUME NEW c, NEW d, d.found = c.found, d.dir = c.dir,
         NEW i, d.told[i] = c.told[i], i > 1 => d.told[i - 1] = c.told[i - 1]
  PROVE  IsNext(d, i) <=> IsNext(c, i)
<1>1. ToShow(d) = ToShow(c)
  BY DEF ToShow
<1>2. Candidates(d, i) = Candidates(c, i)
  BY <1>1 DEF Candidates
<1> QED BY <1>2 DEF IsNext

\* One more is shown, at another place.
LEMMA WalksOn ==
  ASSUME NEW c, Walking(c), NEW index \in Nat \ {0}, NEW m, m = [c EXCEPT !.index = index],
         NEW key, NEW by, NEW d, d = Shown(m, key, by), NEW n, n = Len(d.told),
         \E item : /\ item = IF index <= Len(c.items) THEN c.items[index] ELSE Nothing
                   /\ Follows(item, Candidates(d, n), c.dir, by)
  PROVE  Walking(d) /\ d.told # <<>> /\ d.astray = c.astray
<1>1. PICK item : /\ item = IF index <= Len(c.items) THEN c.items[index] ELSE Nothing
                  /\ Follows(item, Candidates(d, n), c.dir, by)
  OBVIOUS
<1>2. PICK e : e = [item |-> item, key |-> key, by |-> by]
  OBVIOUS
<1>3. PICK told : told = Append(c.told, e)
  OBVIOUS
<1>4. /\ m = [f \in CursorFields |-> m[f]] /\ m.index = index /\ m.items = c.items
      /\ m.told = c.told /\ m.dir = c.dir /\ m.found = c.found /\ m.astray = c.astray
  BY DEF Walking, CursorFields
<1>5. d = [m EXCEPT !.told = told]
  BY <1>1, <1>2, <1>3, <1>4 DEF Shown, Stands, Position
<1>6. /\ d = [f \in CursorFields |-> d[f]] /\ d.index = index /\ d.items = c.items
      /\ d.told = told /\ d.dir = c.dir /\ d.found = c.found /\ d.astray = c.astray
  BY <1>4, <1>5 DEF CursorFields
<1>7. PICK k \in Nat : k = Len(c.told)
  BY ListLen DEF Walking
<1>8. /\ IsList(told) /\ DOMAIN c.told = 1 .. k /\ DOMAIN told = 1 .. k + 1
      /\ \A i \in 1 .. k : told[i] = c.told[i]
      /\ told[k + 1] = e
  BY <1>3, <1>7, AppendToList DEF Walking
<1>9. Len(told) = k + 1 /\ n = k + 1 /\ told # <<>>
  <2>1. Len(told) \in Nat /\ 1 .. k + 1 = 1 .. Len(told)
    BY <1>8, ListLen
  <2>2. Len(told) = k + 1
    BY <2>1
  <2>3. k + 1 \in DOMAIN told
    BY <1>8
  <2> QED BY <1>6, <2>2, <2>3
<1>10. ASSUME NEW i \in 1 .. k + 1 PROVE IsNext(d, i)
  <2>1. CASE i = k + 1
    <3>1. d.told[n] = e /\ e.item = item /\ e.by = by
      BY <1>2, <1>6, <1>8, <1>9
    <3> QED BY <1>1, <1>6, <1>9, <2>1, <3>1 DEF IsNext, Follows
  <2>2. CASE i # k + 1
    <3>1. i \in 1 .. k /\ (i > 1 => i - 1 \in 1 .. k)
      BY <2>2
    <3>2. IsNext(c, i)
      BY <1>8, <3>1 DEF Walking
    <3> QED BY <1>6, <1>8, <3>1, <3>2, SameNext
  <2> QED BY <2>1, <2>2
<1>11. d.told[Len(d.told)].item = IF Stands(d) THEN Position(d) ELSE Nothing
  BY <1>1, <1>2, <1>6, <1>8, <1>9 DEF Stands, Position
<1>12. d.found \subseteq Rows /\ InOrder(d.items, d.dir, Shows(d.found, d.dir))
  BY <1>6 DEF Walking
<1> QED BY <1>6, <1>8, <1>9, <1>10, <1>11, <1>12 DEF Walking

LEMMA FirstShown ==
  ASSUME NEW c, Walking(c), c.told = <<>>, NEW d, d = Shown(c, None, 1)
  PROVE  Walking(d) /\ d.told # <<>> /\ d.astray = c.astray
<1>1. c.index = 1 /\ c = [c EXCEPT !.index = 1]
  BY DEF Walking, CursorFields
<1>2. PICK items : items = c.items
  OBVIOUS
<1>3. PICK S : S = ToShow(c)
  OBVIOUS
<1>4. S \subseteq Rows /\ InOrder(items, c.dir, S)
  BY <1>2, <1>3, ShowsRows
<1>5. PICK len \in Nat : len = Len(items)
  BY <1>4, PlacesOrdered
<1>6. PICK e : e = [item |-> IF Stands(c) THEN Position(c) ELSE Nothing, key |-> None, by |-> 1]
  OBVIOUS
<1>7. Len(d.told) = 1 /\ d.told[1].key = None
  <2>1. d.told = <<e>>
    BY <1>6 DEF Shown, Walking, CursorFields
  <2>2. e.key = None
    BY <1>6
  <2>3. Len(<<e>>) = 1 /\ <<e>>[1] = e
    OBVIOUS
  <2> QED BY <2>1, <2>2, <2>3
<1>8. d.found = c.found /\ d.dir = c.dir
  BY DEF Shown, Walking, CursorFields
<1>9. Candidates(d, 1) = S
  <2>1. ToShow(d) = S
    BY <1>3, <1>8 DEF ToShow
  <2> QED BY <1>7, <2>1 DEF Candidates
<1>10. S = {items[i] : i \in 0 + 1 .. Len(items)}
  <2>1. /\ \A i \in 1 .. Len(items) : items[i] \in S
        /\ \A x \in S : \E i \in 1 .. Len(items) : items[i] = x
    BY <1>4 DEF InOrder
  <2> QED BY <2>1
<1>11. PICK item : item = IF 0 + 1 <= Len(items) THEN items[0 + 1] ELSE Nothing
  OBVIOUS
<1>12. 0 \in 0 .. Len(items) /\ 1 \in Nat \ {0}
  BY <1>5
<1>13. Follows(item, S, c.dir, 1)
  BY <1>4, <1>10, <1>11, <1>12, FollowsBy
<1>14. item = IF 1 <= Len(items) THEN items[1] ELSE Nothing
  BY <1>11
<1>15. PICK index \in Nat \ {0} : index = 1
  OBVIOUS
<1>16. PICK m : m = [c EXCEPT !.index = index]
  OBVIOUS
<1>17. d = Shown(m, None, 1)
  BY <1>1, <1>15, <1>16
<1>18. PICK n : n = Len(d.told)
  OBVIOUS
<1>19. \E i : /\ i = IF index <= Len(c.items) THEN c.items[index] ELSE Nothing
              /\ Follows(i, Candidates(d, n), c.dir, 1)
  BY <1>2, <1>7, <1>9, <1>13, <1>14, <1>15, <1>18
<1>20. Walking(c)
  OBVIOUS
<1> QED BY ONLY <1>16, <1>17, <1>18, <1>19, <1>20, WalksOn

\* Where a cursor goes that stands at place lo, and what may follow.
LEMMA NextShown ==
  ASSUME NEW c, Walking(c), c.told # <<>>, ~c.astray, NEW key, NEW by, IsMove(key, by),
         NEW d, d = Moved(c, key, by)
  PROVE  Walking(d) /\ d.told # <<>> /\ d.astray = c.astray
<1>1. PICK items : items = c.items
  OBVIOUS
<1>2. PICK S : S = ToShow(c)
  OBVIOUS
<1>3. S \subseteq Rows /\ InOrder(items, c.dir, S)
  BY <1>1, <1>2, ShowsRows
<1>4. PICK len \in Nat : len = Len(items)
  BY <1>3, PlacesOrdered
<1>5. PICK lo \in Nat \ {0} : lo = c.index
  BY DEF Walking
<1>6. PICK index : index = IF key = None THEN lo + by ELSE SkipTo(c, key)
  OBVIOUS
<1>7. PICK m : m = [c EXCEPT !.index = index]
  OBVIOUS
<1>8. d = Shown(m, key, by)
  <2>1. m = [c EXCEPT !.index = IF key = None \/ c.astray THEN @ + by ELSE SkipTo(c, key)]
    BY <1>5, <1>6, <1>7
  <2>2. m.astray = c.astray
    BY <1>7 DEF Walking, CursorFields
  <2> QED BY <2>1, <2>2 DEF Moved, Arrived
<1>9. PICK k \in Nat : k = Len(c.told) /\ DOMAIN c.told = 1 .. k
  BY ListLen DEF Walking
<1>10. k \in Nat \ {0} /\ c.told[k].item = IF lo <= len THEN items[lo] ELSE Nothing
  <2>1. k # 0
    <3> SUFFICES ASSUME k = 0 PROVE FALSE
      OBVIOUS
    <3>1. DOMAIN c.told = {}
      BY <1>9
    <3>2. c.told = [i \in {} |-> c.told[i]]
      BY <3>1 DEF Walking, IsList
    <3> QED BY <3>2
  <2>2. c.told[k].item = IF Stands(c) THEN Position(c) ELSE Nothing
    BY <1>9 DEF Walking
  <2> QED BY <1>1, <1>4, <1>5, <2>1, <2>2 DEF Stands, Position
<1>11. /\ d.found = c.found /\ d.dir = c.dir /\ Len(d.told) = k + 1
       /\ d.told[k + 1].key = key /\ d.told[k] = c.told[k]
  <2>1. /\ m.told = c.told /\ m.found = c.found /\ m.dir = c.dir
        /\ m = [f \in CursorFields |-> m[f]]
    BY <1>7 DEF Walking, CursorFields
  <2>2. PICK e : e.key = key /\ d = [m EXCEPT !.told = Append(c.told, e)]
    BY <1>8, <2>1 DEF Shown
  <2>3. d.told = Append(c.told, e) /\ d.found = c.found /\ d.dir = c.dir
    BY <2>1, <2>2 DEF CursorFields
  <2>4. PICK told : told = Append(c.told, e)
    OBVIOUS
  <2>5. /\ IsList(told) /\ DOMAIN told = 1 .. k + 1
        /\ told[k + 1] = e /\ told[k] = c.told[k]
    BY <1>9, <1>10, <2>4, AppendToList DEF Walking
  <2>6. Len(told) \in Nat /\ 1 .. Len(told) = 1 .. k + 1
    BY <2>5, ListLen
  <2>7. Len(told) = k + 1
    BY <2>6
  <2> QED BY <2>2, <2>3, <2>4, <2>5, <2>7
<1>12. Candidates(d, k + 1) =
         {x \in S : /\ c.told[k].item # Nothing /\ Precedes(c.dir, c.told[k].item, x)
                    /\ key # None => x.key = key \/ (IF IsPrev(c.dir) THEN x.key < key
                                                     ELSE x.key > key)}
  <2>1. ToShow(d) = S
    BY <1>2, <1>11 DEF ToShow
  <2>2. k + 1 > 1 /\ (k + 1) - 1 = k
    BY <1>10
  <2> QED BY <1>11, <2>1, <2>2 DEF Candidates
<1>13. PICK C : C = Candidates(d, k + 1)
  OBVIOUS
<1>14. PICK item : item = IF index <= Len(items) THEN items[index] ELSE Nothing
  OBVIOUS
<1>15. index \in Nat \ {0} /\ Follows(item, C, c.dir, by)
  <2>1. CASE lo > len
    <3>1. C = {}
      BY <1>10, <1>12, <1>13, <2>1
    <3>2. index \in Nat \ {0} /\ index > len
      <4>1. ~Stands(c)
        BY <1>1, <1>4, <1>5, <2>1 DEF Stands
      <4> QED BY <1>5, <1>6, <2>1, <4>1 DEF SkipTo, IsMove
    <3>3. item = Nothing
      BY <1>4, <1>14, <3>2
    <3>4. Cardinality(C) < by
      BY <3>1, FS_EmptySet DEF IsMove
    <3> QED BY <3>2, <3>3, <3>4 DEF Follows
  <2>2. CASE lo <= len
    <3>1. /\ \A i \in 1 .. len : items[i] \in S /\ items[i] \in Rows
          /\ \A x \in S : \E i \in 1 .. len : items[i] = x
          /\ lo \in 1 .. len
      <4>1. items \in [1 .. len -> S] /\ \A x \in S : \E i \in DOMAIN items : items[i] = x
        BY <1>3, <1>4 DEF InOrder
      <4>2. lo \in 1 .. len
        BY <1>4, <1>5, <2>2
      <4> QED BY <1>3, <4>1, <4>2
    <3>2. \A i \in 1 .. len : Precedes(c.dir, items[lo], items[i]) <=> lo < i
      <4> SUFFICES ASSUME NEW i \in 1 .. len
                   PROVE  Precedes(c.dir, items[lo], items[i]) <=> lo < i
        OBVIOUS
      <4> QED BY <1>3, <1>4, <3>1, Apart
    <3>3. c.told[k].item = items[lo] /\ items[lo] # Nothing
      BY <1>10, <2>2, <3>1 DEF Rows, Nothing, None
    <3>4. CASE key = None
      <4>1. C = {items[i] : i \in lo + 1 .. Len(items)}
        <5>1. C = {x \in S : Precedes(c.dir, items[lo], x)}
          BY <1>12, <1>13, <3>3, <3>4
        <5>2. \A i \in lo + 1 .. len : i \in 1 .. len /\ lo < i
          OBVIOUS
        <5>3. \A i \in 1 .. len : lo < i => i \in lo + 1 .. len
          OBVIOUS
        <5> QED BY <1>4, <3>1, <3>2, <5>1, <5>2, <5>3
      <4>2. index = lo + by /\ index \in Nat \ {0} /\ by \in Nat \ {0} /\ lo \in 0 .. Len(items)
        BY <1>4, <1>6, <2>2, <3>4 DEF IsMove
      <4>3. item = IF lo + by <= Len(items) THEN items[lo + by] ELSE Nothing
        BY <1>14, <4>2
      <4> QED BY <1>3, <4>1, <4>2, <4>3, FollowsBy
    <3>5. CASE key # None
      <4>1. by = 1 /\ key \in Nat
        BY <3>5 DEF IsMove
      <4>2. PICK M : M = {i \in lo + 1 .. len : Reached(c, i, key)}
        OBVIOUS
      <4>3. C = {items[i] : i \in M}
        <5>1. C = {x \in S : /\ Precedes(c.dir, items[lo], x)
                             /\ x.key = key \/ (IF IsPrev(c.dir) THEN x.key < key
                                                ELSE x.key > key)}
          BY <1>12, <1>13, <3>3, <3>5
        <5>2. \A i \in 1 .. len :
                Reached(c, i, key) <=> \/ items[i].key = key
                                       \/ (IF IsPrev(c.dir) THEN items[i].key < key
                                           ELSE items[i].key > key)
          <6> SUFFICES ASSUME NEW i \in 1 .. len
                       PROVE  Reached(c, i, key)
                                <=> \/ items[i].key = key
                                    \/ (IF IsPrev(c.dir) THEN items[i].key < key
                                        ELSE items[i].key > key)
            OBVIOUS
          <6>1. items[i].key \in Nat
            BY <3>1 DEF Rows
          <6> QED BY <1>1, <4>1, <6>1 DEF Reached
        <5>3. \A i \in lo + 1 .. len : i \in 1 .. len /\ lo < i
          OBVIOUS
        <5>4. \A i \in 1 .. len : lo < i => i \in lo + 1 .. len
          OBVIOUS
        <5>5. \A i \in M : items[i] \in C
          BY <3>1, <3>2, <4>2, <5>1, <5>2, <5>3
        <5>6. \A x \in C : \E i \in M : x = items[i]
          BY <3>1, <3>2, <4>2, <5>1, <5>2, <5>4
        <5> QED BY <5>5, <5>6
      <4>4. M \subseteq 1 .. Len(items) /\ M \subseteq Nat
        BY <1>4, <4>2
      <4>5. index = IF M = {} THEN len + 1 ELSE CHOOSE i \in M : \A j \in M : i <= j
        <5>1. Stands(c)
          BY <1>1, <1>4, <1>5, <2>2 DEF Stands
        <5> QED BY <1>1, <1>4, <1>5, <1>6, <3>5, <4>2, <5>1 DEF SkipTo
      <4>6. M = {} => item = Nothing /\ index \in Nat \ {0}
        BY <1>4, <1>14, <4>5
      <4>7. M # {} => index \in M /\ \A j \in M : index <= j
        BY <4>4, <4>5, LeastNat
      <4>8. M # {} => \E i \in M : item = items[i] /\ \A j \in M : i <= j
        <5> SUFFICES ASSUME M # {} PROVE item = items[index]
          BY <4>7
        <5>1. index \in 1 .. Len(items) /\ Len(items) \in Nat
          BY <1>4, <4>4, <4>7
        <5> QED BY <1>14, <5>1
      <4>9. index \in Nat \ {0}
        <5>1. \A i \in 1 .. Len(items) : i \in Nat \ {0}
          BY <1>4
        <5> QED BY <4>4, <4>6, <4>7, <5>1
      <4> QED BY <1>3, <4>1, <4>3, <4>4, <4>6, <4>8, <4>9, FollowsFirst
    <3> QED BY <3>4, <3>5
  <2> QED BY <1>4, <1>5, <2>1, <2>2
<1>16. PICK n : n = Len(d.told)
  OBVIOUS
<1>17. \E i : /\ i = IF index <= Len(c.items) THEN c.items[index] ELSE Nothing
              /\ Follows(i, Candidates(d, n), c.dir, by)
  BY <1>1, <1>11, <1>13, <1>14, <1>15, <1>16
<1>18. Walking(c) /\ index \in Nat \ {0}
  BY <1>15
<1> QED BY ONLY <1>7, <1>8, <1>16, <1>17, <1>18, WalksOn

\* A cursor that goes astray, or is moved when it has.
LEMMA AstrayShown ==
  ASSUME NEW c, Fares(c), c.told # <<>>, NEW index, NEW m, NEW key, NEW by,
         m = [c EXCEPT !.index = index, !.astray = TRUE],
         NEW d, d = Arrived(m, key, by)
  PROVE  Fares(d) /\ d.told # <<>>
<1>1. c = [f \in CursorFields |-> c[f]] /\ IsList(c.told)
  BY DEF Fares, Walking
<1>2. m = [f \in CursorFields |-> m[f]] /\ m.astray /\ m.told = c.told
  BY <1>1 DEF CursorFields
<1>3. CASE d = m
  BY <1>1, <1>2, <1>3 DEF Fares
<1>4. CASE d = Shown(m, key, by)
  <2>1. PICK e : d = [m EXCEPT !.told = Append(@, e)]
    BY <1>4 DEF Shown
  <2>2. PICK told : told = Append(c.told, e)
    OBVIOUS
  <2>3. d = [f \in CursorFields |-> d[f]] /\ d.astray /\ d.told = told
    BY <1>2, <2>1, <2>2 DEF CursorFields
  <2>4. PICK k \in Nat : k = Len(c.told)
    BY <1>1, ListLen
  <2>5. IsList(told) /\ DOMAIN told = 1 .. k + 1
    BY <1>1, <2>2, <2>4, AppendToList
  <2>6. k + 1 \in DOMAIN told
    BY <2>5
  <2>7. told # <<>>
    BY <2>6
  <2> QED BY <2>3, <2>5, <2>7 DEF Fares
<1> QED BY <1>3, <1>4 DEF Arrived

LEMMA MovedFares ==
  ASSUME NEW c, Fares(c), c.told # <<>>, NEW key, NEW by, IsMove(key, by),
         NEW d, d = Moved(c, key, by)
  PROVE  Fares(d) /\ d.told # <<>>
<1>1. CASE ~c.astray
  <2>1. Walking(c)
    BY <1>1 DEF Fares
  <2>2. Walking(d) /\ d.told # <<>> /\ d.astray = c.astray
    BY <1>1, <2>1, NextShown
  <2> QED BY <1>1, <2>2 DEF Fares
<1>2. CASE c.astray
  <2>1. PICK index : index = c.index + by
    OBVIOUS
  <2>2. PICK m : m = [c EXCEPT !.index = index, !.astray = c.astray]
    OBVIOUS
  <2>3. m = [c EXCEPT !.index = index]
    BY <1>2, <2>2 DEF Fares, CursorFields
  <2>4. d = Arrived(m, key, by)
    BY <1>2, <2>1, <2>3 DEF Moved
  <2>5. c = [f \in CursorFields |-> c[f]] /\ IsList(c.told)
    BY <1>2 DEF Fares
  <2>6. m = [f \in CursorFields |-> m[f]] /\ m.astray /\ m.told = c.told
    BY <1>2, <2>3, <2>5 DEF CursorFields
  <2>7. Fares(m) /\ m.told # <<>>
    BY <2>5, <2>6 DEF Fares
  <2>8. d = m \/ d = Shown(m, key, by)
    BY <2>4 DEF Arrived
  <2>9. ASSUME d = Shown(m, key, by) PROVE Fares(d) /\ d.told # <<>>
    <3>1. PICK e : d = [m EXCEPT !.told = Append(@, e)]
      BY <2>9 DEF Shown
    <3>2. PICK told : told = Append(c.told, e)
      OBVIOUS
    <3>3. d = [f \in CursorFields |-> d[f]] /\ d.astray /\ d.told = told
      BY <2>6, <3>1, <3>2 DEF CursorFields
    <3>4. PICK k \in Nat : k = Len(c.told)
      BY <2>5, ListLen
    <3>5. IsList(told) /\ DOMAIN told = 1 .. k + 1
      BY <2>5, <3>2, <3>4, AppendToList
    <3>6. k + 1 \in DOMAIN told
      BY <3>5
    <3>7. told # <<>>
      BY <3>6
    <3> QED BY <3>3, <3>5, <3>7 DEF Fares
  <2> QED BY <2>7, <2>8, <2>9
<1> QED BY <1>1, <1>2

-------------------------------------------------------------------------------
(* What rows have in them. *)

RowsTyped(tbl) == \A k \in DOMAIN tbl : tbl[k] \in Nat
LogTyped(log) == \A i \in DOMAIN log : RowsTyped(log[i])

RowsInv == RowsTyped(table) /\ \A t \in DOMAIN txs : LogTyped(txs[t].log)

EffectTyped(effect) ==
  /\ RowsTyped(effect.table)
  /\ effect.log = <<>> \/ \E entry : effect.log = <<entry>> /\ RowsTyped(entry)

LEMMA OpenedWalks ==
  ASSUME NEW tbl, IsTable(tbl), RowsTyped(tbl), NEW tx, NEW source, NEW lower, NEW dir,
         NEW c, c = NewCursor(tx, tbl, source, lower, dir)
  PROVE  Walking(c) /\ c.told = <<>> /\ ~c.astray
<1>1. PICK found : found = Found(tbl, source, lower)
  OBVIOUS
<1>2. Present(tbl) \subseteq Keys /\ IsFiniteSet(Present(tbl))
  <2>1. Present(tbl) \in SUBSET Keys
    BY DEF Present, IsTable, NoTable
  <2> QED BY <2>1, FS_Subset, IdbCursorAssumption
<1>3. PICK f : f = [k \in Present(tbl) |->
                      [key |-> IF source = "index" THEN tbl[k] ELSE k, primary |-> k]]
  OBVIOUS
<1>4. PICK I : I = {f[k] : k \in Present(tbl)}
  OBVIOUS
<1>5. IsFiniteSet(I) /\ I \subseteq Rows
  <2>1. f \in Surjection(Present(tbl), I)
    BY <1>3, <1>4 DEF Surjection
  <2>2. IsFiniteSet(I)
    BY <1>2, <2>1, FS_Surjection
  <2>3. ASSUME NEW k \in Present(tbl) PROVE f[k] \in Rows
    <3>1. k \in Nat \ {0} /\ tbl[k] \in Nat
      BY <1>2, IdbCursorAssumption DEF Present, RowsTyped
    <3> QED BY <1>3, <3>1 DEF Rows
  <2> QED BY <1>4, <2>2, <2>3
<1>6. found \in SUBSET I
  BY <1>1, <1>3, <1>4 DEF Found
<1>7. found \subseteq Rows /\ IsFiniteSet(found)
  BY <1>5, <1>6, FS_Subset
<1>8. PICK items : items = Items(found, dir)
  OBVIOUS
<1>9. InOrder(items, dir, Shows(found, dir))
  BY <1>7, <1>8, ItemsInOrder
<1>10. c = [tx |-> tx, items |-> items, index |-> 1, dir |-> dir, astray |-> FALSE,
            found |-> found, told |-> <<>>]
  BY <1>1, <1>8 DEF NewCursor
<1>11. /\ c = [g \in CursorFields |-> c[g]] /\ c.items = items /\ c.index = 1 /\ c.dir = dir
       /\ c.found = found /\ c.told = <<>> /\ c.astray = FALSE
  BY <1>10 DEF CursorFields
<1>12. DOMAIN <<>> = {} /\ IsList(<<>>)
  BY EmptyList
<1> QED BY <1>7, <1>9, <1>11, <1>12 DEF Walking

LEMMA RowTyped ==
  ASSUME NEW tbl, RowsTyped(tbl), NEW k
  PROVE  Row(tbl, k) \in Nat /\ RowsTyped(Entry(k, Row(tbl, k))) /\ RowsTyped(Entry(k, None))
<1>1. Row(tbl, k) \in Nat
  BY DEF Row, RowsTyped, None
<1> QED BY <1>1 DEF RowsTyped, Entry, None

LEMMA WriteTyped ==
  ASSUME NEW tbl, IsTable(tbl), RowsTyped(tbl), NEW k, NEW v \in Nat
  PROVE  RowsTyped(Write(tbl, k, v))
<1>1. tbl = [x \in DOMAIN tbl |-> tbl[x]]
  BY DEF IsTable, IsRows
<1>2. \A x \in DOMAIN tbl : tbl[x] \in Nat
  BY DEF RowsTyped
<1>3. PICK new : new = [tbl EXCEPT ![k] = v]
  OBVIOUS
<1>4. \A x \in DOMAIN new : x \in DOMAIN tbl /\ new[x] = IF x = k THEN v ELSE tbl[x]
  BY <1>1, <1>3
<1>5. RowsTyped(new)
  BY <1>2, <1>4 DEF RowsTyped
<1> QED BY <1>3, <1>5 DEF Write

LEMMA EffectsOfRows ==
  ASSUME IsTable(table), RowsTyped(table)
  PROVE  /\ \A k : /\ EffectTyped(DeleteEffect(table, k))
                  /\ \A v \in Values : /\ EffectTyped(PutEffect(table, k, v))
                                       /\ EffectTyped(AddEffect(table, k, v))
         /\ EffectTyped(ClearEffect(table)) /\ EffectTyped(ReadEffect(table))
<1>1. EffectTyped(Effect(table, <<>>, TRUE)) /\ EffectTyped(Effect(table, <<>>, FALSE))
  BY DEF EffectTyped, Effect
<1>2. ASSUME NEW new, NEW entry, NEW fails, RowsTyped(new), RowsTyped(entry)
      PROVE  EffectTyped(Effect(new, <<entry>>, fails)) /\ EffectTyped(Effect(new, <<>>, fails))
  BY <1>2 DEF EffectTyped, Effect
<1>3. ASSUME NEW k, NEW v \in Nat
      PROVE  RowsTyped(Write(table, k, v)) /\ RowsTyped(Entry(k, Row(table, k)))
             /\ RowsTyped(Entry(k, None))
  BY RowTyped, WriteTyped
<1>4. \A v \in Values : v \in Nat
  BY IdbCursorAssumption
<1>5. ASSUME NEW k, NEW v \in Values
      PROVE  EffectTyped(PutEffect(table, k, v)) /\ EffectTyped(AddEffect(table, k, v))
  BY <1>1, <1>2, <1>3, <1>4 DEF PutEffect, AddEffect
<1>6. ASSUME NEW k PROVE EffectTyped(DeleteEffect(table, k))
  <2>1. None \in Nat
    BY DEF None
  <2>2. RowsTyped(Write(table, k, None)) /\ RowsTyped(Entry(k, Row(table, k)))
    BY <1>3, <2>1
  <2> QED BY <1>2, <2>2 DEF DeleteEffect
<1>7. EffectTyped(ClearEffect(table))
  <2>1. PICK new : new = [k \in DOMAIN table |-> None]
    OBVIOUS
  <2>2. PICK entry : entry = [k \in Present(table) |-> table[k]]
    OBVIOUS
  <2>3. RowsTyped(new) /\ RowsTyped(entry)
    BY <2>1, <2>2 DEF RowsTyped, Present, None
  <2> QED BY <1>2, <2>1, <2>2, <2>3 DEF ClearEffect
<1>8. EffectTyped(ReadEffect(table))
  BY <1>1 DEF ReadEffect
<1> QED BY <1>5, <1>6, <1>7, <1>8

LEMMA PutsOfRows ==
  ASSUME IsTable(table), RowsTyped(table), NEW k, NEW effect \in Puts(k) \union Adds(k)
  PROVE  EffectTyped(effect)
<1>1. PICK v \in Values : \E whole \in {PutEffect(table, k, v), AddEffect(table, k, v)} :
        effect = whole \/ effect = Effect(table, whole.log, TRUE)
  BY PutsAre
<1>which. PICK whole \in {PutEffect(table, k, v), AddEffect(table, k, v)} :
        effect = whole \/ effect = Effect(table, whole.log, TRUE)
  BY <1>1
<1>2. EffectTyped(whole)
  BY <1>which, EffectsOfRows
<1>3. EffectTyped(Effect(table, whole.log, TRUE))
  BY <1>2 DEF EffectTyped, Effect
<1> QED BY <1>which, <1>2, <1>3

\* What a log writes back are rows too.
LEMMA UndoneTyped ==
  ASSUME NEW tbl, IsRows(tbl), RowsTyped(tbl), NEW log, IsList(log), LogTyped(log)
  PROVE  RowsTyped(Undone(tbl, log))
<1>1. PICK u : u = Undone(tbl, log)
  OBVIOUS
<1>2. Undoes(u, log, tbl)
  BY <1>1, UndoneRows
<1>3. PICK n \in Nat : n = Len(log) /\ DOMAIN log = 1 .. n
  BY ListLen
<1>4. DOMAIN u = DOMAIN tbl /\ \A k \in DOMAIN tbl : FirstOf(u, log, n, k, tbl)
  BY <1>2, <1>3 DEF Undoes
<1>5. ASSUME NEW k \in DOMAIN tbl PROVE u[k] \in Nat
  <2>1. u[k] = tbl[k] \/ \E i \in 1 .. n : k \in DOMAIN log[i] /\ u[k] = log[i][k]
    BY <1>4 DEF FirstOf
  <2>2. \A i \in 1 .. n : k \in DOMAIN log[i] => log[i][k] \in Nat
    BY <1>3 DEF LogTyped, RowsTyped
  <2> QED BY <2>1, <2>2 DEF RowsTyped
<1> QED BY <1>1, <1>4, <1>5 DEF RowsTyped

LEMMA DisturbedLogs ==
  ASSUME CompletionInv, NEW t
  PROVE  /\ DOMAIN Disturbed(t) = DOMAIN txs
         /\ \A u \in DOMAIN txs : /\ Disturbed(t)[u] = [f \in TxFields |-> Disturbed(t)[u][f]]
                                  /\ Disturbed(t)[u].log = txs[u].log
<1>1. PICK us : us = Disturbed(t)
  OBVIOUS
<1>2. ASSUME NEW u \in DOMAIN txs
      PROVE  us[u] = [f \in TxFields |-> us[u][f]] /\ us[u].log = txs[u].log
  <2>1. PICK a : a = txs[u]
    OBVIOUS
  <2>2. IsTx(a)
    BY <2>1 DEF CompletionInv, Transactions
  <2>3. PICK v : v = (a.alone /\ (IF u = t THEN ~Over(a) ELSE Over(a)))
    OBVIOUS
  <2>4. us[u] = [a EXCEPT !.alone = v]
    BY <1>1, <2>1, <2>3 DEF Disturbed
  <2>5. Later(a, us[u]) /\ us[u].log = a.log
    BY <2>2, <2>4, DisturbedOne
  <2> QED BY <2>1, <2>5 DEF Later, IsTx
<1>3. DOMAIN us = DOMAIN txs
  BY <1>1 DEF Disturbed
<1> QED BY <1>1, <1>2, <1>3

LEMMA InitRows == Init => RowsInv
<1> SUFFICES ASSUME Init PROVE RowsInv
  OBVIOUS
<1>1. txs = <<>> /\ DOMAIN <<>> = {}
  BY DEF Init
<1>2. table = NoTable \/ table \in [Keys -> Values] \/ table \in [Keys -> {None}]
  BY DEF Init
<1>3. RowsTyped(table)
  <2>1. CASE table = NoTable
    BY <2>1 DEF RowsTyped, NoTable
  <2>2. CASE table \in [Keys -> Values]
    <3>1. \A v \in Values : v \in Nat
      BY IdbCursorAssumption
    <3> QED BY <2>2, <3>1 DEF RowsTyped
  <2>3. CASE table \in [Keys -> {None}]
    BY <2>3 DEF RowsTyped, None
  <2> QED BY <1>2, <2>1, <2>2, <2>3
<1> QED BY <1>1, <1>3 DEF RowsInv

LEMMA LogsKept ==
  ASSUME RowsInv, RowsTyped(table'), DOMAIN txs' = DOMAIN txs,
         \A u \in DOMAIN txs : txs'[u].log = txs[u].log
  PROVE  RowsInv'
<1> QED BY DEF RowsInv

\* One transaction moves on.
LEMMA MovedRows ==
  ASSUME CompletionInv, RowsInv, table' = table, NEW t \in DOMAIN txs,
         Begin(t) \/ Complete(t) \/ \E types : TellAbort(t, types)
  PROVE  RowsInv'
<1>1. IsTx(txs[t])
  BY DEF CompletionInv, Transactions
<1>2. PICK b : txs' = [txs EXCEPT ![t] = b] /\ b.log = txs[t].log
  <2>1. CASE Begin(t)
    <3>1. PICK b : b = [txs[t] EXCEPT !.started = TRUE]
      OBVIOUS
    <3>2. b.log = txs[t].log
      BY <1>1, <3>1 DEF IsTx, TxFields
    <3> QED BY <2>1, <3>1, <3>2 DEF Begin
  <2>2. CASE Complete(t)
    <3>1. PICK b : b = IF Over(txs[t]) THEN txs[t]
                       ELSE [txs[t] EXCEPT !.completed = TRUE, !.told = Append(@, "complete")]
      OBVIOUS
    <3>2. b.log = txs[t].log
      BY <1>1, <3>1 DEF IsTx, TxFields
    <3>3. txs = [txs EXCEPT ![t] = txs[t]]
      BY DEF CompletionInv, Transactions, IsList
    <3> QED BY <2>2, <3>1, <3>2, <3>3 DEF Complete
  <2>3. ASSUME NEW types, TellAbort(t, types)
        PROVE  \E b : txs' = [txs EXCEPT ![t] = b] /\ b.log = txs[t].log
    <3>1. PICK b : b = [txs[t] EXCEPT !.told = @ \o types]
      OBVIOUS
    <3>2. b.log = txs[t].log
      BY <1>1, <3>1 DEF IsTx, TxFields
    <3> QED BY <2>3, <3>1, <3>2 DEF TellAbort
  <2> QED BY <2>1, <2>2, <2>3
<1>3. \A u \in DOMAIN txs : txs'[u].log = txs[u].log
  BY <1>2
<1>4. DOMAIN txs' = DOMAIN txs
  BY <1>2
<1> QED BY <1>3, <1>4, LogsKept DEF RowsInv

LEMMA TransactionRows ==
  ASSUME CompletionInv, RowsInv, NEW mode, Transaction(mode)
  PROVE  RowsInv'
<1>1. PICK b : b = NewTransaction(mode)
  OBVIOUS
<1>2. PICK us : us = Append(txs, b)
  OBVIOUS
<1>3. table' = table /\ txs' = us
  BY <1>1, <1>2 DEF Transaction
<1>4. /\ DOMAIN txs = 1 .. Len(txs) /\ DOMAIN us = 1 .. Len(txs) + 1 /\ Len(txs) \in Nat
      /\ \A i \in DOMAIN txs : us[i] = txs[i]
      /\ us[Len(txs) + 1] = b
  BY <1>2, AppendToList DEF CompletionInv, Transactions
<1>5. LogTyped(b.log)
  BY <1>1 DEF NewTransaction, LogTyped
<1>6. ASSUME NEW t \in DOMAIN us PROVE LogTyped(us[t].log)
  <2>1. t \in DOMAIN txs \/ t = Len(txs) + 1
    BY <1>4
  <2> QED BY <1>4, <1>5, <2>1 DEF RowsInv
<1> QED BY <1>3, <1>6 DEF RowsInv

LEMMA RolledBackRows ==
  ASSUME CompletionInv, AtomicInv, RowsInv, NEW t \in DOMAIN txs, RolledBack(t)
  PROVE  RowsInv'
<1>1. PICK rows : rows = Undone(table, txs[t].log)
  OBVIOUS
<1>2. PICK base : base = IF rows = table THEN txs ELSE Disturbed(t)
  OBVIOUS
<1>3. DOMAIN base = DOMAIN txs /\ \A u \in DOMAIN txs : base[u].log = txs[u].log
  BY <1>2, DisturbedLogs
<1>4. base[t] = [f \in TxFields |-> base[t][f]]
  <2>1. txs[t] = [f \in TxFields |-> txs[t][f]]
    BY DEF CompletionInv, Transactions, IsTx
  <2> QED BY <1>2, <2>1, DisturbedLogs
<1>5. PICK late : late = (base[t].late \/ (txs[t].completed /\ ~txs[t].aborted))
  OBVIOUS
<1>6. PICK b : b = [base[t] EXCEPT !.log = <<>>, !.aborted = TRUE, !.completed = TRUE,
                                   !.restored = rows, !.late = late]
  OBVIOUS
<1>7. b.log = <<>>
  BY <1>4, <1>6 DEF TxFields
<1>8. table' = rows /\ txs' = [base EXCEPT ![t] = b]
  BY <1>1, <1>2, <1>3, <1>5, <1>6 DEF RolledBack
<1>9. RowsTyped(rows)
  <2>1. IsRows(table) /\ RowsTyped(table) /\ IsList(txs[t].log) /\ LogTyped(txs[t].log)
    BY DEF AtomicInv, AllWhole, Whole, IsTable, RowsInv
  <2> QED BY <1>1, <2>1, UndoneTyped
<1>10. LogTyped(<<>>)
  BY DEF LogTyped
<1>11. \A u \in DOMAIN txs : LogTyped(txs[u].log)
  BY DEF RowsInv
<1>12. DOMAIN txs' = DOMAIN txs /\ \A u \in DOMAIN txs : txs'[u] = IF u = t THEN b ELSE base[u]
  BY <1>3, <1>8
<1> QED BY <1>3, <1>7, <1>8, <1>9, <1>10, <1>11, <1>12 DEF RowsInv

LEMMA RequestRows ==
  ASSUME CompletionInv, AtomicInv, RowsInv, NEW t \in DOMAIN txs, NEW effect,
         EffectTyped(effect), Request(t, effect)
  PROVE  RowsInv'
<1>1. PICK base : base = IF effect.table = table THEN txs ELSE Disturbed(t)
  OBVIOUS
<1>2. DOMAIN base = DOMAIN txs /\ \A u \in DOMAIN txs : base[u].log = txs[u].log
  BY <1>1, DisturbedLogs
<1>3. base[t] = [f \in TxFields |-> base[t][f]]
  <2>1. txs[t] = [f \in TxFields |-> txs[t][f]]
    BY DEF CompletionInv, Transactions, IsTx
  <2> QED BY <1>1, <2>1, DisturbedLogs
<1>4. PICK log : log = txs[t].log \o effect.log
  OBVIOUS
<1>5. LogTyped(txs[t].log) /\ LogTyped(log)
  <2>1. LogTyped(txs[t].log)
    BY DEF RowsInv
  <2>2. PICK old : old = txs[t].log
    OBVIOUS
  <2>3. IsList(old)
    BY <2>2 DEF AtomicInv, AllWhole, Whole
  <2>4. PICK S : old \in Seq(S)
    BY <2>3, ListLen
  <2>5. CASE effect.log = <<>>
    <3>1. log = old
      BY <1>4, <2>2, <2>4, <2>5
    <3> QED BY <2>1, <2>2, <3>1
  <2>6. ASSUME NEW entry, effect.log = <<entry>>, RowsTyped(entry) PROVE LogTyped(log)
    <3>1. log = Append(old, entry)
      BY <1>4, <2>2, <2>4, <2>6
    <3>2. /\ DOMAIN old = 1 .. Len(old) /\ DOMAIN log = 1 .. Len(old) + 1 /\ Len(old) \in Nat
          /\ \A i \in DOMAIN old : log[i] = old[i]
          /\ log[Len(old) + 1] = entry
      BY <2>3, <3>1, AppendToList
    <3>3. ASSUME NEW i \in DOMAIN log PROVE RowsTyped(log[i])
      <4>1. i \in DOMAIN old \/ i = Len(old) + 1
        BY <3>2
      <4>2. \A j \in DOMAIN old : RowsTyped(old[j])
        BY <2>1, <2>2 DEF LogTyped
      <4> QED BY <2>6, <3>2, <4>1, <4>2
    <3> QED BY <3>3 DEF LogTyped
  <2> QED BY <2>1, <2>5, <2>6 DEF EffectTyped
<1>6. PICK b : txs' = [base EXCEPT ![t] = b] /\ b.log \in {log, txs[t].log}
  <2>1. CASE txs[t].mode = "readwrite"
    <3>1. PICK b : b = [base[t] EXCEPT !.log = log]
      OBVIOUS
    <3>2. txs' = [base EXCEPT ![t] = b]
      BY <1>1, <1>2, <1>4, <2>1, <3>1 DEF Request
    <3>3. b.log = log
      BY <1>3, <3>1 DEF TxFields
    <3> QED BY <3>2, <3>3
  <2>2. CASE txs[t].mode # "readwrite"
    <3>1. PICK v : v = (base[t].alone /\ effect.table = table)
      OBVIOUS
    <3>2. PICK b : b = [base[t] EXCEPT !.alone = v]
      OBVIOUS
    <3>3. txs' = [base EXCEPT ![t] = b]
      BY <1>1, <1>2, <2>2, <3>1, <3>2 DEF Request
    <3>4. b.log = txs[t].log
      BY <1>2, <1>3, <3>2 DEF TxFields
    <3> QED BY <3>3, <3>4
  <2> QED BY <2>1, <2>2
<1>7. \A u \in DOMAIN txs : LogTyped(txs[u].log)
  BY DEF RowsInv
<1>8. DOMAIN txs' = DOMAIN txs /\ \A u \in DOMAIN txs : txs'[u] = IF u = t THEN b ELSE base[u]
  BY <1>2, <1>6
<1>9. table' = effect.table /\ RowsTyped(effect.table)
  BY DEF Request, EffectTyped
<1> QED BY <1>2, <1>5, <1>6, <1>7, <1>8, <1>9 DEF RowsInv

LEMMA NextRows == CompletionInv /\ AtomicInv /\ RowsInv /\ [Next]_vars => RowsInv'
<1> SUFFICES ASSUME CompletionInv, AtomicInv, RowsInv, [Next]_vars PROVE RowsInv'
  OBVIOUS
<1>1. UNCHANGED <<table, txs>> => RowsInv'
  BY DEF RowsInv
<1>2. ASSUME txs' = Disturbed(0), RowsTyped(table') PROVE RowsInv'
  BY <1>2, DisturbedLogs, LogsKept
<1>3. IsTable(table) /\ RowsTyped(table)
  BY DEF AtomicInv, RowsInv
<1>4. CASE RunMicrotask
  <2>1. PICK x : x = Head(microtasks).of
    OBVIOUS
  <2>2. Head(microtasks).kind \in {"begin", "complete", "abort", "failed"} => x \in DOMAIN txs
    <3>1. 1 \in 1 .. Len(microtasks) /\ Head(microtasks) = microtasks[1]
      BY <1>4, EmptySeq, LenProperties DEF CompletionInv, RunMicrotask
    <3> QED BY <2>1, <3>1 DEF CompletionInv, Ordered, Fits
  <2>3. CASE Upgrade(x)
    <3>1. CASE table = NoTable
      <4>1. RowsTyped(table')
        BY <2>3, <3>1 DEF Upgrade, RowsTyped, None
      <4> QED BY <1>2, <2>3, <3>1, <4>1 DEF Upgrade
    <3>2. CASE table # NoTable
      BY <1>1, <2>3, <3>2 DEF Upgrade
    <3> QED BY <3>1, <3>2
  <2>4. CASE UNCHANGED <<table, txs>>
    BY <1>1, <2>4
  <2>5. CASE /\ x \in DOMAIN txs
             /\ Begin(x) \/ Complete(x) \/ \E types : TellAbort(x, types)
    <3>1. table' = table
      BY <2>5 DEF Begin, Complete, TellAbort
    <3> QED BY <2>5, <3>1, MovedRows
  <2> QED BY <1>4, <2>1, <2>2, <2>3, <2>4, <2>5
          DEF RunMicrotask, Opened, Settle, TellCursor
<1>5. CASE Reject
  <2>1. PICK t : t = reqs[rejecting].tx
    OBVIOUS
  <2>2. t \in DOMAIN txs
    BY <1>5, <2>1 DEF Reject, CompletionInv, Outcomes
  <2>3. UNCHANGED <<table, txs>> \/ RolledBack(t)
    BY <1>5, <2>1 DEF Reject
  <2> QED BY <1>1, <2>2, <2>3, RolledBackRows
<1>6. CASE Program
  <2>1. CASE \E requested \in 1 .. 2 : Open(requested)
    BY <1>1, <2>1 DEF Open
  <2>2. CASE DeleteStore \/ DeleteDatabase
    <3>1. txs' = Disturbed(0) /\ RowsTyped(table')
      BY <2>2 DEF DeleteStore, DeleteDatabase, RowsTyped, NoTable
    <3> QED BY <1>2, <3>1
  <2>3. CASE \E mode \in {"readonly", "readwrite"} : Transaction(mode)
    BY <2>3, TransactionRows
  <2>4. ASSUME NEW t \in DOMAIN txs, Abort(t) PROVE RowsInv'
    BY <2>4, RolledBackRows DEF Abort
  <2>5. ASSUME NEW t \in DOMAIN txs, NEW effect \in Effects, Request(t, effect)
        PROVE  RowsInv'
    <3>1. EffectTyped(effect)
      BY <1>3, EffectsAre, EffectsOfRows, PutsOfRows
    <3> QED BY <2>5, <3>1, RequestRows
  <2>6. ASSUME NEW t \in DOMAIN txs, NEW source, NEW lower, NEW dir,
               OpenCursor(t, source, lower, dir)
        PROVE  RowsInv'
    BY <1>1, <2>6 DEF OpenCursor
  <2>7. ASSUME NEW c, NEW key, NEW by, CursorMoves(c, key, by) PROVE RowsInv'
    BY <1>1, <2>7 DEF CursorMoves
  <2>9. ASSUME NEW c, NEW by, CursorStrays(c, by) PROVE RowsInv'
    BY <1>1, <2>9 DEF CursorStrays
  <2>8. ASSUME NEW c \in DOMAIN cursors, CursorWrites(c) PROVE RowsInv'
    <3>1. PICK t : t = cursors[c].tx
      OBVIOUS
    <3>2. t \in DOMAIN txs
      BY <3>1 DEF CompletionInv, Cursors
    <3>3. PICK effect : EffectTyped(effect) /\ Request(t, effect)
      BY <1>3, <2>8, <3>1, EffectsOfRows, PutsOfRows DEF CursorWrites
    <3> QED BY <3>2, <3>3, RequestRows
  <2> QED BY <1>6, <2>1, <2>2, <2>3, <2>4, <2>5, <2>6, <2>7, <2>8, <2>9 DEF Program
<1>7. CASE UNCHANGED vars
  BY <1>1, <1>7 DEF vars, dbVars
<1> QED BY <1>4, <1>5, <1>6, <1>7 DEF Next

-------------------------------------------------------------------------------
(* The microtasks of cursors. *)

\* A cursor is shown first once, before it is moved; it is moved as asked.
Waits(q, cs, i) ==
  /\ q[i].kind = "cursor" =>
       /\ q[i].of \in DOMAIN cs /\ cs[q[i].of].told = <<>>
       /\ \A j \in i + 1 .. Len(q) : q[j].kind = "cursor" => q[j].of # q[i].of
  /\ q[i].kind = "move" => /\ q[i].of \in DOMAIN cs /\ cs[q[i].of].told # <<>>
                           /\ IsMove(q[i].key, q[i].by)
  /\ q[i].kind = "stray" => q[i].of \in DOMAIN cs /\ cs[q[i].of].told # <<>>

Showing(q, cs) == \A i \in 1 .. Len(q) : Waits(q, cs, i)

CursorInv == Showing(microtasks, cursors) /\ \A c \in DOMAIN cursors : Fares(cursors[c])

LEMMA ShowingDropped ==
  ASSUME NEW q \in Seq(Tasks), q # <<>>, NEW cs, Showing(q, cs)
  PROVE  /\ Showing(Tail(q), cs) /\ Tail(q) \in Seq(Tasks)
         /\ Waits(q, cs, 1) /\ Head(q) = q[1]
         /\ \A i \in 1 .. Len(Tail(q)) : i + 1 \in 1 + 1 .. Len(q) /\ Tail(q)[i] = q[i + 1]
<1>1. PICK v : v = Tail(q)
  OBVIOUS
<1>2. v \in Seq(Tasks) /\ Len(v) = Len(q) - 1 /\ \A i \in 1 .. Len(v) : v[i] = q[i + 1]
  BY <1>1, HeadTailProperties
<1>3. Len(q) \in Nat /\ Len(q) > 0 /\ Head(q) = q[1]
  BY EmptySeq, LenProperties
<1>4. ASSUME NEW i \in 1 .. Len(v) PROVE Waits(v, cs, i)
  <2>1. i + 1 \in 1 .. Len(q) /\ v[i] = q[i + 1]
    BY <1>2, <1>3
  <2>2. \A j \in i + 1 .. Len(v) : j + 1 \in (i + 1) + 1 .. Len(q) /\ v[j] = q[j + 1]
    BY <1>2, <1>3
  <2>3. Waits(q, cs, i + 1)
    BY <2>1 DEF Showing
  <2>4. ASSUME v[i].kind = "cursor", NEW j \in i + 1 .. Len(v), v[j].kind = "cursor"
        PROVE  v[j].of # v[i].of
    <3>1. PICK k : k = j + 1
      OBVIOUS
    <3>2. k \in (i + 1) + 1 .. Len(q) /\ v[j] = q[k]
      BY <2>2, <3>1
    <3> QED BY <2>1, <2>3, <2>4, <3>2 DEF Waits
  <2> QED BY <2>1, <2>3, <2>4 DEF Waits
<1>5. Waits(q, cs, 1)
  BY <1>3 DEF Showing
<1>6. \A i \in 1 .. Len(v) : i + 1 \in 1 + 1 .. Len(q)
  BY <1>2, <1>3
<1> QED BY <1>1, <1>2, <1>3, <1>4, <1>5, <1>6 DEF Showing

LEMMA ShowingQueued ==
  ASSUME NEW q \in Seq(Tasks), NEW cs, Showing(q, cs), NEW e \in Tasks, e.kind # "cursor",
         e.kind = "move" => /\ e.of \in DOMAIN cs /\ cs[e.of].told # <<>>
                            /\ IsMove(e.key, e.by),
         e.kind = "stray" => e.of \in DOMAIN cs /\ cs[e.of].told # <<>>
  PROVE  Showing(Append(q, e), cs)
<1>1. PICK v : v = Append(q, e)
  OBVIOUS
<1>2. /\ v \in Seq(Tasks) /\ Len(q) \in Nat /\ Len(v) = Len(q) + 1
      /\ \A i \in 1 .. Len(q) : v[i] = q[i]
      /\ v[Len(q) + 1] = e
  BY <1>1, AppendProperties, LenProperties
<1>3. ASSUME NEW i \in 1 .. Len(v) PROVE Waits(v, cs, i)
  <2>1. CASE i \in 1 .. Len(q)
    <3>1. \A j \in i + 1 .. Len(v) : v[j].kind = "cursor" => j \in i + 1 .. Len(q) /\ v[j] = q[j]
      BY <1>2
    <3>2. v[i] = q[i] /\ Waits(q, cs, i)
      BY <1>2, <2>1 DEF Showing
    <3> QED BY <3>1, <3>2 DEF Waits
  <2>2. CASE i = Len(q) + 1
    <3>1. v[i] = e
      BY <1>2, <2>2
    <3> QED BY <3>1 DEF Waits
  <2> QED BY <1>2, <2>1, <2>2
<1> QED BY <1>1, <1>3 DEF Showing

\* A cursor is new, and its first microtask is queued.
LEMMA ShowingOpened ==
  ASSUME NEW q \in Seq(Tasks), NEW cs, IsList(cs), Showing(q, cs), NEW c, c.told = <<>>,
         NEW e \in Tasks, e.kind = "cursor", e.of = Len(cs) + 1
  PROVE  Showing(Append(q, e), Append(cs, c))
<1>1. PICK v : v = Append(q, e)
  OBVIOUS
<1>2. PICK ds : ds = Append(cs, c)
  OBVIOUS
<1>3. /\ v \in Seq(Tasks) /\ Len(q) \in Nat /\ Len(v) = Len(q) + 1
      /\ \A i \in 1 .. Len(q) : v[i] = q[i]
      /\ v[Len(q) + 1] = e
  BY <1>1, AppendProperties, LenProperties
<1>4. PICK n \in Nat : n = Len(cs)
  BY ListLen
<1>5. /\ DOMAIN cs = 1 .. n /\ DOMAIN ds = 1 .. n + 1
      /\ \A d \in 1 .. n : ds[d] = cs[d]
      /\ ds[n + 1] = c
  BY <1>2, <1>4, AppendToList
<1>6. ASSUME NEW i \in 1 .. Len(v) PROVE Waits(v, ds, i)
  <2>1. CASE i \in 1 .. Len(q)
    <3>1. v[i] = q[i] /\ Waits(q, cs, i)
      BY <1>3, <2>1 DEF Showing
    <3>2. ASSUME NEW j \in i + 1 .. Len(v), q[i].kind = "cursor", v[j].kind = "cursor"
          PROVE  v[j].of # v[i].of
      <4>1. CASE j \in i + 1 .. Len(q)
        <5>1. v[j] = q[j]
          BY <1>3, <4>1
        <5> QED BY <3>1, <3>2, <4>1, <5>1 DEF Waits
      <4>2. CASE j = Len(q) + 1
        <5>1. v[j] = e /\ q[i].of \in 1 .. n
          BY <1>3, <1>5, <3>1, <3>2, <4>2 DEF Waits
        <5> QED BY <1>4, <3>1, <5>1
      <4> QED BY <1>3, <4>1, <4>2
    <3>3. q[i].of \in DOMAIN cs => q[i].of \in DOMAIN ds /\ ds[q[i].of] = cs[q[i].of]
      BY <1>5
    <3> QED BY <3>1, <3>2, <3>3 DEF Waits
  <2>2. CASE i = Len(q) + 1
    <3>1. v[i] = e /\ \A j \in i + 1 .. Len(v) : FALSE
      BY <1>3, <2>2
    <3>2. e.of \in DOMAIN ds /\ ds[e.of] = c
      BY <1>4, <1>5
    <3> QED BY <3>1, <3>2 DEF Waits
  <2> QED BY <1>3, <2>1, <2>2
<1> QED BY <1>1, <1>2, <1>6 DEF Showing

\* The first microtask shows its cursor somewhere.
LEMMA ShowingTold ==
  ASSUME NEW q \in Seq(Tasks), q # <<>>, NEW cs, IsList(cs), Showing(q, cs),
         NEW kind \in {"cursor", "move", "stray"}, Head(q).kind = kind, NEW c, c = Head(q).of,
         NEW next, next.told # <<>>, NEW ds, ds = [cs EXCEPT ![c] = next]
  PROVE  Showing(Tail(q), ds)
<1>1. PICK v : v = Tail(q)
  OBVIOUS
<1>2. /\ Showing(v, cs) /\ Waits(q, cs, 1) /\ Head(q) = q[1]
      /\ \A i \in 1 .. Len(v) : i + 1 \in 1 + 1 .. Len(q) /\ v[i] = q[i + 1]
  BY <1>1, ShowingDropped
<1>3. /\ DOMAIN ds = DOMAIN cs
      /\ \A d \in DOMAIN cs : ds[d] = IF d = c THEN next ELSE cs[d]
  BY ListUpdated
<1>4. ASSUME NEW i \in 1 .. Len(v) PROVE Waits(v, ds, i)
  <2>1. Waits(v, cs, i)
    BY <1>2 DEF Showing
  <2>2. ASSUME v[i].kind = "cursor" PROVE v[i].of # c
    <3>1. CASE kind = "cursor"
      <4>1. PICK j : j = i + 1
        OBVIOUS
      <4>2. j \in 1 + 1 .. Len(q) /\ v[i] = q[j]
        BY <1>2, <4>1
      <4> QED BY <1>2, <2>2, <3>1, <4>2 DEF Waits
    <3>2. CASE kind \in {"move", "stray"}
      <4>1. cs[c].told # <<>>
        BY <1>2, <3>2 DEF Waits
      <4> QED BY <2>1, <2>2, <4>1 DEF Waits
    <3> QED BY <3>1, <3>2
  <2> QED BY <1>3, <2>1, <2>2 DEF Waits
<1> QED BY <1>1, <1>4 DEF Showing

-------------------------------------------------------------------------------
(* The steps. *)

LEMMA InitCursors == Init => CursorInv
<1> SUFFICES ASSUME Init PROVE CursorInv
  OBVIOUS
<1>1. microtasks = <<>> /\ cursors = <<>>
  BY DEF Init
<1>2. DOMAIN <<>> = {} /\ 1 .. Len(<<>>) = {}
  OBVIOUS
<1> QED BY <1>1, <1>2 DEF CursorInv, Showing

\* What is queued is not a cursor's, if anything is.
LEMMA CursorsKept ==
  ASSUME CompletionInv, CursorInv, cursors' = cursors,
         NEW q, q = microtasks \/ (microtasks # <<>> /\ q = Tail(microtasks)),
         \/ microtasks' = q
         \/ \E kind, x : /\ microtasks' = QueueMicrotask(q, kind, x) /\ x \in Nat
                         /\ kind \in {"upgrade", "opened", "begin", "complete", "abort",
                                      "failed", "request"}
  PROVE  CursorInv'
<1>1. microtasks \in Seq(Tasks) /\ Showing(microtasks, cursors)
  BY DEF CompletionInv, CursorInv
<1>2. q \in Seq(Tasks) /\ Showing(q, cursors)
  BY <1>1, ShowingDropped
<1>3. PICK v : v = microtasks'
  OBVIOUS
<1>4. Showing(v, cursors)
  <2>1. CASE v = q
    BY <1>2, <2>1
  <2>2. ASSUME NEW kind \in {"upgrade", "opened", "begin", "complete", "abort", "failed",
                             "request"}, NEW x \in Nat, v = QueueMicrotask(q, kind, x)
        PROVE  Showing(v, cursors)
    <3>1. PICK e : e = Microtask(kind, x)
      OBVIOUS
    <3>2. e \in Tasks /\ e.kind \notin {"cursor", "move", "stray"}
      BY <3>1, MicrotaskTyped
    <3>3. v = Append(q, e)
      BY <2>2, <3>1 DEF QueueMicrotask
    <3> QED BY <1>2, <3>2, <3>3, ShowingQueued
  <2> QED BY <1>3, <2>1, <2>2
<1> QED BY <1>3, <1>4 DEF CursorInv

LEMMA OpenCursorWalks ==
  ASSUME CompletionInv, AtomicInv, RowsInv, CursorInv, NEW t, NEW source, NEW lower, NEW dir,
         OpenCursor(t, source, lower, dir)
  PROVE  CursorInv'
<1>1. PICK c : c = NewCursor(t, table, source, lower, dir)
  OBVIOUS
<1>2. IsList(cursors)
  BY DEF CompletionInv, Cursors
<1>3. PICK cs : cs = Append(cursors, c)
  OBVIOUS
<1>4. /\ Len(cursors) \in Nat /\ DOMAIN cursors = 1 .. Len(cursors)
      /\ DOMAIN cs = 1 .. Len(cursors) + 1
      /\ \A d \in DOMAIN cursors : cs[d] = cursors[d]
      /\ cs[Len(cursors) + 1] = c
  BY <1>2, <1>3, AppendToList
<1>5. PICK e : e = Microtask("cursor", Len(cursors) + 1)
  OBVIOUS
<1>6. e \in Tasks /\ e.kind = "cursor" /\ e.of = Len(cursors) + 1
  BY <1>4, <1>5, MicrotaskTyped
<1>7. cursors' = cs /\ microtasks' = Append(microtasks, e)
  BY <1>1, <1>3, <1>5 DEF OpenCursor, QueueMicrotask
<1>8. Fares(c) /\ c.told = <<>>
  <2>1. IsTable(table) /\ RowsTyped(table)
    BY DEF AtomicInv, RowsInv
  <2>2. Walking(c) /\ c.told = <<>> /\ ~c.astray
    BY <1>1, <2>1, OpenedWalks
  <2> QED BY <2>2 DEF Fares
<1>9. Showing(Append(microtasks, e), cs)
  <2>1. microtasks \in Seq(Tasks) /\ Showing(microtasks, cursors)
    BY DEF CompletionInv, CursorInv
  <2> QED BY <1>2, <1>3, <1>6, <1>8, <2>1, ShowingOpened
<1>10. ASSUME NEW d \in DOMAIN cs PROVE Fares(cs[d])
  <2>1. d \in DOMAIN cursors \/ d = Len(cursors) + 1
    BY <1>4
  <2> QED BY <1>4, <1>8, <2>1 DEF CursorInv
<1> QED BY <1>7, <1>9, <1>10 DEF CursorInv

LEMMA CursorMovesWalks ==
  ASSUME CompletionInv, CursorInv, NEW c \in DOMAIN cursors, NEW key, NEW by, IsMove(key, by),
         CursorMoves(c, key, by)
  PROVE  CursorInv'
<1>1. PICK m : m = Microtask("move", c)
  OBVIOUS
<1>2. PICK e : e = [m EXCEPT !.key = key, !.by = by]
  OBVIOUS
<1>3. c \in Nat
  BY DEF CompletionInv, Cursors, IsList
<1>4. e \in Tasks /\ e.kind = "move" /\ e.of = c /\ e.key = key /\ e.by = by
  <2>1. m \in Tasks /\ m.kind = "move" /\ m.of = c
    BY <1>1, <1>3, MicrotaskTyped
  <2> QED BY <1>2, <2>1 DEF Tasks, IsMove
<1>5. microtasks' = Append(microtasks, e) /\ cursors' = cursors /\ cursors[c].told # <<>>
  BY <1>1, <1>2 DEF CursorMoves
<1>6. Showing(Append(microtasks, e), cursors)
  <2>1. microtasks \in Seq(Tasks) /\ Showing(microtasks, cursors)
    BY DEF CompletionInv, CursorInv
  <2> QED BY <1>4, <1>5, <2>1, ShowingQueued
<1> QED BY <1>5, <1>6 DEF CursorInv

LEMMA CursorStraysWalks ==
  ASSUME CompletionInv, CursorInv, NEW c \in DOMAIN cursors, NEW by \in Nat, CursorStrays(c, by)
  PROVE  CursorInv'
<1>1. PICK m : m = Microtask("stray", c)
  OBVIOUS
<1>2. PICK e : e = [m EXCEPT !.by = by]
  OBVIOUS
<1>3. c \in Nat
  BY DEF CompletionInv, Cursors, IsList
<1>4. e \in Tasks /\ e.kind = "stray" /\ e.of = c
  <2>1. m \in Tasks /\ m.kind = "stray" /\ m.of = c
    BY <1>1, <1>3, MicrotaskTyped
  <2> QED BY <1>2, <2>1 DEF Tasks
<1>5. microtasks' = Append(microtasks, e) /\ cursors' = cursors /\ cursors[c].told # <<>>
  BY <1>1, <1>2 DEF CursorStrays
<1>6. Showing(Append(microtasks, e), cursors)
  <2>1. microtasks \in Seq(Tasks) /\ Showing(microtasks, cursors)
    BY DEF CompletionInv, CursorInv
  <2> QED BY <1>4, <1>5, <2>1, ShowingQueued
<1> QED BY <1>5, <1>6 DEF CursorInv

LEMMA TellCursorWalks ==
  ASSUME CompletionInv, CursorInv, microtasks # <<>>,
         NEW task, task = Head(microtasks), NEW c, c = task.of,
         \/ task.kind = "cursor" /\ TellCursor(c, Shown(cursors[c], None, 1))
         \/ task.kind = "move" /\ TellCursor(c, Moved(cursors[c], task.key, task.by))
         \/ task.kind = "stray" /\ TellCursor(c, Strayed(cursors[c], task.by))
  PROVE  CursorInv'
<1>1. /\ microtasks \in Seq(Tasks) /\ Showing(microtasks, cursors) /\ IsList(cursors)
      /\ \A d \in DOMAIN cursors : Fares(cursors[d])
  BY DEF CompletionInv, Cursors, CursorInv
<1>2. Waits(microtasks, cursors, 1) /\ task = microtasks[1]
  BY <1>1, ShowingDropped
<1>3. PICK next : /\ TellCursor(c, next)
                  /\ Fares(next) /\ next.told # <<>>
                  /\ c \in DOMAIN cursors
  <2>1. CASE task.kind = "cursor"
    <3>1. c \in DOMAIN cursors /\ cursors[c].told = <<>>
      BY <1>2, <2>1 DEF Waits
    <3>2. PICK next : next = Shown(cursors[c], None, 1)
      OBVIOUS
    <3>4. Fares(cursors[c])
      BY <1>1, <3>1
    <3>5. Walking(cursors[c]) /\ ~cursors[c].astray
      BY <3>1, <3>4 DEF Fares
    <3>6. Walking(next) /\ next.told # <<>> /\ next.astray = cursors[c].astray
      BY <3>1, <3>2, <3>5, FirstShown
    <3>3. Fares(next) /\ next.told # <<>>
      BY <3>5, <3>6 DEF Fares
    <3> QED BY <2>1, <3>1, <3>2, <3>3
  <2>2. CASE task.kind = "move"
    <3>1. c \in DOMAIN cursors /\ cursors[c].told # <<>> /\ IsMove(task.key, task.by)
      BY <1>2, <2>2 DEF Waits
    <3>2. PICK next : next = Moved(cursors[c], task.key, task.by)
      OBVIOUS
    <3>3. Fares(next) /\ next.told # <<>>
      BY <1>1, <3>1, <3>2, MovedFares
    <3> QED BY <2>2, <3>1, <3>2, <3>3
  <2>3. CASE task.kind = "stray"
    <3>1. c \in DOMAIN cursors /\ cursors[c].told # <<>>
      BY <1>2, <2>3 DEF Waits
    <3>2. PICK next : next = Strayed(cursors[c], task.by)
      OBVIOUS
    <3>3. PICK index : index = cursors[c].index + task.by
      OBVIOUS
    <3>4. PICK m : m = [cursors[c] EXCEPT !.index = index, !.astray = TRUE]
      OBVIOUS
    <3>5. next = Arrived(m, None, task.by)
      BY <3>2, <3>3, <3>4 DEF Strayed
    <3>6. PICK d : d = cursors[c]
      OBVIOUS
    <3>7. Fares(d) /\ d.told # <<>> /\ m = [d EXCEPT !.index = index, !.astray = TRUE]
      BY <1>1, <3>1, <3>4, <3>6
    <3>8. Fares(next) /\ next.told # <<>>
      BY ONLY <3>5, <3>7, AstrayShown
    <3> QED BY <2>3, <3>1, <3>2, <3>8
  <2> QED BY <2>1, <2>2, <2>3
<1>4. PICK ds : ds = [cursors EXCEPT ![c] = next]
  OBVIOUS
<1>5. Showing(Tail(microtasks), ds)
  <2>1. PICK kind \in {"cursor", "move", "stray"} : Head(microtasks).kind = kind
    OBVIOUS
  <2> QED BY <1>1, <1>3, <1>4, <2>1, ShowingTold
<1>6. /\ DOMAIN ds = DOMAIN cursors
      /\ \A d \in DOMAIN cursors : ds[d] = IF d = c THEN next ELSE cursors[d]
  BY <1>1, <1>4, ListUpdated
<1>7. cursors' = ds /\ microtasks' = Tail(microtasks)
  BY <1>3, <1>4 DEF TellCursor
<1> QED BY <1>1, <1>3, <1>5, <1>6, <1>7 DEF CursorInv

LEMMA NextCursors ==
  CompletionInv /\ AtomicInv /\ RowsInv /\ CursorInv /\ [Next]_vars => CursorInv'
<1> SUFFICES ASSUME CompletionInv, AtomicInv, RowsInv, CursorInv, [Next]_vars PROVE CursorInv'
  OBVIOUS
<1>1. UNCHANGED <<microtasks, cursors>> => CursorInv'
  BY DEF CursorInv
<1>2. ASSUME NEW kind \in {"upgrade", "opened", "begin", "complete", "abort", "failed",
                           "request"}, NEW x \in Nat, cursors' = cursors,
             microtasks' = QueueMicrotask(microtasks, kind, x)
      PROVE  CursorInv'
  BY <1>2, CursorsKept
<1>3. \A t \in DOMAIN txs : t \in Nat
  BY DEF CompletionInv, Transactions, IsList
<1>4. Len(reqs) + 1 \in Nat /\ Len(opens) + 1 \in Nat /\ Len(txs) + 1 \in Nat
  <2>1. Len(reqs) \in Nat
    BY LenProperties DEF CompletionInv
  <2>2. Len(opens) \in Nat /\ Len(txs) \in Nat
    BY ListLen DEF CompletionInv, Transactions
  <2> QED BY <2>1, <2>2
<1>5. ASSUME NEW t, NEW effect, Request(t, effect), cursors' = cursors PROVE CursorInv'
  BY <1>2, <1>4, <1>5 DEF Request
<1>6. CASE RunMicrotask
  <2>1. PICK task : task = Head(microtasks)
    OBVIOUS
  <2>2. PICK x : x = task.of
    OBVIOUS
  <2>3. PICK q : q = Tail(microtasks)
    OBVIOUS
  <2>4. microtasks # <<>> /\ x \in Nat
    <3>1. microtasks # <<>> /\ microtasks \in Seq(Tasks)
      BY <1>6 DEF RunMicrotask, CompletionInv
    <3>2. task \in Tasks
      BY <2>1, <3>1, HeadTailProperties
    <3> QED BY <2>2, <3>1, <3>2 DEF Tasks
  <2>5. ASSUME cursors' = cursors,
               microtasks' = q \/ \E kind \in {"opened", "complete"} :
                                    microtasks' = QueueMicrotask(q, kind, x)
        PROVE  CursorInv'
    BY <2>3, <2>4, <2>5, CursorsKept
  <2>6. CASE Upgrade(x) \/ Opened(x) \/ Begin(x) \/ Complete(x) \/ Settle(x)
             \/ \E types : TellAbort(x, types)
    <3>1. cursors' = cursors
      BY <2>6 DEF Upgrade, Opened, Begin, Complete, Settle, TellAbort
    <3>2. microtasks' = q \/ \E kind \in {"opened", "complete"} :
                               microtasks' = QueueMicrotask(q, kind, x)
      BY <2>3, <2>6 DEF Upgrade, Opened, Begin, Complete, Settle, TellAbort
    <3> QED BY <2>5, <3>1, <3>2
  <2>7. CASE \/ task.kind = "cursor" /\ TellCursor(x, Shown(cursors[x], None, 1))
             \/ task.kind = "move" /\ TellCursor(x, Moved(cursors[x], task.key, task.by))
             \/ task.kind = "stray" /\ TellCursor(x, Strayed(cursors[x], task.by))
    BY <2>1, <2>2, <2>4, <2>7, TellCursorWalks
  <2> QED BY <1>6, <2>1, <2>2, <2>6, <2>7 DEF RunMicrotask
<1>7. CASE Reject
  <2>1. PICK t : t = reqs[rejecting].tx
    OBVIOUS
  <2>2. t \in DOMAIN txs
    BY <1>7, <2>1 DEF Reject, CompletionInv, Outcomes
  <2>3. /\ cursors' = cursors
        /\ \/ microtasks' = microtasks
           \/ microtasks' = QueueMicrotask(microtasks, "failed", t)
    BY <1>7, <2>1 DEF Reject
  <2> QED BY <1>1, <1>2, <1>3, <2>2, <2>3
<1>8. CASE Program
  <2>1. CASE \E requested \in 1 .. 2 : Open(requested)
    <3>1. /\ cursors' = cursors
          /\ \E kind \in {"upgrade", "opened"} :
               microtasks' = QueueMicrotask(microtasks, kind, Len(opens) + 1)
      BY <2>1 DEF Open
    <3> QED BY <1>2, <1>4, <3>1
  <2>2. CASE DeleteStore \/ DeleteDatabase
    BY <1>1, <2>2 DEF DeleteStore, DeleteDatabase
  <2>3. CASE \E mode \in {"readonly", "readwrite"} : Transaction(mode)
    BY <1>2, <1>4, <2>3 DEF Transaction
  <2>4. ASSUME NEW t \in DOMAIN txs, Abort(t) PROVE CursorInv'
    BY <1>2, <1>3, <2>4 DEF Abort
  <2>5. ASSUME NEW t, NEW effect, Request(t, effect),
               UNCHANGED <<version, opens, cursors, rejecting>>
        PROVE  CursorInv'
    BY <1>5, <2>5
  <2>6. ASSUME NEW t, NEW source, NEW lower, NEW dir, OpenCursor(t, source, lower, dir)
        PROVE  CursorInv'
    BY <2>6, OpenCursorWalks
  <2>7. ASSUME NEW c \in DOMAIN cursors,
               \/ \E key \in Keys \union {None} : CursorMoves(c, key, 1)
               \/ CursorMoves(c, None, 2)
        PROVE  CursorInv'
    <3>1. PICK key, by : CursorMoves(c, key, by) /\ IsMove(key, by)
      BY <2>7, IdbCursorAssumption DEF IsMove, None
    <3> QED BY <3>1, CursorMovesWalks
  <2>8. ASSUME NEW c, CursorWrites(c) PROVE CursorInv'
    BY <1>5, <2>8 DEF CursorWrites
  <2>9. ASSUME NEW c \in DOMAIN cursors, NEW by \in {0, 1}, CursorStrays(c, by) PROVE CursorInv'
    BY <2>9, CursorStraysWalks
  <2> QED BY <1>8, <2>1, <2>2, <2>3, <2>4, <2>5, <2>6, <2>7, <2>8, <2>9 DEF Program
<1>9. CASE UNCHANGED vars
  BY <1>1, <1>9 DEF vars
<1> QED BY <1>6, <1>7, <1>8, <1>9 DEF Next

\* A cursor shows, of the rows there were, the next one in its direction that was asked
\* for, each once, and null when there is none, until it is advanced by a count that is
\* no whole number: for any keys and values, any number of cursors and of moves, however
\* the rows change meanwhile.
THEOREM CursorsWalk == Spec => []CursorWalks
<1>1. CursorInv => CursorWalks
  BY DEF CursorInv, Fares, Walking, CursorWalks
<1> QED BY <1>1, InitCompletion, NextCompletion, InitAtomic, NextAtomic, InitRows, NextRows,
           InitCursors, NextCursors, PTL DEF Spec
================================================================================
