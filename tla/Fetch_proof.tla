------------------------------ MODULE Fetch_proof ------------------------------
(***************************************************************************)
(* Lemmas about fetch(), for every number of requests and bytes.  FetchInv *)
(* says how the table, the bodies and the microtasks of one thread fit     *)
(* each other.  The operations are proved one by one, then the ticks,      *)
(* which fold them over the requests.  Web_proof builds on them.           *)
(***************************************************************************)
EXTENDS Fetch, FiniteSetTheorems, SequenceTheorems, WellFoundedInduction, TLAPS

-------------------------------------------------------------------------------
(* The folds of a tick.  FoldLeft is a function on sets of indices, chosen by its  *)
(* equation: that there is one goes by induction on the indices, once for all of   *)
(* them: `kind` is what is done to each id, `arg` what curl says of it.            *)

Apply(kind, f, id, arg) ==
  CASE kind = "settle"   -> IF Live(f, id) THEN SettleLocal(f, id) ELSE f
    [] kind = "receive"  -> Receive(f, id, arg[id])
    [] kind = "resolve"  -> ResolveStreaming(f, id)
    [] kind = "notify"   -> NotifyReader(f, id)
    [] kind = "complete" -> IF arg[id] = "running" THEN f ELSE Complete(f, id, arg[id])

StepOf(h, kind, s, start, arg, I) ==
  IF I = {} THEN start ELSE Apply(kind, h[I \ {Max(I)}], s[Max(I)], arg)
IsFold(h, kind, s, start, arg, n) ==
  h = [I \in SUBSET (1 .. n) |-> StepOf(h, kind, s, start, arg, I)]

\* st[m] is what the first m ids have made of start.
Chain(st, kind, s, start, arg) ==
  /\ st[0] = start
  /\ \A m \in 0 .. Len(s) - 1 : st[m + 1] = Apply(kind, st[m], s[m + 1], arg)

\* Of numbers there is a least one.
LEMMA LeastNat ==
  ASSUME NEW T, T \subseteq Nat, T # {}
  PROVE  \E a \in T : \A y \in T : a <= y
<1>1. IsWellFoundedOn(OpToRel(<, Nat), Nat)
  BY NatLessThanWellFounded
<1>2. PICK a \in T : \A y \in T : ~(<<y, a>> \in OpToRel(<, Nat))
  BY <1>1, WFMin
<1>3. \A y \in T : ~(y < a)
  BY <1>2 DEF OpToRel
<1> QED BY <1>3

\* What holds of 0, and of m + 1 if it does of m, holds up to n: T are the numbers it
\* holds of.
LEMMA UpTo ==
  ASSUME NEW n \in Nat, NEW T, 0 \in T, \A m \in 0 .. n - 1 : m \in T => m + 1 \in T
  PROVE  0 .. n \subseteq T
<1> SUFFICES ASSUME NEW z \in 0 .. n, z \notin T PROVE FALSE
  OBVIOUS
<1>1. PICK a \in (0 .. n) \ T : \A y \in (0 .. n) \ T : a <= y
  <2>1. (0 .. n) \ T \subseteq Nat /\ (0 .. n) \ T # {}
    OBVIOUS
  <2> QED BY <2>1, LeastNat
<1>2. a # 0 /\ a - 1 \in 0 .. n - 1 /\ (a - 1) + 1 = a
  BY <1>1
<1>3. a - 1 \in T
  BY <1>1, <1>2
<1> QED BY <1>1, <1>2, <1>3

LEMMA Greatest ==
  ASSUME NEW n \in Nat, NEW I \in SUBSET (1 .. n), I # {}
  PROVE  Max(I) \in I /\ \A i \in I : i <= Max(I)
<1>1. \E a \in I : \A y \in I : a >= y
  <2>1. PICK T : T = {n - i : i \in I}
    OBVIOUS
  <2>2. T \subseteq Nat /\ T # {}
    <3>1. \A i \in I : n - i \in Nat /\ n - i \in T
      BY <2>1
    <3> QED BY <2>1, <3>1
  <2>3. PICK a \in T : \A y \in T : a <= y
    BY <2>2, LeastNat
  <2>4. PICK i \in I : a = n - i
    BY <2>1
  <2>5. ASSUME NEW j \in I PROVE i >= j
    <3>1. n - j \in T
      BY <2>1
    <3>2. n - i <= n - j /\ i \in Nat /\ j \in Nat
      BY <2>3, <2>4, <3>1
    <3> QED BY <3>2
  <2> QED BY <2>5
<1>2. Max(I) \in I /\ \A y \in I : Max(I) >= y
  BY <1>1 DEF Max
<1>3. \A i \in I : i \in Nat
  OBVIOUS
<1> QED BY <1>2, <1>3

LEMMA FoldExists ==
  ASSUME NEW kind, NEW s, NEW start, NEW arg, NEW n \in Nat
  PROVE  \E h : IsFold(h, kind, s, start, arg, n)
<1> DEFINE Upto(m) == \E h : h = [I \in SUBSET (1 .. n) |-> h[I]]
                             /\ \A I \in SUBSET (1 .. m) : h[I] = StepOf(h, kind, s, start, arg, I)
<1>1. PICK T : T = {m \in 0 .. n : Upto(m)}
  OBVIOUS
<1>2. 0 \in T
  <2>1. PICK h : h = [I \in SUBSET (1 .. n) |-> start]
    OBVIOUS
  <2>2. h = [I \in SUBSET (1 .. n) |-> h[I]]
    BY <2>1
  <2>3. \A I \in SUBSET (1 .. 0) : I = {} /\ I \in SUBSET (1 .. n)
    OBVIOUS
  <2>4. \A I \in SUBSET (1 .. 0) : h[I] = StepOf(h, kind, s, start, arg, I)
    BY <2>1, <2>3 DEF StepOf
  <2>5. Upto(0)
    BY <2>2, <2>4
  <2> HIDE DEF Upto
  <2> QED BY <1>1, <2>5
<1>3. ASSUME NEW m \in 0 .. n - 1, m \in T PROVE m + 1 \in T
  <2>1. PICK h : /\ h = [I \in SUBSET (1 .. n) |-> h[I]]
                 /\ \A I \in SUBSET (1 .. m) : h[I] = StepOf(h, kind, s, start, arg, I)
    BY <1>1, <1>3
  <2>2. PICK g : g = [I \in SUBSET (1 .. n) |-> StepOf(h, kind, s, start, arg, I)]
    OBVIOUS
  <2>3. g = [I \in SUBSET (1 .. n) |-> g[I]]
    BY <2>2
  <2>4. ASSUME NEW I \in SUBSET (1 .. m + 1) PROVE g[I] = StepOf(g, kind, s, start, arg, I)
    <3>1. I \in SUBSET (1 .. n) /\ m + 1 \in Nat
      OBVIOUS
    <3>2. CASE I = {}
      BY <2>2, <3>1, <3>2 DEF StepOf
    <3>3. CASE I # {}
      <4>1. PICK J : J = I \ {Max(I)}
        OBVIOUS
      <4>2. J \in SUBSET (1 .. m)
        <5>1. Max(I) \in I /\ \A i \in I : i <= Max(I)
          BY <3>1, <3>3, Greatest
        <5>2. \A i \in J : i \in 1 .. m + 1 /\ i # Max(I) /\ i <= Max(I) /\ Max(I) \in 1 .. m + 1
          BY <4>1, <5>1
        <5>3. \A i \in J : i \in 1 .. m
          BY <5>2
        <5> QED BY <5>3
      <4>3. J \in SUBSET (1 .. n)
        BY <4>2
      <4>4. g[J] = h[J]
        BY <2>1, <2>2, <4>2, <4>3
      <4> QED BY <2>2, <3>1, <3>3, <4>1, <4>4 DEF StepOf
    <3> QED BY <3>2, <3>3
  <2>5. m + 1 \in 0 .. n
    OBVIOUS
  <2> QED BY <1>1, <2>3, <2>4, <2>5
<1>4. 0 .. n \subseteq T
  <2> HIDE DEF Upto
  <2> QED BY <1>2, <1>3, UpTo
<1>5. Upto(n)
  <2> HIDE DEF Upto
  <2>1. n \in 0 .. n
    OBVIOUS
  <2> QED BY <1>1, <1>4, <2>1
<1>6. PICK h : /\ h = [I \in SUBSET (1 .. n) |-> h[I]]
               /\ \A I \in SUBSET (1 .. n) : h[I] = StepOf(h, kind, s, start, arg, I)
  BY <1>5
<1>7. IsFold(h, kind, s, start, arg, n)
  BY <1>6 DEF IsFold
<1> QED BY <1>7

LEMMA PrefixStep ==
  ASSUME NEW n \in Nat, NEW m \in 0 .. n - 1
  PROVE  /\ 1 .. m + 1 \in SUBSET (1 .. n) /\ 1 .. m + 1 # {}
         /\ Max(1 .. m + 1) = m + 1 /\ (1 .. m + 1) \ {Max(1 .. m + 1)} = 1 .. m
<1>1. PICK I : I = 1 .. m + 1
  OBVIOUS
<1>2. I \in SUBSET (1 .. n) /\ I # {} /\ m + 1 \in I /\ \A i \in I : i <= m + 1 /\ i \in Nat
  BY <1>1
<1>3. Max(I) = m + 1
  <2>1. Max(I) \in I /\ \A i \in I : i <= Max(I)
    BY <1>2, Greatest
  <2>2. Max(I) <= m + 1 /\ m + 1 <= Max(I) /\ Max(I) \in Nat
    BY <1>2, <2>1
  <2> QED BY <2>2
<1>4. I \ {m + 1} = 1 .. m
  BY <1>1
<1> QED BY <1>1, <1>2, <1>3, <1>4

LEMMA ChainOf ==
  ASSUME NEW kind, NEW s, NEW start, NEW arg, Len(s) \in Nat,
         NEW h, IsFold(h, kind, s, start, arg, Len(s))
  PROVE  \E st : Chain(st, kind, s, start, arg) /\ st[Len(s)] = h[1 .. Len(s)]
<1>1. PICK n : n = Len(s) /\ n \in Nat
  OBVIOUS
<1>2. PICK st : st = [m \in 0 .. n |-> h[1 .. m]]
  OBVIOUS
<1>3. st[0] = start
  <2>1. 1 .. 0 = {} /\ {} \in SUBSET (1 .. n) /\ 0 \in 0 .. n
    BY <1>1
  <2> QED BY <1>1, <1>2, <2>1 DEF IsFold, StepOf
<1>4. ASSUME NEW m \in 0 .. n - 1 PROVE st[m + 1] = Apply(kind, st[m], s[m + 1], arg)
  <2>1. /\ 1 .. m + 1 \in SUBSET (1 .. n) /\ 1 .. m + 1 # {}
        /\ Max(1 .. m + 1) = m + 1 /\ (1 .. m + 1) \ {Max(1 .. m + 1)} = 1 .. m
    BY <1>1, PrefixStep
  <2>2. h[1 .. m + 1] = StepOf(h, kind, s, start, arg, 1 .. m + 1)
    BY <1>1, <2>1 DEF IsFold
  <2>3. h[1 .. m + 1] = Apply(kind, h[1 .. m], s[m + 1], arg)
    BY <2>1, <2>2 DEF StepOf
  <2>4. m + 1 \in 0 .. n /\ m \in 0 .. n
    BY <1>1
  <2> QED BY <1>2, <2>3, <2>4
<1>5. n \in 0 .. n
  BY <1>1
<1>6. Chain(st, kind, s, start, arg)
  BY <1>1, <1>3, <1>4 DEF Chain
<1>7. st[n] = h[1 .. n]
  BY <1>2, <1>5
<1> QED BY <1>1, <1>6, <1>7

LEMMA SettleFold ==
  ASSUME NEW f, NEW arg, NEW s, Len(s) \in Nat, DOMAIN s = 1 .. Len(s)
  PROVE  \E st : Chain(st, "settle", s, f, arg) /\ st[Len(s)] = FoldLeft(LAMBDA g, id : IF Live(g, id) THEN SettleLocal(g, id) ELSE g, f, s)
<1> DEFINE Body(h, I) == IF I = {} THEN f ELSE (IF Live(h[I \ {Max(I)}], s[Max(I)]) THEN SettleLocal(h[I \ {Max(I)}], s[Max(I)]) ELSE h[I \ {Max(I)}])
           Is(h) == h = [I \in SUBSET DOMAIN s |-> Body(h, I)]
<1>1. \A h, I : StepOf(h, "settle", s, f, arg, I) = Body(h, I)
  BY DEF StepOf, Apply
<1>2. \A h : Is(h) <=> IsFold(h, "settle", s, f, arg, Len(s))
  <2> HIDE DEF Body
  <2> QED BY <1>1 DEF IsFold
<1>3. PICK h : h = CHOOSE iter : Is(iter)
  OBVIOUS
<1>4. Is(h)
  <2>1. \E iter : Is(iter)
    <3> HIDE DEF Is
    <3> QED BY <1>2, FoldExists
  <2> HIDE DEF Is
  <2> QED BY <1>3, <2>1
<1>5. FoldLeft(LAMBDA g, id : IF Live(g, id) THEN SettleLocal(g, id) ELSE g, f, s) = (CHOOSE iter : Is(iter))[DOMAIN s]
  BY DEF FoldLeft, MapThenFoldSet
<1>6. FoldLeft(LAMBDA g, id : IF Live(g, id) THEN SettleLocal(g, id) ELSE g, f, s) = h[1 .. Len(s)]
  <2> HIDE DEF Is
  <2> QED BY <1>3, <1>5
<1>7. IsFold(h, "settle", s, f, arg, Len(s))
  <2> HIDE DEF Is
  <2> QED BY <1>2, <1>4
<1>8. Len(s) \in Nat
  OBVIOUS
<1>9. \E st : Chain(st, "settle", s, f, arg) /\ st[Len(s)] = h[1 .. Len(s)]
  BY ONLY <1>7, <1>8, ChainOf
<1> QED BY ONLY <1>6, <1>9, Zenon

ReceiveAll(f, s, arg) ==
  FoldLeft(LAMBDA g, id : Receive(g, id, arg[id]), f, s)

LEMMA ReceiveFold ==
  ASSUME NEW f, NEW arg, NEW s, Len(s) \in Nat, DOMAIN s = 1 .. Len(s)
  PROVE  \E st : Chain(st, "receive", s, f, arg) /\ st[Len(s)] = ReceiveAll(f, s, arg)
<1> DEFINE Body(h, I) == IF I = {} THEN f ELSE Receive(h[I \ {Max(I)}], s[Max(I)], arg[s[Max(I)]])
           Is(h) == h = [I \in SUBSET DOMAIN s |-> Body(h, I)]
<1>1. \A h, I : StepOf(h, "receive", s, f, arg, I) = Body(h, I)
  BY DEF StepOf, Apply
<1>2. \A h : Is(h) <=> IsFold(h, "receive", s, f, arg, Len(s))
  <2> HIDE DEF Body
  <2> QED BY <1>1 DEF IsFold
<1>3. PICK h : h = CHOOSE iter : Is(iter)
  OBVIOUS
<1>4. Is(h)
  <2>1. \E iter : Is(iter)
    <3> HIDE DEF Is
    <3> QED BY <1>2, FoldExists
  <2> HIDE DEF Is
  <2> QED BY <1>3, <2>1
<1>5. FoldLeft(LAMBDA g, id : Receive(g, id, arg[id]), f, s) = (CHOOSE iter : Is(iter))[DOMAIN s]
  BY DEF FoldLeft, MapThenFoldSet
<1>6. FoldLeft(LAMBDA g, id : Receive(g, id, arg[id]), f, s) = h[1 .. Len(s)]
  <2> HIDE DEF Is
  <2> QED BY <1>3, <1>5
<1>7. IsFold(h, "receive", s, f, arg, Len(s))
  <2> HIDE DEF Is
  <2> QED BY <1>2, <1>4
<1>8. Len(s) \in Nat
  OBVIOUS
<1>9. \E st : Chain(st, "receive", s, f, arg) /\ st[Len(s)] = h[1 .. Len(s)]
  BY ONLY <1>7, <1>8, ChainOf
<1> QED BY ONLY <1>6, <1>9, Zenon DEF ReceiveAll

LEMMA ResolveFold ==
  ASSUME NEW f, NEW arg, NEW s, Len(s) \in Nat, DOMAIN s = 1 .. Len(s)
  PROVE  \E st : Chain(st, "resolve", s, f, arg) /\ st[Len(s)] = FoldLeft(ResolveStreaming, f, s)
<1> DEFINE Body(h, I) == IF I = {} THEN f ELSE ResolveStreaming(h[I \ {Max(I)}], s[Max(I)])
           Is(h) == h = [I \in SUBSET DOMAIN s |-> Body(h, I)]
<1>1. \A h, I : StepOf(h, "resolve", s, f, arg, I) = Body(h, I)
  BY DEF StepOf, Apply
<1>2. \A h : Is(h) <=> IsFold(h, "resolve", s, f, arg, Len(s))
  <2> HIDE DEF Body
  <2> QED BY <1>1 DEF IsFold
<1>3. PICK h : h = CHOOSE iter : Is(iter)
  OBVIOUS
<1>4. Is(h)
  <2>1. \E iter : Is(iter)
    <3> HIDE DEF Is
    <3> QED BY <1>2, FoldExists
  <2> HIDE DEF Is
  <2> QED BY <1>3, <2>1
<1>5. FoldLeft(ResolveStreaming, f, s) = (CHOOSE iter : Is(iter))[DOMAIN s]
  BY DEF FoldLeft, MapThenFoldSet
<1>6. FoldLeft(ResolveStreaming, f, s) = h[1 .. Len(s)]
  <2> HIDE DEF Is
  <2> QED BY <1>3, <1>5
<1>7. IsFold(h, "resolve", s, f, arg, Len(s))
  <2> HIDE DEF Is
  <2> QED BY <1>2, <1>4
<1>8. Len(s) \in Nat
  OBVIOUS
<1>9. \E st : Chain(st, "resolve", s, f, arg) /\ st[Len(s)] = h[1 .. Len(s)]
  BY ONLY <1>7, <1>8, ChainOf
<1> QED BY ONLY <1>6, <1>9, Zenon

LEMMA NotifyFold ==
  ASSUME NEW f, NEW arg, NEW s, Len(s) \in Nat, DOMAIN s = 1 .. Len(s)
  PROVE  \E st : Chain(st, "notify", s, f, arg) /\ st[Len(s)] = FoldLeft(NotifyReader, f, s)
<1> DEFINE Body(h, I) == IF I = {} THEN f ELSE NotifyReader(h[I \ {Max(I)}], s[Max(I)])
           Is(h) == h = [I \in SUBSET DOMAIN s |-> Body(h, I)]
<1>1. \A h, I : StepOf(h, "notify", s, f, arg, I) = Body(h, I)
  BY DEF StepOf, Apply
<1>2. \A h : Is(h) <=> IsFold(h, "notify", s, f, arg, Len(s))
  <2> HIDE DEF Body
  <2> QED BY <1>1 DEF IsFold
<1>3. PICK h : h = CHOOSE iter : Is(iter)
  OBVIOUS
<1>4. Is(h)
  <2>1. \E iter : Is(iter)
    <3> HIDE DEF Is
    <3> QED BY <1>2, FoldExists
  <2> HIDE DEF Is
  <2> QED BY <1>3, <2>1
<1>5. FoldLeft(NotifyReader, f, s) = (CHOOSE iter : Is(iter))[DOMAIN s]
  BY DEF FoldLeft, MapThenFoldSet
<1>6. FoldLeft(NotifyReader, f, s) = h[1 .. Len(s)]
  <2> HIDE DEF Is
  <2> QED BY <1>3, <1>5
<1>7. IsFold(h, "notify", s, f, arg, Len(s))
  <2> HIDE DEF Is
  <2> QED BY <1>2, <1>4
<1>8. Len(s) \in Nat
  OBVIOUS
<1>9. \E st : Chain(st, "notify", s, f, arg) /\ st[Len(s)] = h[1 .. Len(s)]
  BY ONLY <1>7, <1>8, ChainOf
<1> QED BY ONLY <1>6, <1>9, Zenon

CompleteAll(f, s, arg) ==
  FoldLeft(LAMBDA g, id : IF arg[id] = "running" THEN g ELSE Complete(g, id, arg[id]), f, s)

LEMMA CompleteFold ==
  ASSUME NEW f, NEW arg, NEW s, Len(s) \in Nat, DOMAIN s = 1 .. Len(s)
  PROVE  \E st : Chain(st, "complete", s, f, arg) /\ st[Len(s)] = CompleteAll(f, s, arg)
<1> DEFINE Body(h, I) == IF I = {} THEN f ELSE (IF arg[s[Max(I)]] = "running" THEN h[I \ {Max(I)}] ELSE Complete(h[I \ {Max(I)}], s[Max(I)], arg[s[Max(I)]]))
           Is(h) == h = [I \in SUBSET DOMAIN s |-> Body(h, I)]
<1>1. \A h, I : StepOf(h, "complete", s, f, arg, I) = Body(h, I)
  BY DEF StepOf, Apply
<1>2. \A h : Is(h) <=> IsFold(h, "complete", s, f, arg, Len(s))
  <2> HIDE DEF Body
  <2> QED BY <1>1 DEF IsFold
<1>3. PICK h : h = CHOOSE iter : Is(iter)
  OBVIOUS
<1>4. Is(h)
  <2>1. \E iter : Is(iter)
    <3> HIDE DEF Is
    <3> QED BY <1>2, FoldExists
  <2> HIDE DEF Is
  <2> QED BY <1>3, <2>1
<1>5. FoldLeft(LAMBDA g, id : IF arg[id] = "running" THEN g ELSE Complete(g, id, arg[id]), f, s) = (CHOOSE iter : Is(iter))[DOMAIN s]
  BY DEF FoldLeft, MapThenFoldSet
<1>6. FoldLeft(LAMBDA g, id : IF arg[id] = "running" THEN g ELSE Complete(g, id, arg[id]), f, s) = h[1 .. Len(s)]
  <2> HIDE DEF Is
  <2> QED BY <1>3, <1>5
<1>7. IsFold(h, "complete", s, f, arg, Len(s))
  <2> HIDE DEF Is
  <2> QED BY <1>2, <1>4
<1>8. Len(s) \in Nat
  OBVIOUS
<1>9. \E st : Chain(st, "complete", s, f, arg) /\ st[Len(s)] = h[1 .. Len(s)]
  BY ONLY <1>7, <1>8, ChainOf
<1> QED BY ONLY <1>6, <1>9, Zenon DEF CompleteAll

Told == {"nothing", "response", "network", "denied", "aborted"}
Ends == {"running", "ok", "failed", "refused", "denied", "aborted", "network"}
Chunks == Nat \ {0}

Requests == [easy : BOOLEAN, held : BOOLEAN, promise : BOOLEAN, resolved : BOOLEAN,
             complete : BOOLEAN, received : BOOLEAN, chunks : Seq(Chunks), wait : BOOLEAN,
             revoked : BOOLEAN]

Readables == [state : {"readable", "closed", "errored"}, queue : Seq(Chunks),
              pendingReads : {0, 1}, closeRequested : BOOLEAN, started : BOOLEAN,
              pullInProgress : BOOLEAN, pullAgain : BOOLEAN, asked : BOOLEAN]

Jobs == {j \in [on : {"fetched", "read", "pull", "threw"}, id : Ids, ok : BOOLEAN, chunk : Nat] :
           j.on = "threw" => ~j.ok}

IsTable(t, S) == /\ DOMAIN t \subseteq Ids /\ t = [d \in DOMAIN t |-> t[d]]
                 /\ \A d \in DOMAIN t : t[d] \in S

Fields == {"req", "pending", "localPending", "next", "body", "jobs", "told", "sent", "end"}

IsFetch(f) == /\ f = [k \in Fields |-> f[k]]
              /\ IsTable(f.req, Requests) /\ IsTable(f.body, Readables)
              /\ f.pending \in Seq(Ids) /\ f.localPending \in Seq(Ids)
              /\ f.next \in 1 .. MaxRequests + 1
              /\ f.jobs \in Seq(Jobs)
              /\ f.told \in [Ids -> Told] /\ f.sent \in [Ids -> Nat] /\ f.end \in [Ids -> Ends]

-------------------------------------------------------------------------------
(* The microtasks.  Of a request there is at most one about its promise or a read, *)
(* and one about a pull.                                                           *)

SameLane(a, b) == a.id = b.id /\ (a.on = "pull" <=> b.on = "pull")

Once(js) == \A i, k \in 1 .. Len(js) :
              js[i].on # "threw" /\ js[k].on # "threw" /\ SameLane(js[i], js[k]) => i = k

\* Those of request d; those about exceptions are under -d.
Key(j) == IF j.on = "threw" THEN -j.id ELSE j.id
Of(js, d) == {js[i] : i \in {k \in 1 .. Len(js) : Key(js[k]) = d}}

LEMMA Apart == \A d \in Ids : \A id \in Ids : -d # id
BY FetchAssumption DEF Ids

LEMMA OfRequest ==
  ASSUME NEW js \in Seq(Jobs), NEW d \in Ids, NEW a \in Of(js, d)
  PROVE  a \in Jobs /\ a.on # "threw" /\ a.id = d
<1>1. PICK i \in 1 .. Len(js) : a = js[i] /\ Key(js[i]) = d
  BY DEF Of
<1>2. a \in Jobs /\ a.id \in Ids
  BY <1>1 DEF Jobs
<1>3. a.on # "threw"
  BY <1>1, <1>2, Apart DEF Key
<1> QED BY <1>1, <1>2, <1>3 DEF Key

LEMMA JobAppended ==
  ASSUME NEW js \in Seq(Jobs), NEW e \in Jobs, Once(js), e.on # "threw",
         \A a \in Of(js, e.id) : ~SameLane(a, e)
  PROVE  /\ Append(js, e) \in Seq(Jobs) /\ Once(Append(js, e))
         /\ Of(Append(js, e), e.id) = Of(js, e.id) \union {e}
         /\ \A d : d # e.id => Of(Append(js, e), d) = Of(js, d)
<1>1. PICK ks : ks = Append(js, e)
  OBVIOUS
<1>2. /\ ks \in Seq(Jobs) /\ Len(js) \in Nat /\ Len(ks) = Len(js) + 1
      /\ \A i \in 1 .. Len(js) : ks[i] = js[i]
      /\ ks[Len(js) + 1] = e
  BY <1>1, AppendProperties, LenProperties
<1>3. ASSUME NEW d PROVE Of(ks, d) = Of(js, d) \union (IF d = e.id THEN {e} ELSE {})
  <2>4. Key(e) = e.id
    BY DEF Key
  <2>1. \A i \in 1 .. Len(ks) : i \in 1 .. Len(js) \/ i = Len(js) + 1
    BY <1>2
  <2>2. \A i \in 1 .. Len(js) : i \in 1 .. Len(ks)
    BY <1>2
  <2>3. Len(js) + 1 \in 1 .. Len(ks)
    BY <1>2
  <2> QED BY <1>2, <2>1, <2>2, <2>3, <2>4 DEF Of
<1>4. Once(ks)
  <2> SUFFICES ASSUME NEW i \in 1 .. Len(ks), NEW k \in 1 .. Len(ks), ks[i].on # "threw",
                      ks[k].on # "threw", SameLane(ks[i], ks[k])
               PROVE  i = k
    BY DEF Once
  <2>1. \A m \in 1 .. Len(js) : js[m].on # "threw" => js[m] \in Of(js, js[m].id)
    BY DEF Of, Key
  <2>2. CASE i \in 1 .. Len(js) /\ k \in 1 .. Len(js)
    BY <1>2, <2>2 DEF Once
  <2>3. CASE i \in 1 .. Len(js) /\ k = Len(js) + 1
    BY <1>2, <2>1, <2>3 DEF SameLane
  <2>4. CASE i = Len(js) + 1 /\ k \in 1 .. Len(js)
    BY <1>2, <2>1, <2>4 DEF SameLane
  <2> QED BY <1>2, <2>2, <2>3, <2>4
<1> QED BY <1>1, <1>2, <1>3, <1>4

LEMMA ThrewAppended ==
  ASSUME NEW js \in Seq(Jobs), NEW e \in Jobs, Once(js), e.on = "threw"
  PROVE  /\ Append(js, e) \in Seq(Jobs) /\ Once(Append(js, e))
         /\ \A d : d # -e.id => Of(Append(js, e), d) = Of(js, d)
<1>1. PICK ks : ks = Append(js, e)
  OBVIOUS
<1>2. /\ ks \in Seq(Jobs) /\ Len(js) \in Nat /\ Len(ks) = Len(js) + 1
      /\ \A i \in 1 .. Len(js) : ks[i] = js[i]
      /\ ks[Len(js) + 1] = e
  BY <1>1, AppendProperties, LenProperties
<1>3. ASSUME NEW d, d # -e.id PROVE Of(ks, d) = Of(js, d)
  <2>3. Key(e) = -e.id
    BY DEF Key
  <2>1. \A i \in 1 .. Len(ks) : i \in 1 .. Len(js) \/ i = Len(js) + 1
    BY <1>2
  <2>2. \A i \in 1 .. Len(js) : i \in 1 .. Len(ks)
    BY <1>2
  <2> QED BY <1>2, <1>3, <2>1, <2>2, <2>3 DEF Of
<1>4. Once(ks)
  BY <1>2 DEF Once
<1> QED BY <1>1, <1>2, <1>3, <1>4

FirstTaken(js, h, ks) ==
  /\ h \in Jobs /\ ks \in Seq(Jobs) /\ Once(ks)
  /\ h.on # "threw" => /\ h \in Of(js, h.id)
                       /\ \A a \in Of(js, h.id) : SameLane(a, h) => a = h
                       /\ Of(ks, h.id) = Of(js, h.id) \ {h}
  /\ \A d : d # Key(h) => Of(ks, d) = Of(js, d)
  /\ h \in Of(js, Key(h)) /\ Of(ks, Key(h)) \subseteq Of(js, Key(h))

LEMMA JobPopped ==
  ASSUME NEW js \in Seq(Jobs), js # <<>>, Once(js), NEW h, h = Head(js)
  PROVE  FirstTaken(js, h, Tail(js))
<1>1. PICK ks : ks = Tail(js)
  OBVIOUS
<1>2. /\ ks \in Seq(Jobs) /\ Len(js) \in Nat /\ Len(js) > 0 /\ Len(ks) = Len(js) - 1
      /\ \A i \in 1 .. Len(ks) : ks[i] = js[i + 1]
      /\ h = js[1] /\ h \in Jobs
  BY <1>1, HeadTailProperties, EmptySeq, LenProperties
<1>3. Once(ks)
  <2>1. \A i \in 1 .. Len(ks) : i + 1 \in 1 .. Len(js)
    BY <1>2
  <2> SUFFICES ASSUME NEW i \in 1 .. Len(ks), NEW k \in 1 .. Len(ks), ks[i].on # "threw",
                      ks[k].on # "threw", SameLane(ks[i], ks[k])
               PROVE  i = k
    BY DEF Once
  <2>2. i + 1 = k + 1
    BY <1>2, <2>1 DEF Once
  <2> QED BY <2>2
<1>4. /\ h \in Of(js, Key(h))
      /\ h.on # "threw" => \A a \in Of(js, h.id) : SameLane(a, h) => a = h
  <2>1. 1 \in 1 .. Len(js)
    BY <1>2
  <2>2. h \in Of(js, Key(h))
    BY <1>2, <2>1 DEF Of
  <2>3. ASSUME h.on # "threw", NEW a \in Of(js, h.id), SameLane(a, h) PROVE a = h
    <3>1. PICK i \in 1 .. Len(js) : a = js[i] /\ Key(js[i]) = h.id
      BY DEF Of
    <3>2. js[i] \in Jobs /\ a.id \in Ids /\ h.id \in Ids
      BY <1>2, <3>1 DEF Jobs
    <3>3. a.on # "threw"
      BY <3>1, <3>2, Apart DEF Key
    <3> QED BY <1>2, <2>1, <2>3, <3>1, <3>3 DEF Once
  <2> QED BY <2>2, <2>3
<1>5. ASSUME NEW d
      PROVE  Of(js, d) = Of(ks, d) \union (IF d = Key(h) THEN {h} ELSE {})
  <2>1. \A i \in 1 .. Len(ks) : i + 1 \in 1 .. Len(js)
    BY <1>2
  <2>2. \A i \in 1 .. Len(js) : i = 1 \/ (i - 1 \in 1 .. Len(ks) /\ ks[i - 1] = js[i])
    <3> SUFFICES ASSUME NEW i \in 1 .. Len(js), i # 1
                 PROVE  i - 1 \in 1 .. Len(ks) /\ ks[i - 1] = js[i]
      OBVIOUS
    <3>1. i - 1 \in 1 .. Len(ks) /\ (i - 1) + 1 = i
      BY <1>2
    <3> QED BY <1>2, <3>1
  <2>3. 1 \in 1 .. Len(js)
    BY <1>2
  <2>4. \A a : a \in Of(ks, d) => a \in Of(js, d)
    BY <1>2, <2>1 DEF Of
  <2>5. d = Key(h) => h \in Of(js, d)
    BY <1>4
  <2>6. \A a : a \in Of(js, d) => a \in Of(ks, d) \/ (a = h /\ d = Key(h))
    BY <1>2, <2>2 DEF Of
  <2> QED BY <2>4, <2>5, <2>6
<1>6. h.on # "threw" => h \notin Of(ks, Key(h))
  <2> SUFFICES ASSUME h.on # "threw", NEW i \in 1 .. Len(ks), ks[i] = h PROVE FALSE
    BY DEF Of
  <2>1. i + 1 \in 1 .. Len(js) /\ 1 \in 1 .. Len(js) /\ i + 1 # 1
    BY <1>2
  <2>2. SameLane(js[1], js[i + 1]) /\ js[i + 1].on # "threw" /\ js[1].on # "threw"
    BY <1>2 DEF SameLane
  <2> QED BY <2>1, <2>2 DEF Once
<1>7. Of(js, Key(h)) = Of(ks, Key(h)) \union {h}
  BY <1>5
<1>8. ASSUME h.on # "threw" PROVE h \in Of(js, h.id) /\ Of(ks, h.id) = Of(js, h.id) \ {h}
  <2>1. Key(h) = h.id
    BY <1>8 DEF Key
  <2> QED BY <1>4, <1>6, <1>7, <1>8, <2>1
<1>9. ASSUME NEW d, d # Key(h) PROVE Of(ks, d) = Of(js, d)
  <2>1. Of(js, d) = Of(ks, d) \union {}
    BY <1>5, <1>9
  <2> QED BY <2>1
<1> QED BY <1>1, <1>2, <1>3, <1>4, <1>7, <1>8, <1>9 DEF FirstTaken

-------------------------------------------------------------------------------
(* The lists of requests that curl has and that wait for a tick. *)

Injective(s) == \A i, k \in 1 .. Len(s) : s[i] = s[k] => i = k
In(s, d) == \E i \in 1 .. Len(s) : s[i] = d

LEMMA IdAppended ==
  ASSUME NEW s \in Seq(Ids), NEW v \in Ids, Injective(s), ~In(s, v)
  PROVE  /\ Append(s, v) \in Seq(Ids) /\ Injective(Append(s, v))
         /\ \A d : In(Append(s, v), d) <=> In(s, d) \/ d = v
<1>1. PICK t : t = Append(s, v)
  OBVIOUS
<1>2. /\ t \in Seq(Ids) /\ Len(s) \in Nat /\ Len(t) = Len(s) + 1
      /\ \A i \in 1 .. Len(s) : t[i] = s[i]
      /\ t[Len(s) + 1] = v
  BY <1>1, AppendProperties, LenProperties
<1>3. \A i \in 1 .. Len(t) : i \in 1 .. Len(s) \/ i = Len(s) + 1
  BY <1>2
<1>4. \A i \in 1 .. Len(s) : i \in 1 .. Len(t)
  BY <1>2
<1>5. Len(s) + 1 \in 1 .. Len(t)
  BY <1>2
<1>6. Injective(t)
  BY <1>2, <1>3 DEF Injective, In
<1>7. \A d : In(t, d) <=> In(s, d) \/ d = v
  BY <1>2, <1>3, <1>4, <1>5 DEF In
<1> QED BY <1>1, <1>2, <1>6, <1>7

LEMMA IdRemoved ==
  ASSUME NEW s \in Seq(Ids), NEW v, Injective(s)
  PROVE  /\ RemoveFirst(s, v) \in Seq(Ids) /\ Injective(RemoveFirst(s, v))
         /\ \A d : In(RemoveFirst(s, v), d) <=> In(s, d) /\ d # v
<1>1. PICK n : n = Len(s) /\ n \in Nat
  BY LenProperties
<1>2. CASE ~In(s, v)
  <2>1. RemoveFirst(s, v) = s
    BY <1>2 DEF RemoveFirst, In
  <2> QED BY <1>2, <2>1 DEF In
<1>3. CASE In(s, v)
  <2>1. PICK m \in 1 .. n : s[m] = v
    BY <1>1, <1>3 DEF In
  <2>2. {i \in 1 .. Len(s) : s[i] = v} = {m}
    BY <1>1, <2>1 DEF Injective
  <2>3. SelectInSeq(s, LAMBDA u : u = v) = m
    <3>1. Min({m}) = m
      BY <2>1 DEF Min
    <3> QED BY <2>2, <3>1 DEF SelectInSeq
  <2>4. RemoveFirst(s, v) = SubSeq(s, 1, m - 1) \o SubSeq(s, m + 1, Len(s))
    BY <1>3, <2>3 DEF RemoveFirst, RemoveAt, In
  <2>5. PICK a, b : a = SubSeq(s, 1, m - 1) /\ b = SubSeq(s, m + 1, n)
    OBVIOUS
  <2>6. a \in Seq(Ids) /\ Len(a) = m - 1 /\ \A i \in 1 .. m - 1 : a[i] = s[i]
    BY <1>1, <2>1, <2>5, SubSeqProperties
  <2>7. b \in Seq(Ids) /\ Len(b) = n - m /\ \A i \in 1 .. n - m : b[i] = s[i + m]
    BY <1>1, <2>1, <2>5, SubSeqProperties
  <2>8. PICK t : t = a \o b
    OBVIOUS
  <2>9. /\ t \in Seq(Ids) /\ Len(t) = n - 1
        /\ \A i \in 1 .. n - 1 : t[i] = IF i < m THEN s[i] ELSE s[i + 1]
    <3>1. /\ t \in Seq(Ids) /\ Len(t) = (m - 1) + (n - m)
          /\ \A i \in 1 .. (m - 1) + (n - m) : t[i] = IF i <= m - 1 THEN a[i] ELSE b[i - (m - 1)]
      BY <2>6, <2>7, <2>8, ConcatProperties
    <3>2. (m - 1) + (n - m) = n - 1
      BY <1>1, <2>1
    <3>3. ASSUME NEW i \in 1 .. n - 1 PROVE t[i] = IF i < m THEN s[i] ELSE s[i + 1]
      <4>1. CASE i < m
        BY <1>1, <2>1, <2>6, <3>1, <3>2, <4>1
      <4>2. CASE ~(i < m)
        <5>1. i - (m - 1) \in 1 .. n - m /\ (i - (m - 1)) + m = i + 1
          BY <1>1, <2>1, <4>2
        <5>2. t[i] = b[i - (m - 1)]
          BY <1>1, <2>1, <3>1, <3>2, <4>2
        <5> QED BY <2>7, <4>2, <5>1, <5>2
      <4> QED BY <4>1, <4>2
    <3> QED BY <3>1, <3>2, <3>3
  <2>10. Injective(t)
    <3> SUFFICES ASSUME NEW i \in 1 .. n - 1, NEW k \in 1 .. n - 1, t[i] = t[k] PROVE i = k
      BY <1>1, <2>9 DEF Injective
    <3>1. PICK p \in 1 .. n : t[i] = s[p] /\ p = (IF i < m THEN i ELSE i + 1)
      BY <1>1, <2>1, <2>9
    <3>2. PICK q \in 1 .. n : t[k] = s[q] /\ q = (IF k < m THEN k ELSE k + 1)
      BY <1>1, <2>1, <2>9
    <3>3. p = q
      BY <1>1, <3>1, <3>2 DEF Injective
    <3> QED BY <1>1, <2>1, <3>1, <3>2, <3>3
  <2>11. ASSUME NEW d PROVE In(t, d) <=> In(s, d) /\ d # v
    <3>1. ASSUME In(t, d) PROVE In(s, d) /\ d # v
      <4>1. PICK i \in 1 .. n - 1 : t[i] = d
        BY <2>9, <3>1 DEF In
      <4>2. PICK p \in 1 .. n : s[p] = d /\ p # m
        BY <1>1, <2>1, <2>9, <4>1
      <4>3. d # v
        BY <1>1, <2>1, <4>2 DEF Injective
      <4> QED BY <1>1, <4>2, <4>3 DEF In
    <3>2. ASSUME In(s, d), d # v PROVE In(t, d)
      <4>1. PICK i \in 1 .. n : s[i] = d
        BY <1>1, <3>2 DEF In
      <4>2. i # m
        BY <2>1, <3>2, <4>1
      <4>3. CASE i < m
        BY <1>1, <2>1, <2>9, <4>1, <4>3 DEF In
      <4>4. CASE i > m
        <5>1. i - 1 \in 1 .. n - 1 /\ ~(i - 1 < m) /\ (i - 1) + 1 = i
          BY <1>1, <2>1, <4>4
        <5> QED BY <2>9, <4>1, <5>1 DEF In
      <4> QED BY <1>1, <2>1, <4>2, <4>3, <4>4
    <3> QED BY <3>1, <3>2
  <2> QED BY <1>1, <2>4, <2>5, <2>8, <2>9, <2>10, <2>11
<1> QED BY <1>2, <1>3

-------------------------------------------------------------------------------
(* What holds of each request, its body and its microtasks.                       *)

JobOn(f, on, d) == \E j \in Of(f.jobs, d) : j.on = on
Waits(f, d) == Live(f, d) /\ f.req[d].wait

\* Somebody waits for the promise of fetch(), or for that of a read.
Connecting(f, d) == (d < f.next /\ f.told[d] = "nothing") \/ JobOn(f, "fetched", d)
Reading(f, d) == JobOn(f, "read", d) \/ (Streaming(f, d) /\ f.body[d].pendingReads = 1)

Unborn(f, d) == /\ ~Live(f, d) /\ ~Streaming(f, d) /\ f.told[d] = "nothing"
                /\ f.end[d] = "running" /\ f.sent[d] = 0
                /\ Of(f.jobs, d) = {} /\ Of(f.jobs, -d) = {}

ReqAt(f, d) ==
  LET q == f.req[d]
  IN  /\ q.held = q.easy /\ q.complete = ~q.easy /\ q.promise = ~q.resolved
      /\ q.promise <=> f.told[d] = "nothing"
      /\ q.resolved <=> Streaming(f, d)
      /\ q.easy <=> In(f.pending, d)
      /\ q.wait => q.easy /\ q.resolved
      /\ q.chunks # <<>> => q.received
      /\ ~q.received => f.sent[d] = 0
      /\ q.received /\ ~q.easy => q.resolved
      /\ q.easy \/ q.promise => f.end[d] = "running"
      /\ q.resolved /\ f.end[d] = "running" => q.easy
      /\ q.revoked <=> f.end[d] = "denied"

GoneAt(f, d) == /\ ~In(f.pending, d)
                /\ d < f.next => f.told[d] # "nothing" /\ f.end[d] # "running"

\* A pull is under way while a callback is left or the reaction to it is queued.
PullAt(f, d) ==
  LET r == f.body[d]
  IN  /\ r.pullInProgress <=> Waits(f, d) \/ JobOn(f, "pull", d)
      /\ ~(Waits(f, d) /\ JobOn(f, "pull", d))
      /\ Waits(f, d) => r.state = "readable"
      /\ r.pendingReads = 1 => /\ ~JobOn(f, "read", d) /\ r.queue = <<>> /\ r.state = "readable"
                               /\ r.pullInProgress
                               /\ JobOn(f, "pull", d) => r.pullAgain

BodyAt(f, d) ==
  LET r == f.body[d]
  IN  /\ f.told[d] = "response" /\ r.started /\ ~r.asked
      /\ r.closeRequested <=> r.state = "closed"
      /\ r.state = "closed" => /\ f.end[d] \notin {"running", "denied"}
                               /\ Live(f, d) => f.req[d].chunks = <<>>
      /\ r.state = "errored" => f.end[d] = "denied"
      /\ r.state = "readable" => Live(f, d)
      /\ PullAt(f, d)

JobAt(f, d, j) ==
  /\ j.on = "fetched" => (j.ok <=> f.told[d] = "response")
  /\ j.on = "read" /\ j.ok /\ j.chunk = 0 => f.end[d] \notin {"running", "denied"}
  /\ j.on = "read" /\ ~j.ok => f.end[d] = "denied"

JobsAt(f, d) ==
  /\ ~(Connecting(f, d) /\ Reading(f, d))
  /\ JobOn(f, "fetched", d) => f.told[d] # "nothing"
  /\ JobOn(f, "pull", d) => Streaming(f, d)
  /\ JobOn(f, "read", d) => f.told[d] = "response"
  /\ f.told[d] = "response" /\ ~Streaming(f, d) => f.end[d] = "ok" /\ f.sent[d] = 0
  /\ \A j \in Of(f.jobs, d) : JobAt(f, d, j)

Core(f, d) == /\ d >= f.next => Unborn(f, d)
              /\ Live(f, d) => ReqAt(f, d)
              /\ ~Live(f, d) => GoneAt(f, d)
              /\ Streaming(f, d) => BodyAt(f, d)
              /\ JobsAt(f, d)

Sound(f) == /\ IsFetch(f) /\ Once(f.jobs) /\ Injective(f.pending)
            /\ \A d \in Ids : Core(f, d)

\* Between ticks: a response that has data is a streaming one, a callback is left only
\* where there is nothing to read, and a local response is parked for the next tick.
Prompt(f, d) == Live(f, d) /\ f.req[d].received => f.req[d].resolved
Calm(f, d) == Waits(f, d) => f.req[d].chunks = <<>>
Parked(f) == /\ Injective(f.localPending)
             /\ \A d \in Ids : In(f.localPending, d) <=>
                                 Live(f, d) /\ ~f.req[d].easy /\ f.req[d].promise

FetchInv(f) == /\ Sound(f) /\ Parked(f)
               /\ \A d \in Ids : Prompt(f, d) /\ Calm(f, d)

-------------------------------------------------------------------------------
(* A step about one request leaves the others alone.                              *)

Same(f, g, d) == /\ Live(g, d) <=> Live(f, d)
                 /\ Live(f, d) => g.req[d] = f.req[d]
                 /\ Streaming(g, d) <=> Streaming(f, d)
                 /\ Streaming(f, d) => g.body[d] = f.body[d]
                 /\ g.told[d] = f.told[d] /\ g.sent[d] = f.sent[d] /\ g.end[d] = f.end[d]
                 /\ In(g.pending, d) <=> In(f.pending, d)
                 /\ d < g.next <=> d < f.next
                 /\ Of(g.jobs, d) = Of(f.jobs, d)
                 /\ d < f.next \/ Of(g.jobs, -d) \subseteq Of(f.jobs, -d)

Elsewhere(f, g, id) == \A d \in Ids : d # id => Same(f, g, d)

LEMMA CoreSame ==
  ASSUME NEW f, NEW g, NEW d \in Ids, f.next \in Nat, g.next \in Nat, Core(f, d), Same(f, g, d)
  PROVE  Core(g, d) /\ (Prompt(f, d) => Prompt(g, d)) /\ (Calm(f, d) => Calm(g, d))
         /\ (Connecting(g, d) <=> Connecting(f, d)) /\ (Reading(g, d) <=> Reading(f, d))
<1>1. \A on : JobOn(g, on, d) <=> JobOn(f, on, d)
  BY DEF JobOn, Same
<1>2. (Waits(g, d) <=> Waits(f, d)) /\ (d >= g.next <=> d >= f.next)
  BY DEF Waits, Same, Ids
<1>3. (Connecting(g, d) <=> Connecting(f, d)) /\ (Reading(g, d) <=> Reading(f, d))
  BY <1>1 DEF Connecting, Reading, Same
<1>4. d >= g.next => Unborn(g, d)
  <2>1. d >= f.next => ~(d < f.next)
    BY FetchAssumption DEF Ids
  <2> QED BY <1>2, <2>1 DEF Core, Unborn, Same
<1>5. Live(g, d) => ReqAt(g, d)
  BY DEF Core, ReqAt, Same
<1>6. ~Live(g, d) => GoneAt(g, d)
  BY DEF Core, GoneAt, Same
<1>7. Streaming(g, d) => BodyAt(g, d)
  <2>1. Streaming(g, d) => PullAt(g, d)
    BY <1>1, <1>2 DEF Core, BodyAt, PullAt, Same
  <2> QED BY <2>1 DEF Core, BodyAt, Same
<1>8. JobsAt(g, d)
  BY <1>1, <1>3 DEF Core, JobsAt, JobAt, Same
<1>9. (Prompt(f, d) => Prompt(g, d)) /\ (Calm(f, d) => Calm(g, d))
  BY <1>2 DEF Prompt, Calm, Waits, Same
<1> QED BY <1>3, <1>4, <1>5, <1>6, <1>7, <1>8, <1>9 DEF Core

-------------------------------------------------------------------------------
(* The source of a body.                                                           *)

LEMMA TableSet ==
  ASSUME NEW t, NEW S, IsTable(t, S), NEW d \in DOMAIN t, NEW v \in S
  PROVE  /\ IsTable([t EXCEPT ![d] = v], S) /\ DOMAIN [t EXCEPT ![d] = v] = DOMAIN t
         /\ [t EXCEPT ![d] = v][d] = v
         /\ \A c \in DOMAIN t : c # d => [t EXCEPT ![d] = v][c] = t[c]
BY DEF IsTable

\* What one read that is settled, or none, queues.
Reactions(settled, ok, c) == IF settled THEN <<Reaction("read", ok, c)>> ELSE <<>>

Fed(f, g, id, r, settled, ok, c) ==
  /\ g = [f EXCEPT !.body = [f.body EXCEPT ![id] = r], !.jobs = g.jobs]
  /\ g.jobs \in Seq(Jobs) /\ Once(g.jobs)
  /\ Of(g.jobs, id) = Of(f.jobs, id) \union {FetchJob("pull", id, TRUE, 0)}
        \union (IF settled THEN {FetchJob("read", id, ok, c)} ELSE {})
  /\ \A d : d # id => Of(g.jobs, d) = Of(f.jobs, d)

\* The stream has made a step that settled one read at most, and pull() is resolved.
LEMMA BodyFed ==
  ASSUME NEW f, IsFetch(f), Once(f.jobs), NEW id \in Ids, Streaming(f, id),
         NEW r \in Readables, NEW settled \in BOOLEAN, NEW ok \in BOOLEAN, NEW c \in Nat,
         ~JobOn(f, "pull", id),
         settled => ~JobOn(f, "read", id) /\ ~JobOn(f, "fetched", id),
         NEW s, s.r = r, s.jobs = Reactions(settled, ok, c),
         NEW g, g = PullDone(PutBody(f, id, s), id)
  PROVE  Fed(f, g, id, r, settled, ok, c)
<1> DEFINE reactions == s.jobs
<1>0. /\ settled => reactions = <<Reaction("read", ok, c)>> /\ reactions # <<>>
      /\ ~settled => reactions = <<>>
  BY DEF Reactions
<1> HIDE DEF reactions
<1>1. f = [k \in Fields |-> f[k]] /\ f.jobs \in Seq(Jobs)
  BY DEF IsFetch
<1>2. PICK a : a = FetchJob("read", id, ok, c)
  OBVIOUS
<1>3. PICK e : e = FetchJob("pull", id, TRUE, 0)
  OBVIOUS
<1>4. a \in Jobs /\ a.on = "read" /\ a.id = id /\ e \in Jobs /\ e.on = "pull" /\ e.id = id
  BY <1>2, <1>3 DEF FetchJob, Jobs
<1>5. PICK ks : ks = IF settled THEN Append(f.jobs, a) ELSE f.jobs
  OBVIOUS
<1>6. PutBody(f, id, s)
        = [f EXCEPT !.body = [f.body EXCEPT ![id] = r], !.jobs = ks]
  <2>1. PICK ts : ts = [i \in DOMAIN reactions |->
                          FetchJob(reactions[i].on, id, reactions[i].ok, reactions[i].chunk)]
    OBVIOUS
  <2>2. CASE ~settled
    <3>1. ts = <<>>
      BY <1>0, <2>1, <2>2
    <3>2. f.jobs \o ts = ks
      BY <1>1, <1>5, <2>2, <3>1
    <3> QED BY <2>1, <3>2 DEF PutBody, reactions
  <2>3. CASE settled
    <3>1. ts = <<a>>
      BY <1>0, <1>2, <2>1, <2>3 DEF Reaction
    <3>2. settled
      BY <2>3
    <3>3. f.jobs \o ts = ks
      BY <1>1, <1>4, <1>5, <3>1, <3>2
    <3> QED BY <2>1, <3>3 DEF PutBody, reactions
  <2> QED BY <2>2, <2>3
<1>7. g = [f EXCEPT !.body = [f.body EXCEPT ![id] = r], !.jobs = Append(ks, e)]
  BY <1>1, <1>3, <1>6 DEF PullDone, Queue, Fields
<1>8. g.jobs = Append(ks, e)
  BY <1>1, <1>7 DEF Fields
<1>9. /\ ks \in Seq(Jobs) /\ Once(ks)
      /\ Of(ks, id) = Of(f.jobs, id) \union (IF settled THEN {a} ELSE {})
      /\ \A d : d # id => Of(ks, d) = Of(f.jobs, d)
  <2>1. CASE ~settled
    BY <1>1, <1>5, <2>1
  <2>2. CASE settled
    <3>1. ~JobOn(f, "read", id) /\ ~JobOn(f, "fetched", id)
      BY <2>2
    <3>2. ASSUME NEW b \in Of(f.jobs, id) PROVE ~SameLane(b, a)
      <4>1. b.on # "read" /\ b.on # "fetched"
        BY <3>1 DEF JobOn
      <4>2. b.on # "threw" /\ b \in Jobs
        BY <1>1, OfRequest
      <4>3. b.on = "pull"
        BY <4>1, <4>2 DEF Jobs
      <4> QED BY <1>4, <4>3 DEF SameLane
    <3>3. a.on # "threw"
      BY <1>4
    <3>4. PICK js : js = f.jobs
      OBVIOUS
    <3>5. js \in Seq(Jobs) /\ Once(js) /\ \A b \in Of(js, a.id) : ~SameLane(b, a)
      BY <1>1, <1>4, <3>2, <3>4
    <3>6. /\ Append(js, a) \in Seq(Jobs) /\ Once(Append(js, a))
          /\ Of(Append(js, a), a.id) = Of(js, a.id) \union {a}
          /\ \A d : d # a.id => Of(Append(js, a), d) = Of(js, d)
      BY ONLY <1>4, <3>3, <3>5, JobAppended
    <3> QED BY <1>4, <1>5, <2>2, <3>4, <3>6
  <2> QED BY <2>1, <2>2
<1>10. /\ Append(ks, e) \in Seq(Jobs) /\ Once(Append(ks, e))
       /\ Of(Append(ks, e), e.id) = Of(ks, e.id) \union {e}
       /\ \A d : d # e.id => Of(Append(ks, e), d) = Of(ks, d)
  <2>1. ASSUME NEW b \in Of(ks, id) PROVE ~SameLane(b, e)
    <3>1. b \in Of(f.jobs, id) \/ b = a
      BY <1>9
    <3>2. b.on # "pull"
      BY <1>4, <3>1 DEF JobOn
    <3> QED BY <1>4, <3>2 DEF SameLane
  <2>2. e.on # "threw" /\ \A b \in Of(ks, e.id) : ~SameLane(b, e)
    BY <1>4, <2>1
  <2> QED BY ONLY <1>4, <1>9, <2>2, JobAppended
<1>11. Of(g.jobs, id) = Of(f.jobs, id) \union {e} \union (IF settled THEN {a} ELSE {})
  BY <1>4, <1>8, <1>9, <1>10
<1>12. g = [f EXCEPT !.body = [f.body EXCEPT ![id] = r], !.jobs = g.jobs]
  BY <1>7, <1>8
<1> QED BY <1>2, <1>3, <1>4, <1>8, <1>9, <1>10, <1>11, <1>12 DEF Fed

\* What a stream needs for its source to answer a pull.
Asks(f, id) ==
  LET q == f.req[id]
      r == f.body[id]
  IN  /\ Live(f, id) /\ Streaming(f, id)
      /\ r.state = "readable" /\ ~r.closeRequested
      /\ ~JobOn(f, "pull", id) /\ ~q.wait
      /\ r.pendingReads = 1 => r.queue = <<>> /\ ~JobOn(f, "read", id) /\ ~JobOn(f, "fetched", id)

KeepsRest(f, g) == /\ g.next = f.next /\ g.told = f.told /\ g.sent = f.sent /\ g.end = f.end
                   /\ g.pending = f.pending /\ g.localPending = f.localPending

\* The pull is done, and a read that was outstanding is settled.
Answered(f, g, id, ok, c) ==
  Of(g.jobs, id) = Of(f.jobs, id) \union {FetchJob("pull", id, TRUE, 0)}
    \union (IF f.body[id].pendingReads = 1 THEN {FetchJob("read", id, ok, c)} ELSE {})

GaveChunk(f, g, id) ==
  LET q == f.req[id]
      r == f.body[id]
  IN  /\ q.chunks # <<>>
      /\ Live(g, id) /\ g.req[id] = [q EXCEPT !.chunks = Tail(@)]
      /\ g.body[id] = IF r.pendingReads = 1 THEN [r EXCEPT !.pendingReads = 0]
                      ELSE [r EXCEPT !.queue = Append(@, Head(q.chunks))]
      /\ Answered(f, g, id, TRUE, Head(q.chunks))

GaveEnd(f, g, id) ==
  LET q == f.req[id]
      r == f.body[id]
  IN  /\ q.chunks = <<>> /\ q.complete
      /\ Live(g, id) <=> q.easy \/ ~q.resolved
      /\ Live(g, id) => g.req[id] = q
      /\ IF q.revoked
         THEN /\ g.body[id] = [r EXCEPT !.state = "errored", !.pendingReads = 0]
              /\ Answered(f, g, id, FALSE, 0)
         ELSE /\ g.body[id] = [r EXCEPT !.closeRequested = TRUE, !.state = "closed",
                                        !.pendingReads = 0]
              /\ Answered(f, g, id, TRUE, 0)

LeftCallback(f, g, id) ==
  LET q == f.req[id]
  IN  /\ q.chunks = <<>> /\ ~q.complete
      /\ Live(g, id) /\ g.req[id] = [q EXCEPT !.wait = TRUE]
      /\ g.body[id] = f.body[id] /\ Of(g.jobs, id) = Of(f.jobs, id)

Tried(f, g, id) == /\ IsFetch(g) /\ Once(g.jobs)
                   /\ KeepsRest(f, g) /\ Elsewhere(f, g, id) /\ Streaming(g, id)
                   /\ GaveChunk(f, g, id) \/ GaveEnd(f, g, id) \/ LeftCallback(f, g, id)

\* The table and the bodies of the others are as they were.
LEMMA OnlyOne ==
  ASSUME NEW f, NEW g, NEW id \in Ids, KeepsRest(f, g),
         \A d \in Ids : d # id =>
           /\ Live(g, d) <=> Live(f, d)
           /\ Live(f, d) => g.req[d] = f.req[d]
           /\ Streaming(g, d) <=> Streaming(f, d)
           /\ Streaming(f, d) => g.body[d] = f.body[d],
         \A d : d # id => Of(g.jobs, d) = Of(f.jobs, d)
  PROVE  Elsewhere(f, g, id)
<1>1. \A d \in Ids : Of(g.jobs, -d) = Of(f.jobs, -d)
  BY Apart
<1> QED BY <1>1 DEF Elsewhere, Same, KeepsRest

LEMMA EraseDoes ==
  ASSUME NEW f, IsFetch(f), NEW id
  PROVE  /\ Erase(f, id) = [f EXCEPT !.req = Erase(f, id).req]
         /\ IsTable(Erase(f, id).req, Requests) /\ IsFetch(Erase(f, id))
         /\ DOMAIN Erase(f, id).req = DOMAIN f.req \ {id}
         /\ \A d \in DOMAIN f.req : d # id => Erase(f, id).req[d] = f.req[d]
<1>1. PICK t : t = [d \in DOMAIN f.req \ {id} |-> f.req[d]]
  OBVIOUS
<1>2. Erase(f, id) = [f EXCEPT !.req = t]
  BY <1>1 DEF Erase
<1>3. IsTable(t, Requests)
  BY <1>1 DEF IsTable, IsFetch
<1>4. f = [k \in Fields |-> f[k]]
  BY DEF IsFetch
<1>5. Erase(f, id).req = t
  BY <1>2, <1>4 DEF Fields
<1>6. IsFetch(Erase(f, id))
  BY <1>2, <1>3 DEF IsFetch, Fields
<1> QED BY <1>1, <1>2, <1>3, <1>5, <1>6

\* A feed of the state whose table has become t.
Result(f, g, id, t, r) == /\ IsFetch(g) /\ Once(g.jobs) /\ KeepsRest(f, g) /\ Elsewhere(f, g, id)
                          /\ Streaming(g, id) /\ g.body[id] = r /\ g.req = t

LEMMA FedResult ==
  ASSUME NEW f, IsFetch(f), NEW t, IsTable(t, Requests), NEW id \in Ids, Streaming(f, id),
         NEW r \in Readables, NEW e, e = [f EXCEPT !.req = t],
         NEW settled \in BOOLEAN, NEW ok, NEW c, NEW g, Fed(e, g, id, r, settled, ok, c),
         DOMAIN t \union {id} = DOMAIN f.req \union {id},
         \A d \in DOMAIN t : d # id => t[d] = f.req[d],
         settled <=> f.body[id].pendingReads = 1
  PROVE  Result(f, g, id, t, r) /\ Answered(f, g, id, ok, c)
<1>1. f = [k \in Fields |-> f[k]]
  BY DEF IsFetch
<1>2. PICK b : b = [f.body EXCEPT ![id] = r]
  OBVIOUS
<1>3. PICK js : js = g.jobs
  OBVIOUS
<1>4. e.body = f.body /\ e.jobs = f.jobs
  BY <1>1 DEF Fields
<1>5. g = [f EXCEPT !.req = t, !.body = b, !.jobs = js]
  <2>1. g = [e EXCEPT !.body = b, !.jobs = js]
    BY <1>2, <1>3, <1>4 DEF Fed
  <2> QED BY <1>1, <2>1 DEF Fields
<1>6. /\ g.req = t /\ g.body = b /\ KeepsRest(f, g)
      /\ g = [k \in Fields |-> g[k]]
  BY <1>1, <1>5 DEF Fields, KeepsRest
<1>7. /\ IsTable(b, Readables) /\ DOMAIN b = DOMAIN f.body /\ b[id] = r
      /\ \A c1 \in DOMAIN f.body : c1 # id => b[c1] = f.body[c1]
  <2>1. id \in DOMAIN f.body /\ IsTable(f.body, Readables)
    BY DEF Streaming, IsFetch
  <2> QED BY <1>2, <2>1, TableSet
<1>8. /\ g.jobs \in Seq(Jobs) /\ Once(g.jobs)
      /\ Of(g.jobs, id) = Of(f.jobs, id) \union {FetchJob("pull", id, TRUE, 0)}
           \union (IF settled THEN {FetchJob("read", id, ok, c)} ELSE {})
      /\ \A d : d # id => Of(g.jobs, d) = Of(f.jobs, d)
  BY <1>4 DEF Fed
<1>9. IsFetch(g)
  BY <1>6, <1>7, <1>8 DEF IsFetch, KeepsRest
<1>10. Elsewhere(f, g, id)
  <2>1. \A d \in Ids : d # id =>
           /\ Live(g, d) <=> Live(f, d)
           /\ Live(f, d) => g.req[d] = f.req[d]
           /\ Streaming(g, d) <=> Streaming(f, d)
           /\ Streaming(f, d) => g.body[d] = f.body[d]
    BY <1>6, <1>7, <1>8 DEF Live, Streaming
  <2> QED BY <1>6, <1>8, <2>1, OnlyOne
<1>11. Answered(f, g, id, ok, c)
  BY <1>8 DEF Answered
<1> QED BY <1>6, <1>7, <1>8, <1>9, <1>10, <1>11 DEF Result, Streaming

LEMMA TryReadDoes ==
  ASSUME NEW f, IsFetch(f), Once(f.jobs), NEW id \in Ids, Asks(f, id),
         NEW g, g = TryRead(f, id)
  PROVE  Tried(f, g, id)
<1>1. PICK q, r : q = f.req[id] /\ r = f.body[id]
  OBVIOUS
<1>2. q \in Requests /\ r \in Readables /\ f = [k \in Fields |-> f[k]]
  BY <1>1 DEF IsFetch, IsTable, Asks, Live, Streaming
<1>3. IsTable(f.req, Requests) /\ id \in DOMAIN f.req /\ id \in DOMAIN f.body
  BY DEF IsFetch, Asks, Live, Streaming
<1>4. /\ Live(f, id) /\ Streaming(f, id) /\ Accepts(r)
      /\ r.state = "readable" /\ ~r.closeRequested
  BY <1>1 DEF Asks, Accepts
<1>5. PICK settled \in BOOLEAN : settled <=> r.pendingReads = 1
  OBVIOUS
<1>6. r.pendingReads = IF settled THEN 1 ELSE 0
  BY <1>2, <1>5 DEF Readables
<1>7. ASSUME NEW e, IsFetch(e), e.body = f.body, e.jobs = f.jobs, NEW s, NEW ok \in BOOLEAN,
             NEW c \in Nat, s.r \in Readables, s.jobs = Reactions(settled, ok, c),
             g = PullDone(PutBody(e, id, s), id)
      PROVE  Fed(e, g, id, s.r, settled, ok, c)
  <2>1. PICK v : v = s.r
    OBVIOUS
  <2>2. s.r = v /\ v \in Readables
    BY <1>7, <2>1
  <2>3. Streaming(e, id) /\ Once(e.jobs) /\ \A on : JobOn(e, on, id) <=> JobOn(f, on, id)
    BY <1>3, <1>7 DEF Streaming, JobOn
  <2>4. ~JobOn(e, "pull", id)
    BY <2>3 DEF Asks
  <2>5. settled => ~JobOn(e, "read", id) /\ ~JobOn(e, "fetched", id)
    BY <1>1, <1>5, <2>3 DEF Asks
  <2>6. id \in Ids /\ settled \in BOOLEAN
    BY <1>5
  <2>7. Fed(e, g, id, v, settled, ok, c)
    BY ONLY <1>7, <2>2, <2>3, <2>4, <2>5, <2>6, BodyFed
  <2> QED BY <2>2, <2>7
<1>8. CASE q.chunks # <<>>
  <2>1. PICK c : c = Head(q.chunks)
    OBVIOUS
  <2>2. PICK p : p = [q EXCEPT !.chunks = Tail(@)]
    OBVIOUS
  <2>3. c \in Chunks /\ c \in Nat /\ p \in Requests
    <3>1. q.chunks \in Seq(Chunks)
      BY <1>2 DEF Requests
    <3>2. Head(q.chunks) \in Chunks /\ Tail(q.chunks) \in Seq(Chunks)
      BY <1>8, <3>1, HeadTailProperties
    <3> QED BY <1>2, <2>1, <2>2, <3>2 DEF Requests, Chunks
  <2>4. PICK t : t = [f.req EXCEPT ![id] = p]
    OBVIOUS
  <2>5. /\ IsTable(t, Requests) /\ DOMAIN t = DOMAIN f.req /\ t[id] = p
        /\ \A d \in DOMAIN f.req : d # id => t[d] = f.req[d]
    BY <1>3, <2>3, <2>4, TableSet
  <2>6. PICK e : e = [f EXCEPT !.req = t]
    OBVIOUS
  <2>7. e = [f EXCEPT !.req[id].chunks = Tail(@)]
    BY <1>1, <1>2, <2>2, <2>4, <2>6
  <2>8. e.body = f.body /\ e.jobs = f.jobs /\ IsFetch(e)
    BY <1>2, <2>5, <2>6 DEF Fields, IsFetch
  <2>9. PICK s : s = Enqueue(r, c)
    OBVIOUS
  <2>10. g = PullDone(PutBody(e, id, s), id)
    BY <1>1, <1>4, <1>8, <2>1, <2>7, <2>8, <2>9 DEF TryRead
  <2>11. /\ s.r = IF settled THEN [r EXCEPT !.pendingReads = 0]
                  ELSE [r EXCEPT !.queue = Append(@, c)]
         /\ s.jobs = Reactions(settled, TRUE, c)
    <3>1. CASE settled
      <4>1. PICK v : v = [r EXCEPT !.pendingReads = 0]
        OBVIOUS
      <4>2. PICK w : w = <<Reaction("read", TRUE, c)>>
        OBVIOUS
      <4>3. s = Step(v, w)
        BY <1>4, <1>6, <2>9, <3>1, <4>1, <4>2 DEF Enqueue, Value
      <4>4. s.r = v /\ s.jobs = w
        BY <4>3 DEF Step
      <4> QED BY <3>1, <4>1, <4>2, <4>4 DEF Reactions
    <3>2. CASE ~settled
      <4>1. PICK v : v = [r EXCEPT !.queue = Append(@, c)]
        OBVIOUS
      <4>2. s = Step(v, <<>>)
        BY <1>4, <1>6, <2>9, <3>2, <4>1 DEF Enqueue
      <4>3. s.r = v /\ s.jobs = <<>>
        BY <4>2 DEF Step
      <4> QED BY <3>2, <4>1, <4>3 DEF Reactions
    <3> QED BY <3>1, <3>2
  <2>12. s.r \in Readables
    <3>1. r.queue \in Seq(Chunks) => Append(r.queue, c) \in Seq(Chunks)
      BY <2>3, AppendProperties
    <3> QED BY <1>2, <2>11, <3>1 DEF Readables
  <2>13. PICK v : v = s.r /\ v \in Readables
    BY <2>12
  <2>14. Fed(e, g, id, v, settled, TRUE, c)
    BY <1>7, <2>3, <2>8, <2>10, <2>11, <2>13
  <2>15. Result(f, g, id, t, v) /\ Answered(f, g, id, TRUE, c)
    <3>1. DOMAIN t \union {id} = DOMAIN f.req \union {id}
      BY <2>5
    <3>2. \A d \in DOMAIN t : d # id => t[d] = f.req[d]
      BY <2>5
    <3>3. IsFetch(f) /\ id \in Ids /\ settled \in BOOLEAN /\ Streaming(f, id)
      BY <1>4
    <3>4. IsTable(t, Requests)
      BY <2>5
    <3>5. v \in Readables
      BY <2>13
    <3>6. settled <=> f.body[id].pendingReads = 1
      BY <1>1, <1>5
    <3> QED BY ONLY <2>6, <2>14, <3>1, <3>2, <3>3, <3>4, <3>5, <3>6, FedResult,
                     ZenonT(30)
  <2>16. GaveChunk(f, g, id)
    <3>1. Live(g, id) /\ g.req[id] = p
      BY <1>3, <2>5, <2>15 DEF Live, Result
    <3>2. g.body[id] = v
      BY <2>15 DEF Result
    <3>3. v = IF r.pendingReads = 1 THEN [r EXCEPT !.pendingReads = 0]
              ELSE [r EXCEPT !.queue = Append(@, c)]
      BY <1>5, <2>11, <2>13
    <3> QED BY <1>1, <1>8, <2>1, <2>2, <2>15, <3>1, <3>2, <3>3 DEF GaveChunk
  <2> QED BY <2>15, <2>16 DEF Tried, Result
<1>9. CASE q.chunks = <<>> /\ q.complete
  <2>1. PICK e : e = IF q.resolved /\ ~q.easy THEN Erase(f, id) ELSE f
    OBVIOUS
  <2>2. PICK t : t = e.req
    OBVIOUS
  <2>3. /\ e = [f EXCEPT !.req = t] /\ IsTable(t, Requests) /\ IsFetch(e)
        /\ DOMAIN t \union {id} = DOMAIN f.req \union {id}
        /\ \A d \in DOMAIN t : d # id => t[d] = f.req[d]
        /\ id \in DOMAIN t <=> q.easy \/ ~q.resolved
        /\ id \in DOMAIN t => t[id] = q
    <3>1. CASE q.resolved /\ ~q.easy
      <4>1. /\ e = [f EXCEPT !.req = t] /\ IsTable(t, Requests) /\ IsFetch(e)
            /\ DOMAIN t = DOMAIN f.req \ {id}
            /\ \A d \in DOMAIN f.req : d # id => t[d] = f.req[d]
        BY <2>1, <2>2, <3>1, EraseDoes
      <4> QED BY <3>1, <4>1
    <3>2. CASE ~(q.resolved /\ ~q.easy)
      <4>1. e = f /\ t = f.req
        BY <2>1, <2>2, <3>2
      <4>2. f = [f EXCEPT !.req = f.req]
        BY <1>2
      <4>3. q.easy \/ ~q.resolved
        BY <1>2, <3>2 DEF Requests
      <4> QED BY <1>1, <1>3, <4>1, <4>2, <4>3
    <3> QED BY <3>1, <3>2
  <2>4. e.body = f.body /\ e.jobs = f.jobs
    BY <1>2, <2>3 DEF Fields
  <2>5. PICK s : s = IF q.revoked THEN ErrorReadable(r) ELSE CloseReadable(r)
    OBVIOUS
  <2>6. g = PullDone(PutBody(e, id, s), id)
    BY <1>1, <1>4, <1>9, <2>1, <2>4, <2>5 DEF TryRead, ReadEnd
  <2>7. PICK ok \in BOOLEAN : ok = ~q.revoked
    OBVIOUS
  <2>8. /\ s.r = IF q.revoked THEN [r EXCEPT !.state = "errored", !.pendingReads = 0]
                 ELSE [r EXCEPT !.closeRequested = TRUE, !.state = "closed", !.pendingReads = 0]
        /\ s.jobs = [i \in 1 .. r.pendingReads |-> Reaction("read", ok, 0)]
    <3>1. CASE q.revoked
      <4>1. PICK v : v = [r EXCEPT !.state = "errored", !.pendingReads = 0]
        OBVIOUS
      <4>2. PICK w : w = [i \in 1 .. r.pendingReads |-> Reaction("read", FALSE, 0)]
        OBVIOUS
      <4>3. s = Step(v, w)
        BY <1>4, <2>5, <3>1, <4>1, <4>2 DEF ErrorReadable, Settle, Failed
      <4>4. s.r = v /\ s.jobs = w
        BY <4>3 DEF Step
      <4>5. ok = FALSE
        BY <2>7, <3>1
      <4> QED BY <3>1, <4>1, <4>2, <4>4, <4>5
    <3>2. CASE ~q.revoked
      <4>1. PICK u : u = [r EXCEPT !.closeRequested = TRUE]
        OBVIOUS
      <4>2. PICK v : v = [u EXCEPT !.state = "closed", !.pendingReads = 0]
        OBVIOUS
      <4>3. PICK w : w = [i \in 1 .. u.pendingReads |-> Reaction("read", TRUE, 0)]
        OBVIOUS
      <4>4. s = Step(v, w)
        BY <1>4, <2>5, <3>2, <4>1, <4>2, <4>3 DEF CloseReadable, Settle, Done
      <4>5. s.r = v /\ s.jobs = w
        BY <4>4 DEF Step
      <4>6. ok = TRUE
        BY <2>7, <3>2
      <4>7. u.pendingReads = r.pendingReads
            /\ v = [r EXCEPT !.closeRequested = TRUE, !.state = "closed", !.pendingReads = 0]
        BY <1>2, <4>1, <4>2 DEF Readables
      <4> QED BY <3>2, <4>3, <4>5, <4>6, <4>7
    <3> QED BY <3>1, <3>2
  <2>9. s.jobs = Reactions(settled, ok, 0)
    <3>1. CASE settled
      BY <1>6, <2>8, <3>1 DEF Reactions
    <3>2. CASE ~settled
      BY <1>6, <2>8, <3>2 DEF Reactions
    <3> QED BY <3>1, <3>2
  <2>10. PICK v : v = s.r /\ v \in Readables
    <3>1. [r EXCEPT !.state = "errored", !.pendingReads = 0] \in Readables
      BY <1>2 DEF Readables
    <3>2. [r EXCEPT !.closeRequested = TRUE, !.state = "closed", !.pendingReads = 0] \in Readables
      BY <1>2 DEF Readables
    <3> QED BY <2>8, <3>1, <3>2
  <2>11. Fed(e, g, id, v, settled, ok, 0)
    BY <1>7, <2>3, <2>4, <2>6, <2>7, <2>9, <2>10
  <2>12. Result(f, g, id, t, v) /\ Answered(f, g, id, ok, 0)
    <3>1. e = [f EXCEPT !.req = t]
      BY <2>3
    <3>2. IsFetch(f) /\ id \in Ids /\ settled \in BOOLEAN /\ Streaming(f, id)
      BY <1>4
    <3>3. IsTable(t, Requests) /\ DOMAIN t \union {id} = DOMAIN f.req \union {id}
      BY <2>3
    <3>4. \A d \in DOMAIN t : d # id => t[d] = f.req[d]
      BY <2>3
    <3>5. v \in Readables
      BY <2>10
    <3>6. settled <=> f.body[id].pendingReads = 1
      BY <1>1, <1>5
    <3> QED BY ONLY <2>11, <3>1, <3>2, <3>3, <3>4, <3>5, <3>6, FedResult,
                     ZenonT(30)
  <2>13. GaveEnd(f, g, id)
    <3>1. (Live(g, id) <=> q.easy \/ ~q.resolved) /\ (Live(g, id) => g.req[id] = q)
      BY <2>3, <2>12 DEF Live, Result
    <3>2. g.body[id] = v
      BY <2>12 DEF Result
    <3> QED BY <1>1, <1>9, <2>7, <2>8, <2>10, <2>12, <3>1, <3>2 DEF GaveEnd
  <2> QED BY <2>12, <2>13 DEF Tried, Result
<1>10. CASE q.chunks = <<>> /\ ~q.complete
  <2>1. PICK p : p = [q EXCEPT !.wait = TRUE]
    OBVIOUS
  <2>2. p \in Requests
    BY <1>2, <2>1 DEF Requests
  <2>3. PICK t : t = [f.req EXCEPT ![id] = p]
    OBVIOUS
  <2>4. /\ IsTable(t, Requests) /\ DOMAIN t = DOMAIN f.req /\ t[id] = p
        /\ \A d \in DOMAIN f.req : d # id => t[d] = f.req[d]
    BY <1>3, <2>2, <2>3, TableSet
  <2>5. g = [f EXCEPT !.req = t]
    BY <1>1, <1>4, <1>10, <2>1, <2>3 DEF TryRead
  <2>6. /\ g.req = t /\ g.body = f.body /\ g.jobs = f.jobs /\ KeepsRest(f, g)
        /\ g = [k \in Fields |-> g[k]]
    BY <1>2, <2>5 DEF Fields, KeepsRest
  <2>7. IsFetch(g)
    BY <2>4, <2>6 DEF IsFetch, KeepsRest
  <2>8. Elsewhere(f, g, id)
    <3>1. \A d \in Ids : d # id =>
             /\ Live(g, d) <=> Live(f, d)
             /\ Live(f, d) => g.req[d] = f.req[d]
             /\ Streaming(g, d) <=> Streaming(f, d)
             /\ Streaming(f, d) => g.body[d] = f.body[d]
      BY <2>4, <2>6 DEF Live, Streaming
    <3> QED BY <2>6, <3>1, OnlyOne
  <2>9. LeftCallback(f, g, id)
    BY <1>1, <1>3, <1>10, <2>1, <2>4, <2>6 DEF LeftCallback, Live
  <2> QED BY <1>3, <2>6, <2>7, <2>8, <2>9 DEF Tried, Streaming
<1> QED BY <1>8, <1>9, <1>10

\* The body's stream has called pull(), and nobody has answered yet.
Ready(f, id) ==
  LET q == f.req[id]
      r == f.body[id]
  IN  /\ id < f.next /\ Live(f, id) /\ Streaming(f, id) /\ f.told[id] = "response"
      /\ q.resolved /\ ~q.promise /\ ~q.wait
      /\ q.chunks # <<>> => q.received
      /\ ~q.received => f.sent[id] = 0
      /\ q.revoked <=> f.end[id] = "denied"
      /\ q.complete <=> f.end[id] # "running"
      /\ r.state = "readable" /\ ~r.closeRequested /\ r.started /\ ~r.asked /\ r.pullInProgress
      /\ ~JobOn(f, "pull", id)
      /\ r.pendingReads = 1 => r.queue = <<>> /\ ~JobOn(f, "read", id)
      /\ JobsAt(f, id)

KeepsWaiting(f, g, d) == /\ Connecting(g, d) <=> Connecting(f, d)
                         /\ Reading(g, d) <=> Reading(f, d)
                         /\ f.end[d] # "running" => g.end[d] = f.end[d]

Serving(f, g, id) ==
  /\ BodyAt(g, id) /\ JobsAt(g, id) /\ KeepsWaiting(f, g, id)
  /\ ~Live(g, id) => ~f.req[id].easy
  /\ Live(g, id) => LET q == f.req[id]
                        p == g.req[id]
                    IN  /\ p = [q EXCEPT !.chunks = p.chunks, !.wait = p.wait]
                        /\ p.chunks # <<>> => q.chunks # <<>>
                        /\ p.wait => ~q.complete /\ p.chunks = <<>>

LEMMA ReadyAsks ==
  ASSUME NEW f, NEW id \in Ids, Ready(f, id)
  PROVE  Asks(f, id)
<1>1. f.body[id].pendingReads = 1 => ~JobOn(f, "fetched", id)
  BY DEF Ready, JobsAt, Connecting, Reading
<1> QED BY <1>1 DEF Ready, Asks

\* The microtasks of a request of which one more kind or two are queued.
LEMMA MoreJobs ==
  ASSUME NEW f, NEW g, NEW d, NEW ok \in BOOLEAN, NEW c, Answered(f, g, d, ok, c)
  PROVE  /\ JobOn(g, "pull", d)
         /\ JobOn(g, "fetched", d) <=> JobOn(f, "fetched", d)
         /\ JobOn(g, "read", d) <=> JobOn(f, "read", d) \/ f.body[d].pendingReads = 1
         /\ \A j \in Of(g.jobs, d) : \/ j \in Of(f.jobs, d) \/ j.on = "pull"
                                     \/ j.on = "read" /\ j.ok = ok /\ j.chunk = c
<1>1. PICK a, e : a = FetchJob("read", d, ok, c) /\ e = FetchJob("pull", d, TRUE, 0)
  OBVIOUS
<1>2. a.on = "read" /\ a.ok = ok /\ a.chunk = c /\ e.on = "pull"
  BY <1>1 DEF FetchJob
<1>3. Of(g.jobs, d) = Of(f.jobs, d) \union {e}
        \union (IF f.body[d].pendingReads = 1 THEN {a} ELSE {})
  BY <1>1 DEF Answered
<1> QED BY <1>2, <1>3 DEF JobOn

LEMMA ServedBody ==
  ASSUME NEW f, IsFetch(f), NEW id \in Ids, Ready(f, id), NEW g, Tried(f, g, id)
  PROVE  Serving(f, g, id)
<1>1. PICK q, r : q = f.req[id] /\ r = f.body[id]
  OBVIOUS
<1>2. q \in Requests /\ r \in Readables
  BY <1>1 DEF IsFetch, IsTable, Ready, Live, Streaming
<1>3. Streaming(g, id) /\ Streaming(f, id) /\ KeepsRest(f, g)
  BY DEF Tried, Ready
<1>4. r.pendingReads \in {0, 1} /\ q.revoked \in BOOLEAN /\ q.complete \in BOOLEAN
  BY <1>2 DEF Readables, Requests
<1>5. CASE GaveChunk(f, g, id)
  <2>1. PICK c, b, p : c = Head(q.chunks) /\ b = g.body[id] /\ p = g.req[id]
    OBVIOUS
  <2>2. c \in Nat /\ c # 0
    <3>1. q.chunks \in Seq(Chunks) /\ q.chunks # <<>>
      BY <1>1, <1>2, <1>5 DEF Requests, GaveChunk
    <3>2. Head(q.chunks) \in Chunks
      BY <3>1, HeadTailProperties
    <3> QED BY <2>1, <3>2 DEF Chunks
  <2>3. /\ Live(g, id) /\ p = [q EXCEPT !.chunks = Tail(@)] /\ q.chunks # <<>>
        /\ b = IF r.pendingReads = 1 THEN [r EXCEPT !.pendingReads = 0]
               ELSE [r EXCEPT !.queue = Append(@, c)]
    BY <1>1, <1>5, <2>1 DEF GaveChunk
  <2>4. PICK ok \in BOOLEAN : ok
    OBVIOUS
  <2>4a. Answered(f, g, id, ok, c)
    <3>1. ok = TRUE
      BY <2>4
    <3> QED BY <1>1, <1>5, <2>1, <3>1 DEF GaveChunk
  <2>5. /\ JobOn(g, "pull", id)
        /\ JobOn(g, "fetched", id) <=> JobOn(f, "fetched", id)
        /\ JobOn(g, "read", id) <=> JobOn(f, "read", id) \/ r.pendingReads = 1
        /\ \A j \in Of(g.jobs, id) : \/ j \in Of(f.jobs, id) \/ j.on = "pull"
                                     \/ j.on = "read" /\ j.ok = ok /\ j.chunk = c
    BY <1>1, <2>4a, MoreJobs
  <2>6. /\ b.state = r.state /\ b.closeRequested = r.closeRequested /\ b.started = r.started
        /\ b.asked = r.asked /\ b.pullInProgress = r.pullInProgress /\ b.pendingReads = 0
    BY <1>2, <1>4, <2>3 DEF Readables
  <2>7. /\ p.wait = q.wait /\ p = [q EXCEPT !.chunks = p.chunks, !.wait = p.wait]
    BY <1>2, <2>3 DEF Requests
  <2>8. ~Waits(g, id)
    BY <1>1, <2>1, <2>7 DEF Waits, Ready
  <2>9. BodyAt(g, id)
    <3>1. PullAt(g, id)
      BY <1>1, <2>1, <2>5, <2>6, <2>8 DEF PullAt, Ready
    <3> QED BY <1>1, <1>3, <2>1, <2>3, <2>6, <3>1 DEF BodyAt, Ready, KeepsRest
  <2>10. KeepsWaiting(f, g, id)
    BY <1>1, <1>3, <2>1, <2>5, <2>6 DEF KeepsWaiting, Connecting, Reading, KeepsRest
  <2>11. JobsAt(g, id)
    <3>1. \A j \in Of(g.jobs, id) : JobAt(g, id, j)
      BY <1>3, <2>2, <2>4, <2>5 DEF Ready, JobsAt, JobAt, KeepsRest
    <3>2. ~(Connecting(g, id) /\ Reading(g, id))
      BY <2>10 DEF KeepsWaiting, Ready, JobsAt
    <3> QED BY <1>3, <2>5, <3>1, <3>2 DEF Ready, JobsAt, KeepsRest
  <2> QED BY <1>1, <2>1, <2>3, <2>7, <2>8, <2>9, <2>10, <2>11 DEF Serving, Waits
<1>6. CASE GaveEnd(f, g, id)
  <2>1. PICK b, p : b = g.body[id] /\ p = g.req[id]
    OBVIOUS
  <2>2. PICK ok \in BOOLEAN : ok <=> ~q.revoked
    OBVIOUS
  <2>3. /\ q.chunks = <<>> /\ q.complete /\ (Live(g, id) <=> q.easy \/ ~q.resolved)
        /\ Live(g, id) => p = q
    BY <1>1, <1>6, <2>1 DEF GaveEnd
  <2>4. /\ b.pendingReads = 0 /\ b.started = r.started /\ b.asked = r.asked
        /\ b.pullInProgress = r.pullInProgress
        /\ q.revoked => b.state = "errored" /\ b.closeRequested = r.closeRequested
        /\ ~q.revoked => b.state = "closed" /\ b.closeRequested
    <3>1. CASE q.revoked
      <4>1. b = [r EXCEPT !.state = "errored", !.pendingReads = 0]
        BY <1>1, <1>6, <2>1, <3>1 DEF GaveEnd
      <4> QED BY <1>2, <3>1, <4>1 DEF Readables
    <3>2. CASE ~q.revoked
      <4>1. b = [r EXCEPT !.closeRequested = TRUE, !.state = "closed", !.pendingReads = 0]
        BY <1>1, <1>6, <2>1, <3>2 DEF GaveEnd
      <4> QED BY <1>2, <3>2, <4>1 DEF Readables
    <3> QED BY <3>1, <3>2
  <2>5. Answered(f, g, id, ok, 0)
    <3>1. q.revoked => ok = FALSE
      BY <2>2
    <3>2. ~q.revoked => ok = TRUE
      BY <2>2
    <3> QED BY <1>1, <1>6, <3>1, <3>2 DEF GaveEnd
  <2>6. /\ JobOn(g, "pull", id)
        /\ JobOn(g, "fetched", id) <=> JobOn(f, "fetched", id)
        /\ JobOn(g, "read", id) <=> JobOn(f, "read", id) \/ r.pendingReads = 1
        /\ \A j \in Of(g.jobs, id) : \/ j \in Of(f.jobs, id) \/ j.on = "pull"
                                     \/ j.on = "read" /\ j.ok = ok /\ j.chunk = 0
    BY <1>1, <2>5, MoreJobs
  <2>7. ~Waits(g, id) /\ (Live(g, id) => ~p.wait)
    BY <1>1, <2>1, <2>3 DEF Waits, Ready
  <2>8. f.end[id] # "running" /\ (f.end[id] = "denied" <=> q.revoked)
    BY <1>1, <2>3 DEF Ready
  <2>9. BodyAt(g, id)
    <3>1. PullAt(g, id)
      BY <1>1, <2>1, <2>4, <2>6, <2>7 DEF PullAt, Ready
    <3>2. /\ b.closeRequested <=> b.state = "closed"
          /\ b.state # "readable"
      BY <1>1, <2>4 DEF Ready
    <3> QED BY <1>1, <1>3, <2>1, <2>3, <2>4, <2>8, <3>1, <3>2 DEF BodyAt, Ready, KeepsRest
  <2>10. KeepsWaiting(f, g, id)
    BY <1>1, <1>3, <2>1, <2>4, <2>6 DEF KeepsWaiting, Connecting, Reading, KeepsRest
  <2>11. JobsAt(g, id)
    <3>1. \A j \in Of(g.jobs, id) : JobAt(g, id, j)
      BY <1>3, <2>2, <2>6, <2>8 DEF Ready, JobsAt, JobAt, KeepsRest
    <3>2. ~(Connecting(g, id) /\ Reading(g, id))
      BY <2>10 DEF KeepsWaiting, Ready, JobsAt
    <3> QED BY <1>3, <2>6, <3>1, <3>2 DEF Ready, JobsAt, KeepsRest
  <2>12. Live(g, id) => p = [q EXCEPT !.chunks = p.chunks, !.wait = p.wait]
    BY <1>2, <2>3 DEF Requests
  <2>13. ~Live(g, id) => ~q.easy
    BY <2>3
  <2> QED BY <1>1, <2>1, <2>3, <2>7, <2>9, <2>10, <2>11, <2>12, <2>13 DEF Serving
<1>7. CASE LeftCallback(f, g, id)
  <2>1. PICK p : p = g.req[id]
    OBVIOUS
  <2>2. /\ Live(g, id) /\ p = [q EXCEPT !.wait = TRUE] /\ q.chunks = <<>> /\ ~q.complete
        /\ g.body[id] = r /\ Of(g.jobs, id) = Of(f.jobs, id)
    BY <1>1, <1>7, <2>1 DEF LeftCallback
  <2>3. p.chunks = q.chunks /\ p.wait /\ p = [q EXCEPT !.chunks = p.chunks, !.wait = p.wait]
    BY <1>2, <2>2 DEF Requests
  <2>4. \A on : JobOn(g, on, id) <=> JobOn(f, on, id)
    BY <2>2 DEF JobOn
  <2>5. Waits(g, id)
    BY <2>1, <2>2, <2>3 DEF Waits
  <2>6. BodyAt(g, id)
    <3>1. PullAt(g, id)
      BY <1>1, <2>2, <2>4, <2>5 DEF PullAt, Ready
    <3> QED BY <1>1, <1>3, <2>2, <3>1 DEF BodyAt, Ready, KeepsRest
  <2>7. KeepsWaiting(f, g, id)
    BY <1>1, <1>3, <2>2, <2>4 DEF KeepsWaiting, Connecting, Reading, KeepsRest
  <2>8. JobsAt(g, id)
    <3>1. ~(Connecting(g, id) /\ Reading(g, id))
      BY <2>7 DEF KeepsWaiting, Ready, JobsAt
    <3> QED BY <1>3, <2>2, <2>4, <3>1 DEF Ready, JobsAt, JobAt, KeepsRest
  <2> QED BY <1>1, <2>1, <2>2, <2>3, <2>6, <2>7, <2>8 DEF Serving
<1> QED BY <1>5, <1>6, <1>7 DEF Tried

LEMMA ElsewhereTwice ==
  ASSUME NEW f, NEW g, NEW h, NEW id, Elsewhere(f, g, id), Elsewhere(g, h, id)
  PROVE  Elsewhere(f, h, id)
<1> SUFFICES ASSUME NEW d \in Ids, d # id PROVE Same(f, h, d)
  BY DEF Elsewhere
<1>1. Same(f, g, d) /\ Same(g, h, d)
  BY DEF Elsewhere
<1> QED BY <1>1 DEF Same

\* The stream of a body has become r and settled one read, or none.
Put(f, g, id, r, settled, ok, c) ==
  /\ IsFetch(g) /\ Once(g.jobs) /\ KeepsRest(f, g) /\ Elsewhere(f, g, id)
  /\ g.req = f.req /\ Streaming(g, id) /\ g.body[id] = r
  /\ Of(g.jobs, id) = Of(f.jobs, id) \union
                        (IF settled THEN {FetchJob("read", id, ok, c)} ELSE {})

WithBody(f, b, js) == [f EXCEPT !.body = b, !.jobs = js]

LEMMA SetBody ==
  ASSUME NEW f, IsFetch(f), NEW id \in Ids, Streaming(f, id), NEW r \in Readables,
         NEW js \in Seq(Jobs), Once(js), \A d : d # id => Of(js, d) = Of(f.jobs, d),
         NEW b, b = [f.body EXCEPT ![id] = r],
         NEW g, g = WithBody(f, b, js)
  PROVE  /\ IsFetch(g) /\ Once(g.jobs) /\ KeepsRest(f, g) /\ Elsewhere(f, g, id)
         /\ g.req = f.req /\ Streaming(g, id) /\ g.body[id] = r /\ g.jobs = js
<1>1. f = [k \in Fields |-> f[k]]
  BY DEF IsFetch
<1>3. /\ IsTable(b, Readables) /\ DOMAIN b = DOMAIN f.body /\ b[id] = r
      /\ \A d \in DOMAIN f.body : d # id => b[d] = f.body[d]
  <2>1. id \in DOMAIN f.body /\ IsTable(f.body, Readables)
    BY DEF Streaming, IsFetch
  <2> QED BY <2>1, TableSet
<1>4. /\ g.req = f.req /\ g.body = b /\ g.jobs = js /\ KeepsRest(f, g)
      /\ g = [k \in Fields |-> g[k]]
  BY <1>1 DEF Fields, KeepsRest, WithBody
<1>5. IsFetch(g)
  BY <1>3, <1>4 DEF IsFetch, KeepsRest
<1>6. Elsewhere(f, g, id)
  <2>1. \A d \in Ids : d # id =>
           /\ Live(g, d) <=> Live(f, d)
           /\ Live(f, d) => g.req[d] = f.req[d]
           /\ Streaming(g, d) <=> Streaming(f, d)
           /\ Streaming(f, d) => g.body[d] = f.body[d]
    BY <1>3, <1>4 DEF Live, Streaming
  <2> QED BY <1>4, <2>1, OnlyOne
<1> QED BY <1>3, <1>4, <1>5, <1>6 DEF Streaming

LEMMA PutDoes ==
  ASSUME NEW f, IsFetch(f), Once(f.jobs), NEW id \in Ids, Streaming(f, id),
         NEW r \in Readables, NEW settled \in BOOLEAN, NEW ok \in BOOLEAN, NEW c \in Nat,
         settled => ~JobOn(f, "read", id) /\ ~JobOn(f, "fetched", id),
         NEW s, s.r = r, s.jobs = Reactions(settled, ok, c),
         NEW g, g = PutBody(f, id, s)
  PROVE  Put(f, g, id, r, settled, ok, c)
<1> DEFINE reactions == s.jobs
<1>0. /\ settled => reactions = <<Reaction("read", ok, c)>> /\ reactions # <<>>
      /\ ~settled => reactions = <<>>
  BY DEF Reactions
<1> HIDE DEF reactions
<1>1. f = [k \in Fields |-> f[k]] /\ f.jobs \in Seq(Jobs)
  BY DEF IsFetch
<1>2. PICK a : a = FetchJob("read", id, ok, c)
  OBVIOUS
<1>4. a \in Jobs /\ a.on = "read" /\ a.id = id
  BY <1>2 DEF FetchJob, Jobs
<1>5. PICK ks : ks = IF settled THEN Append(f.jobs, a) ELSE f.jobs
  OBVIOUS
<1>6. g = [f EXCEPT !.body = [f.body EXCEPT ![id] = r], !.jobs = ks]
  <2>1. PICK ts : ts = [i \in DOMAIN reactions |->
                          FetchJob(reactions[i].on, id, reactions[i].ok, reactions[i].chunk)]
    OBVIOUS
  <2>2. CASE ~settled
    <3>1. ts = <<>>
      BY <1>0, <2>1, <2>2
    <3>2. f.jobs \o ts = ks
      BY <1>1, <1>5, <2>2, <3>1
    <3> QED BY <2>1, <3>2 DEF PutBody, reactions
  <2>3. CASE settled
    <3>1. ts = <<a>>
      BY <1>0, <1>2, <2>1, <2>3 DEF Reaction
    <3>2. settled
      BY <2>3
    <3>3. f.jobs \o ts = ks
      BY <1>1, <1>4, <1>5, <3>1, <3>2
    <3> QED BY <2>1, <3>3 DEF PutBody, reactions
  <2> QED BY <2>2, <2>3
<1>9. /\ ks \in Seq(Jobs) /\ Once(ks)
      /\ Of(ks, id) = Of(f.jobs, id) \union (IF settled THEN {a} ELSE {})
      /\ \A d : d # id => Of(ks, d) = Of(f.jobs, d)
  <2>1. CASE ~settled
    BY <1>1, <1>5, <2>1
  <2>2. CASE settled
    <3>1. ~JobOn(f, "read", id) /\ ~JobOn(f, "fetched", id)
      BY <2>2
    <3>2. ASSUME NEW b \in Of(f.jobs, id) PROVE ~SameLane(b, a)
      <4>1. b.on # "read" /\ b.on # "fetched"
        BY <3>1 DEF JobOn
      <4>2. b.on # "threw" /\ b \in Jobs
        BY <1>1, OfRequest
      <4>3. b.on = "pull"
        BY <4>1, <4>2 DEF Jobs
      <4> QED BY <1>4, <4>3 DEF SameLane
    <3>3. a.on # "threw"
      BY <1>4
    <3>4. PICK js : js = f.jobs
      OBVIOUS
    <3>5. js \in Seq(Jobs) /\ Once(js) /\ \A b \in Of(js, a.id) : ~SameLane(b, a)
      BY <1>1, <1>4, <3>2, <3>4
    <3>6. /\ Append(js, a) \in Seq(Jobs) /\ Once(Append(js, a))
          /\ Of(Append(js, a), a.id) = Of(js, a.id) \union {a}
          /\ \A d : d # a.id => Of(Append(js, a), d) = Of(js, d)
      BY ONLY <1>4, <3>3, <3>5, JobAppended
    <3> QED BY <1>4, <1>5, <2>2, <3>4, <3>6
  <2> QED BY <2>1, <2>2
<1>10. /\ IsFetch(g) /\ Once(g.jobs) /\ KeepsRest(f, g) /\ Elsewhere(f, g, id)
       /\ g.req = f.req /\ Streaming(g, id) /\ g.body[id] = r /\ g.jobs = ks
  <2>1. ks \in Seq(Jobs) /\ Once(ks) /\ \A d : d # id => Of(ks, d) = Of(f.jobs, d)
    BY <1>9
  <2>2. IsFetch(f) /\ id \in Ids /\ Streaming(f, id) /\ r \in Readables
    OBVIOUS
  <2>3. PICK b : b = [f.body EXCEPT ![id] = r]
    OBVIOUS
  <2>4. g = WithBody(f, b, ks)
    BY <1>6, <2>3 DEF WithBody
  <2> QED BY ONLY <2>1, <2>2, <2>3, <2>4, SetBody
<1> QED BY <1>2, <1>9, <1>10 DEF Put

\* Serve after a step of the stream: either nothing was asked for, or the source answers.
LEMMA ServeDoes ==
  ASSUME NEW f, IsFetch(f), Once(f.jobs), NEW id \in Ids, Streaming(f, id),
         NEW r \in Readables, NEW settled \in BOOLEAN, NEW ok \in BOOLEAN, NEW c \in Nat,
         settled => ~JobOn(f, "read", id) /\ ~JobOn(f, "fetched", id),
         NEW s, s.r = r, s.jobs = Reactions(settled, ok, c),
         NEW g, g = Serve(PutBody(f, id, s), id)
  PROVE  /\ ~r.asked => Put(f, g, id, r, settled, ok, c)
         /\ r.asked => \E e : /\ Put(f, e, id, [r EXCEPT !.asked = FALSE], settled, ok, c)
                              /\ g = TryRead(e, id)
<1>1. PICK h : h = PutBody(f, id, s)
  OBVIOUS
<1>2. Put(f, h, id, r, settled, ok, c)
  BY <1>1, PutDoes
<1>3. /\ h = [k \in Fields |-> h[k]] /\ h.jobs \in Seq(Jobs) /\ Once(h.jobs)
      /\ Streaming(h, id) /\ h.body[id] = r /\ IsFetch(h)
  BY <1>2 DEF Put, IsFetch
<1>4. CASE ~r.asked
  BY <1>1, <1>2, <1>3, <1>4 DEF Serve
<1>5. CASE r.asked
  <2>1. PICK b : b = [r EXCEPT !.asked = FALSE]
    OBVIOUS
  <2>2. b \in Readables
    BY <2>1 DEF Readables
  <2>3. PICK js : js = h.jobs
    OBVIOUS
  <2>3a. PICK t : t = [h.body EXCEPT ![id] = b]
    OBVIOUS
  <2>4. PICK e : e = WithBody(h, t, js)
    OBVIOUS
  <2>5. e = [h EXCEPT !.body[id].asked = FALSE]
    BY <1>3, <2>1, <2>3, <2>3a, <2>4 DEF Fields, WithBody
  <2>6. g = TryRead(e, id)
    BY <1>1, <1>3, <1>5, <2>5 DEF Serve
  <2>7. /\ IsFetch(e) /\ Once(e.jobs) /\ KeepsRest(h, e) /\ Elsewhere(h, e, id)
        /\ e.req = h.req /\ Streaming(e, id) /\ e.body[id] = b /\ e.jobs = js
    <3>1. IsFetch(h) /\ id \in Ids /\ Streaming(h, id)
      BY <1>3
    <3>2. js \in Seq(Jobs) /\ Once(js) /\ \A d : d # id => Of(js, d) = Of(h.jobs, d)
      BY <1>3, <2>3
    <3> QED BY ONLY <2>2, <2>3a, <2>4, <3>1, <3>2, SetBody
  <2>8. Elsewhere(f, e, id)
    <3>1. Elsewhere(f, h, id)
      BY <1>2 DEF Put
    <3> QED BY <2>7, <3>1, ElsewhereTwice
  <2>9. Put(f, e, id, b, settled, ok, c)
    BY <1>2, <2>3, <2>7, <2>8 DEF Put, KeepsRest
  <2> QED BY <1>5, <2>1, <2>6, <2>9
<1> QED BY <1>4, <1>5

\* read() of a stream nobody else reads: what becomes of it, and the read it settles.
WasRead(r, b, settled, ok, c) ==
  /\ b.state = r.state /\ b.closeRequested = r.closeRequested /\ b.started = r.started
  /\ settled => b.pendingReads = 0
  /\ ~settled => b.pendingReads = 1 /\ b.queue = <<>> /\ r.state = "readable"
  /\ settled => \/ ok /\ c # 0
                \/ c = 0 /\ r.state = "closed" /\ ok
                \/ c = 0 /\ r.state = "errored" /\ ~ok
  /\ b.asked => ~r.pullInProgress /\ b.pullInProgress /\ r.state = "readable"
  /\ ~b.asked => /\ b.pullInProgress = r.pullInProgress
                 /\ ~settled => b.pullInProgress /\ b.pullAgain

LEMMA PullIfNeededDoes ==
  ASSUME NEW r \in Readables, r.started, ~r.asked, NEW b, b = PullIfNeeded(r)
  PROVE  /\ b \in Readables
         /\ b.state = r.state /\ b.closeRequested = r.closeRequested /\ b.started = r.started
         /\ b.pendingReads = r.pendingReads /\ b.queue = r.queue
         /\ b.asked => ~r.pullInProgress /\ b.pullInProgress /\ r.state = "readable"
         /\ ~b.asked => /\ b.pullInProgress = r.pullInProgress
                        /\ r.pullInProgress => b.pullAgain
                        /\ ~r.pullInProgress => ~(r.state = "readable" /\ r.pendingReads = 1)
<1>1. CASE r.pullInProgress
  <2>1. b = [r EXCEPT !.pullAgain = TRUE]
    BY <1>1 DEF PullIfNeeded
  <2> QED BY <1>1, <2>1 DEF Readables
<1>2. CASE /\ ~r.pullInProgress /\ r.state = "readable"
           /\ r.pendingReads > 0 \/ (r.queue = <<>> /\ ~r.closeRequested)
  <2>1. b = [r EXCEPT !.pullInProgress = TRUE, !.asked = TRUE]
    BY <1>2 DEF PullIfNeeded
  <2> QED BY <1>2, <2>1 DEF Readables
<1>3. CASE /\ ~r.pullInProgress
           /\ ~(/\ r.state = "readable"
                /\ r.pendingReads > 0 \/ (r.queue = <<>> /\ ~r.closeRequested))
  <2>1. b = r
    BY <1>3 DEF PullIfNeeded
  <2>2. r.pendingReads = 1 => r.pendingReads > 0
    OBVIOUS
  <2> QED BY <1>3, <2>1, <2>2
<1> QED BY <1>1, <1>2, <1>3

LEMMA ReadDoes ==
  ASSUME NEW r \in Readables, r.started, ~r.asked, r.pendingReads = 0, NEW s, s = Read(r)
  PROVE  \E settled \in BOOLEAN, ok \in BOOLEAN, c \in Nat :
           /\ s.jobs = Reactions(settled, ok, c) /\ s.r \in Readables
           /\ WasRead(r, s.r, settled, ok, c)
<1>1. CASE r.queue # <<>>
  <2>1. PICK a : a = [r EXCEPT !.queue = Tail(@)]
    OBVIOUS
  <2>2. PICK c : c = Head(r.queue)
    OBVIOUS
  <2>3. c \in Nat /\ c # 0 /\ a \in Readables
    <3>1. r.queue \in Seq(Chunks)
      BY DEF Readables
    <3>2. Head(r.queue) \in Chunks /\ Tail(r.queue) \in Seq(Chunks)
      BY <1>1, <3>1, HeadTailProperties
    <3> QED BY <2>1, <2>2, <3>2 DEF Readables, Chunks
  <2>4. PICK b : b = PullIfNeeded(a)
    OBVIOUS
  <2>5. PICK w : w = <<Reaction("read", TRUE, c)>>
    OBVIOUS
  <2>6. s = Step(b, w)
    BY <1>1, <2>1, <2>2, <2>4, <2>5 DEF Read, Value
  <2>7. s.r = b /\ s.jobs = w
    BY <2>6 DEF Step
  <2>8. a.started /\ ~a.asked /\ a.pendingReads = 0 /\ a.state = r.state
        /\ a.closeRequested = r.closeRequested /\ a.started = r.started
        /\ a.pullInProgress = r.pullInProgress
    BY <2>1 DEF Readables
  <2>9. /\ b \in Readables
        /\ b.state = a.state /\ b.closeRequested = a.closeRequested /\ b.started = a.started
        /\ b.pendingReads = a.pendingReads /\ b.queue = a.queue
        /\ b.asked => ~a.pullInProgress /\ b.pullInProgress /\ a.state = "readable"
        /\ ~b.asked => b.pullInProgress = a.pullInProgress
    BY ONLY <2>3, <2>4, <2>8, PullIfNeededDoes
  <2>10. PICK settled \in BOOLEAN, ok \in BOOLEAN : settled = TRUE /\ ok = TRUE
    OBVIOUS
  <2>11. WasRead(r, b, settled, ok, c)
    BY <2>3, <2>8, <2>9, <2>10 DEF WasRead
  <2>12. w = Reactions(settled, ok, c)
    BY <2>5, <2>10 DEF Reactions
  <2> QED BY <2>3, <2>7, <2>9, <2>11, <2>12
<1>2. CASE r.queue = <<>> /\ r.state # "readable"
  <2>1. r.state = "closed" \/ r.state = "errored"
    BY <1>2 DEF Readables
  <2>2. PICK settled \in BOOLEAN : settled = TRUE
    OBVIOUS
  <2>3. PICK ok \in BOOLEAN : ok = (r.state = "closed")
    OBVIOUS
  <2>4. PICK w : w = <<Reaction("read", ok, 0)>>
    OBVIOUS
  <2>5. s = Step(r, w)
    <3>1. CASE r.state = "closed"
      <4>1. ok = TRUE
        BY <2>3, <3>1
      <4> QED BY <1>2, <2>4, <3>1, <4>1 DEF Read, Done
    <3>2. CASE r.state = "errored"
      <4>1. ok = FALSE
        BY <2>3, <3>2
      <4> QED BY <1>2, <2>4, <3>2, <4>1 DEF Read, Failed
    <3> QED BY <2>1, <3>1, <3>2
  <2>6. s.r = r /\ s.jobs = w
    BY <2>5 DEF Step
  <2>7. WasRead(r, r, settled, ok, 0)
    BY <1>2, <2>1, <2>2, <2>3 DEF WasRead
  <2>8. w = Reactions(settled, ok, 0)
    BY <2>2, <2>4 DEF Reactions
  <2> QED BY <2>6, <2>7, <2>8
<1>3. CASE r.queue = <<>> /\ r.state = "readable"
  <2>0. r.pendingReads + 1 = 1
    OBVIOUS
  <2>1. PICK a : a = [r EXCEPT !.pendingReads = 1]
    OBVIOUS
  <2>2. /\ a \in Readables /\ a.started /\ ~a.asked /\ a.pendingReads = 1 /\ a.state = r.state
        /\ a.closeRequested = r.closeRequested /\ a.started = r.started
        /\ a.pullInProgress = r.pullInProgress /\ a.queue = <<>>
    BY <1>3, <2>1 DEF Readables
  <2>3. PICK b : b = PullIfNeeded(a)
    OBVIOUS
  <2>4. s = Step(b, <<>>)
    BY <1>3, <2>0, <2>1, <2>3 DEF Read
  <2>5. s.r = b /\ s.jobs = <<>>
    BY <2>4 DEF Step
  <2>6. /\ b \in Readables
        /\ b.state = a.state /\ b.closeRequested = a.closeRequested /\ b.started = a.started
        /\ b.pendingReads = a.pendingReads /\ b.queue = a.queue
        /\ b.asked => ~a.pullInProgress /\ b.pullInProgress /\ a.state = "readable"
        /\ ~b.asked => /\ b.pullInProgress = a.pullInProgress
                       /\ a.pullInProgress => b.pullAgain
                       /\ ~a.pullInProgress => ~(a.state = "readable" /\ a.pendingReads = 1)
    BY <2>2, <2>3, PullIfNeededDoes
  <2>7. PICK settled \in BOOLEAN, ok \in BOOLEAN : settled = FALSE /\ ok = FALSE
    OBVIOUS
  <2>8. WasRead(r, b, settled, ok, 0)
    BY <1>3, <2>2, <2>6, <2>7 DEF WasRead, Readables
  <2>9. s.jobs = Reactions(settled, ok, 0)
    BY <2>5, <2>7 DEF Reactions
  <2> QED BY <2>5, <2>6, <2>8, <2>9
<1> QED BY <1>1, <1>2, <1>3

\* The promise of pull() is resolved, and no read is served before its turn.
LEMMA PulledDoes ==
  ASSUME NEW r \in Readables, r.started, ~r.asked, r.pullInProgress,
         r.pendingReads = 1 => r.pullAgain /\ r.state = "readable",
         NEW s, s = Pulled(r, TRUE)
  PROVE  LET b == s.r
         IN  /\ s.jobs = <<>> /\ b \in Readables
             /\ b.state = r.state /\ b.closeRequested = r.closeRequested
             /\ b.started = r.started /\ b.pendingReads = r.pendingReads /\ b.queue = r.queue
             /\ b.asked => b.pullInProgress /\ r.state = "readable"
             /\ ~b.asked => ~b.pullInProgress /\ b.pendingReads = 0
<1>1. PICK idle : idle = [r EXCEPT !.pullInProgress = FALSE]
  OBVIOUS
<1>2. CASE ~r.pullAgain
  <2>1. s = Step(idle, <<>>)
    BY <1>1, <1>2 DEF Pulled
  <2>2. s.r = idle /\ s.jobs = <<>>
    BY ONLY <2>1 DEF Step
  <2>3. r \in Readables /\ r.started /\ ~r.asked /\ (r.pendingReads = 1 => r.pullAgain)
    OBVIOUS
  <2>4. /\ idle \in Readables /\ idle.state = r.state /\ idle.closeRequested = r.closeRequested
        /\ idle.started = r.started /\ idle.pendingReads = r.pendingReads
        /\ idle.queue = r.queue /\ ~idle.asked /\ ~idle.pullInProgress
    BY ONLY <1>1, <2>3 DEF Readables
  <2>5. idle.pendingReads = 0
    BY ONLY <1>2, <2>3, <2>4 DEF Readables
  <2> QED BY <2>2, <2>4, <2>5
<1>3. CASE r.pullAgain
  <2>1. PICK a : a = [idle EXCEPT !.pullAgain = FALSE]
    OBVIOUS
  <2>2. PICK b : b = PullIfNeeded(a)
    OBVIOUS
  <2>3. s = Step(b, <<>>)
    BY <1>1, <1>3, <2>1, <2>2 DEF Pulled
  <2>4. s.r = b /\ s.jobs = <<>>
    BY ONLY <2>3 DEF Step
  <2>5. /\ a \in Readables /\ a.started /\ ~a.asked /\ ~a.pullInProgress
        /\ a.state = r.state /\ a.closeRequested = r.closeRequested /\ a.started = r.started
        /\ a.pendingReads = r.pendingReads /\ a.queue = r.queue
    BY <1>1, <2>1 DEF Readables
  <2>6. /\ b \in Readables
        /\ b.state = a.state /\ b.closeRequested = a.closeRequested /\ b.started = a.started
        /\ b.pendingReads = a.pendingReads /\ b.queue = a.queue
        /\ b.asked => ~a.pullInProgress /\ b.pullInProgress /\ a.state = "readable"
        /\ ~b.asked => /\ b.pullInProgress = a.pullInProgress
                       /\ ~a.pullInProgress => ~(a.state = "readable" /\ a.pendingReads = 1)
    BY ONLY <2>2, <2>5, PullIfNeededDoes
  <2>7. ~b.asked => b.pendingReads = 0
    BY <2>5, <2>6 DEF Readables
  <2> QED BY <2>4, <2>5, <2>6, <2>7
<1> QED BY <1>2, <1>3

Moved(f, g, id) == /\ IsFetch(g) /\ Once(g.jobs) /\ Injective(g.pending)
                   /\ Elsewhere(f, g, id) /\ Core(g, id)

\* What a body is beside the pull that is under way.
StreamAt(f, d) ==
  LET r == f.body[d]
  IN  /\ f.told[d] = "response" /\ r.started /\ ~r.asked
      /\ r.closeRequested <=> r.state = "closed"
      /\ r.state = "closed" => /\ f.end[d] \notin {"running", "denied"}
                               /\ Live(f, d) => f.req[d].chunks = <<>>
      /\ r.state = "errored" => f.end[d] = "denied"
      /\ r.state = "readable" => Live(f, d)

LEMMA ServingCore ==
  ASSUME NEW e, IsFetch(e), NEW id \in Ids, id < e.next, Live(e, id), Streaming(e, id),
         e.told[id] # "nothing", ReqAt(e, id),
         NEW g, IsFetch(g), KeepsRest(e, g), Streaming(g, id), Serving(e, g, id)
  PROVE  Core(g, id) /\ (Prompt(e, id) => Prompt(g, id)) /\ Calm(g, id)
<1>3. PICK q, p : q = e.req[id] /\ p = g.req[id]
  OBVIOUS
<1>4. q \in Requests
  BY <1>3 DEF IsFetch, IsTable, Live
<1>5. Live(g, id) => /\ p = [q EXCEPT !.chunks = p.chunks, !.wait = p.wait]
                     /\ p.chunks # <<>> => q.chunks # <<>>
                     /\ p.wait => ~q.complete /\ p.chunks = <<>>
  BY <1>3 DEF Serving
<1>6. Live(g, id) => /\ p.easy = q.easy /\ p.held = q.held /\ p.promise = q.promise
                     /\ p.resolved = q.resolved /\ p.complete = q.complete
                     /\ p.received = q.received /\ p.revoked = q.revoked
  BY <1>4, <1>5 DEF Requests
<1>7. Live(g, id) => ReqAt(g, id)
  BY <1>3, <1>4, <1>5, <1>6 DEF ReqAt, KeepsRest, Requests
<1>8. ~Live(g, id) => GoneAt(g, id)
  BY <1>3, <1>4 DEF GoneAt, KeepsRest, Serving, ReqAt, Requests
<1>9. e.next \in Nat /\ g.next = e.next /\ id \in Nat
  <2>1. MaxRequests \in Nat
    BY FetchAssumption
  <2> QED BY <2>1 DEF IsFetch, KeepsRest, Ids
<1>10. ~(id >= g.next)
  BY <1>9
<1>11. BodyAt(g, id) /\ JobsAt(g, id)
  BY DEF Serving
<1>12. Core(g, id)
  BY <1>7, <1>8, <1>10, <1>11 DEF Core
<1>13. Prompt(e, id) => Prompt(g, id)
  BY <1>3, <1>6 DEF Prompt
<1>14. Calm(g, id)
  BY <1>3, <1>5 DEF Calm, Waits
<1> QED BY <1>12, <1>13, <1>14

LEMMA ServedCore ==
  ASSUME NEW e, IsFetch(e), NEW id \in Ids, Ready(e, id), ReqAt(e, id), Prompt(e, id),
         NEW g, Tried(e, g, id)
  PROVE  Core(g, id) /\ Prompt(g, id) /\ Calm(g, id) /\ KeepsWaiting(e, g, id)
<1>1. Serving(e, g, id)
  BY ServedBody
<1>2. KeepsRest(e, g) /\ Streaming(g, id) /\ Live(e, id) /\ id < e.next /\ Streaming(e, id)
      /\ IsFetch(g) /\ e.told[id] # "nothing"
  BY DEF Tried, Ready
<1>3. Core(g, id) /\ (Prompt(e, id) => Prompt(g, id)) /\ Calm(g, id)
  BY <1>1, <1>2, ServingCore
<1> QED BY <1>1, <1>3 DEF Serving

LEMMA QueueDoes ==
  ASSUME NEW f, IsFetch(f), Once(f.jobs), NEW id \in Ids, NEW j \in Jobs, j.id = id,
         j.on # "threw", \A a \in Of(f.jobs, id) : ~SameLane(a, j),
         NEW g, g = Queue(f, j)
  PROVE  /\ IsFetch(g) /\ Once(g.jobs) /\ KeepsRest(f, g) /\ Elsewhere(f, g, id)
         /\ g.req = f.req /\ g.body = f.body /\ Of(g.jobs, id) = Of(f.jobs, id) \union {j}
<1>1. f = [k \in Fields |-> f[k]] /\ f.jobs \in Seq(Jobs)
  BY DEF IsFetch
<1>2. PICK js, ks : js = f.jobs /\ ks = Append(js, j)
  OBVIOUS
<1>3. js \in Seq(Jobs) /\ Once(js) /\ \A a \in Of(js, j.id) : ~SameLane(a, j)
  BY <1>1, <1>2
<1>4. j \in Jobs /\ j.on # "threw"
  OBVIOUS
<1>5. /\ Append(js, j) \in Seq(Jobs) /\ Once(Append(js, j))
      /\ Of(Append(js, j), j.id) = Of(js, j.id) \union {j}
      /\ \A d : d # j.id => Of(Append(js, j), d) = Of(js, d)
  BY ONLY <1>3, <1>4, JobAppended
<1>6. g = [f EXCEPT !.jobs = ks]
  BY <1>1, <1>2 DEF Queue, Fields
<1>7. /\ g.req = f.req /\ g.body = f.body /\ g.jobs = ks /\ KeepsRest(f, g)
      /\ g = [k \in Fields |-> g[k]]
  BY <1>1, <1>6 DEF Fields, KeepsRest
<1>8. IsFetch(g)
  BY <1>2, <1>5, <1>7 DEF IsFetch, KeepsRest
<1>9. \A d \in Ids : d # id =>
           /\ Live(g, d) <=> Live(f, d)
           /\ Live(f, d) => g.req[d] = f.req[d]
           /\ Streaming(g, d) <=> Streaming(f, d)
           /\ Streaming(f, d) => g.body[d] = f.body[d]
  BY <1>2, <1>5, <1>7 DEF Live, Streaming
<1>10. Elsewhere(f, g, id)
  <2>1. \A d : d # id => Of(g.jobs, d) = Of(f.jobs, d)
    BY <1>2, <1>5, <1>7
  <2> QED BY <1>7, <1>9, <2>1, OnlyOne
<1> QED BY <1>2, <1>5, <1>7, <1>8, <1>10

\* A stream that asks its source while no pull is under way.
LEMMA AskedIsReady ==
  ASSUME NEW f, IsFetch(f), NEW id \in Ids, id < f.next, Streaming(f, id), Live(f, id),
         ReqAt(f, id), StreamAt(f, id), JobsAt(f, id), ~Waits(f, id), ~JobOn(f, "pull", id),
         f.body[id].state = "readable", f.body[id].pullInProgress,
         f.body[id].pendingReads = 1 => f.body[id].queue = <<>> /\ ~JobOn(f, "read", id)
  PROVE  Ready(f, id)
<1>1. PICK q, r : q = f.req[id] /\ r = f.body[id]
  OBVIOUS
<1>2. q \in Requests
  BY <1>1 DEF IsFetch, IsTable, Live
<1>3. q.resolved /\ ~q.promise /\ ~q.wait
  BY <1>1, <1>2 DEF ReqAt, Waits, Requests
<1>4. (q.chunks # <<>> => q.received) /\ (~q.received => f.sent[id] = 0)
      /\ (q.revoked <=> f.end[id] = "denied")
  BY <1>1 DEF ReqAt
<1>5. q.complete <=> f.end[id] # "running"
  BY <1>1, <1>2, <1>3 DEF ReqAt, Requests
<1>6. /\ f.told[id] = "response" /\ r.started /\ ~r.asked /\ ~r.closeRequested
      /\ r.state = "readable"
  BY <1>1 DEF StreamAt
<1> QED BY <1>1, <1>3, <1>4, <1>5, <1>6 DEF Ready

\* The read before the reader has its reaction in the place it takes.
ReadFirst(f, id) ==
  IF Streaming(f, id) THEN Serve(PutBody(f, id, Read(f.body[id])), id)
  ELSE Queue(f, FetchJob("read", id, TRUE, 0))

LEMMA ReadFirstDoes ==
  ASSUME NEW f, IsFetch(f), Once(f.jobs), Injective(f.pending), NEW id \in Ids, id < f.next,
         Core(f, id), Prompt(f, id), Calm(f, id), f.told[id] = "response",
         ~Connecting(f, id), ~Reading(f, id), NEW g, g = ReadFirst(f, id)
  PROVE  /\ Moved(f, g, id) /\ KeepsRest(f, g) /\ Prompt(g, id) /\ Calm(g, id)
         /\ Reading(g, id) /\ ~Connecting(g, id)
<1>1. ~JobOn(f, "read", id) /\ ~JobOn(f, "fetched", id) /\ JobsAt(f, id)
      /\ (Streaming(f, id) => f.body[id].pendingReads # 1)
  BY DEF Connecting, Reading, Core
<1>2. ~(id >= f.next)
  <2>1. f.next \in Nat /\ id \in Nat
    BY FetchAssumption DEF IsFetch, Ids
  <2> QED BY <2>1
<1>3. CASE ~Streaming(f, id)
  <2>1. PICK j : j = FetchJob("read", id, TRUE, 0)
    OBVIOUS
  <2>2. j \in Jobs /\ j.id = id /\ j.on = "read" /\ j.ok /\ j.chunk = 0
    BY <2>1 DEF FetchJob, Jobs
  <2>3. Of(f.jobs, id) = {}
    <3> SUFFICES ASSUME NEW a \in Of(f.jobs, id) PROVE FALSE
      OBVIOUS
    <3>1. a.on \in {"fetched", "read", "pull", "threw"} /\ a.on # "threw"
      <4>1. f.jobs \in Seq(Jobs)
        BY DEF IsFetch
      <4>2. a \in Jobs /\ a.on # "threw"
        BY <4>1, OfRequest
      <4> QED BY <4>2 DEF Jobs
    <3>2. ~JobOn(f, "pull", id)
      BY <1>1, <1>3 DEF JobsAt
    <3> QED BY <1>1, <3>1, <3>2 DEF JobOn
  <2>4. g = Queue(f, j)
    BY <1>3, <2>1 DEF ReadFirst
  <2>5. /\ IsFetch(g) /\ Once(g.jobs) /\ KeepsRest(f, g) /\ Elsewhere(f, g, id)
        /\ g.req = f.req /\ g.body = f.body /\ Of(g.jobs, id) = Of(f.jobs, id) \union {j}
    <3>1. j.on # "threw"
      BY <2>2
    <3>2. \A a \in Of(f.jobs, id) : ~SameLane(a, j)
      BY <2>3
    <3>3. IsFetch(f) /\ Once(f.jobs) /\ id \in Ids
      OBVIOUS
    <3> QED BY ONLY <2>2, <2>4, <3>1, <3>2, <3>3, QueueDoes
  <2>6. Of(g.jobs, id) = {j}
    BY <2>3, <2>5
  <2>7. JobOn(g, "read", id) /\ ~JobOn(g, "fetched", id) /\ ~JobOn(g, "pull", id)
    BY <2>2, <2>6 DEF JobOn
  <2>8. (Live(g, id) <=> Live(f, id)) /\ ~Streaming(g, id)
    BY <1>3, <2>5 DEF Live, Streaming
  <2>9. ~Connecting(g, id) /\ Reading(g, id)
    BY <2>5, <2>7 DEF Connecting, Reading, KeepsRest
  <2>10. JobsAt(g, id)
    BY <1>1, <1>3, <2>2, <2>5, <2>6, <2>7, <2>8, <2>9 DEF JobsAt, JobAt, KeepsRest
  <2>11. Live(g, id) => ReqAt(g, id)
    BY <1>3, <2>5, <2>8 DEF Core, ReqAt, KeepsRest
  <2>12. ~Live(g, id) => GoneAt(g, id)
    BY <2>5, <2>8 DEF Core, GoneAt, KeepsRest
  <2>13. Core(g, id)
    BY <1>2, <2>5, <2>8, <2>10, <2>11, <2>12 DEF Core, KeepsRest
  <2>14. Prompt(g, id) /\ Calm(g, id)
    BY <2>5, <2>8 DEF Prompt, Calm, Waits
  <2>15. Injective(g.pending)
    BY <2>5 DEF KeepsRest
  <2> QED BY <2>5, <2>9, <2>13, <2>14, <2>15 DEF Moved
<1>4. CASE Streaming(f, id)
  <2>1. PICK r : r = f.body[id]
    OBVIOUS
  <2>2. r \in Readables /\ BodyAt(f, id)
    BY <1>4, <2>1 DEF IsFetch, IsTable, Streaming, Core
  <2>3. r.started /\ ~r.asked /\ r.pendingReads = 0
    BY <1>1, <1>4, <2>1, <2>2 DEF BodyAt, Readables
  <2>4. PICK s : s = Read(r)
    OBVIOUS
  <2>5. PICK settled \in BOOLEAN, ok \in BOOLEAN, c \in Nat :
           /\ s.jobs = Reactions(settled, ok, c) /\ s.r \in Readables
           /\ WasRead(r, s.r, settled, ok, c)
    BY <2>2, <2>3, <2>4, ReadDoes
  <2>6. PICK b : b = s.r
    OBVIOUS
  <2>7. g = Serve(PutBody(f, id, s), id)
    BY <1>4, <2>1, <2>4 DEF ReadFirst
  <2>8. /\ ~b.asked => Put(f, g, id, b, settled, ok, c)
        /\ b.asked => \E e : /\ Put(f, e, id, [b EXCEPT !.asked = FALSE], settled, ok, c)
                             /\ g = TryRead(e, id)
    <3>1. IsFetch(f) /\ Once(f.jobs) /\ id \in Ids /\ Streaming(f, id)
      BY <1>4
    <3>2. b \in Readables /\ s.r = b /\ s.jobs = Reactions(settled, ok, c)
      BY <2>5, <2>6
    <3>3. settled \in BOOLEAN /\ ok \in BOOLEAN /\ c \in Nat
      BY <2>5
    <3>4. settled => ~JobOn(f, "read", id) /\ ~JobOn(f, "fetched", id)
      BY <1>1
    <3> QED BY ONLY <2>7, <3>1, <3>2, <3>3, <3>4, ServeDoes
  <2>9. WasRead(r, b, settled, ok, c) /\ b \in Readables
    BY <2>5, <2>6
  <2>10. PICK a : a = [b EXCEPT !.asked = FALSE]
    OBVIOUS
  <2>11. PICK e : Put(f, e, id, a, settled, ok, c)
                  /\ (IF b.asked THEN g = TryRead(e, id) ELSE g = e)
    <3>1. CASE b.asked
      BY <2>8, <2>10, <3>1
    <3>2. CASE ~b.asked
      <4>1. a = b
        BY <2>9, <2>10, <3>2 DEF Readables
      <4> QED BY <2>8, <3>2, <4>1
    <3> QED BY <3>1, <3>2
  <2>12. /\ a.state = r.state /\ a.closeRequested = r.closeRequested /\ a.started /\ ~a.asked
         /\ a.pendingReads = b.pendingReads /\ a.queue = b.queue
         /\ a.pullInProgress = b.pullInProgress /\ a.pullAgain = b.pullAgain
    BY <2>3, <2>9, <2>10 DEF Readables, WasRead
  <2>13. PICK j : j = FetchJob("read", id, ok, c)
    OBVIOUS
  <2>14. j.on = "read" /\ j.ok = ok /\ j.chunk = c
    BY <2>13 DEF FetchJob
  <2>15. /\ IsFetch(e) /\ Once(e.jobs) /\ KeepsRest(f, e) /\ Elsewhere(f, e, id)
         /\ e.req = f.req /\ Streaming(e, id) /\ e.body[id] = a
         /\ Of(e.jobs, id) = Of(f.jobs, id) \union (IF settled THEN {j} ELSE {})
    BY <2>11, <2>13 DEF Put
  <2>16. /\ JobOn(e, "pull", id) <=> JobOn(f, "pull", id)
         /\ JobOn(e, "fetched", id) <=> JobOn(f, "fetched", id)
         /\ JobOn(e, "read", id) <=> settled
    BY <1>1, <2>14, <2>15 DEF JobOn
  <2>17. Reading(e, id) /\ ~Connecting(e, id)
    BY <2>9, <2>12, <2>15, <2>16 DEF Reading, Connecting, KeepsRest, WasRead
  <2>18. JobsAt(e, id)
    <3>1. settled => JobAt(e, id, j)
      BY <2>1, <2>2, <2>9, <2>14, <2>15 DEF JobAt, WasRead, BodyAt, KeepsRest
    <3>2. \A i \in Of(e.jobs, id) : JobAt(e, id, i)
      BY <1>1, <2>15, <3>1 DEF JobsAt, JobAt, KeepsRest
    <3> QED BY <1>1, <2>15, <2>16, <2>17, <3>2 DEF JobsAt, KeepsRest
  <2>19. (Live(e, id) <=> Live(f, id)) /\ (Waits(e, id) <=> Waits(f, id))
    BY <2>15 DEF Live, Waits
  <2>20. Live(e, id) => ReqAt(e, id)
    BY <1>4, <2>15, <2>19 DEF Core, ReqAt, KeepsRest
  <2>21. ~Live(e, id) => GoneAt(e, id)
    BY <2>15, <2>19 DEF Core, GoneAt, KeepsRest
  <2>22. StreamAt(e, id)
    BY <2>1, <2>2, <2>12, <2>15, <2>19 DEF StreamAt, BodyAt, KeepsRest
  <2>23. Prompt(e, id) /\ Calm(e, id) /\ Injective(e.pending) /\ ~(id >= e.next) /\ id < e.next
    BY <1>2, <2>15, <2>19 DEF Prompt, Calm, Waits, Live, KeepsRest
  <2>24. CASE ~b.asked
    <3>1. g = e
      BY <2>11, <2>24
    <3>2. PullAt(e, id)
      BY <2>1, <2>2, <2>9, <2>12, <2>15, <2>16, <2>19, <2>24 DEF PullAt, BodyAt, WasRead
    <3>3. BodyAt(e, id)
      BY <2>22, <3>2 DEF BodyAt, StreamAt
    <3>4. Core(e, id)
      BY <2>18, <2>20, <2>21, <2>23, <3>3 DEF Core
    <3> QED BY <2>15, <2>17, <2>23, <3>1, <3>4 DEF Moved
  <2>25. CASE b.asked
    <3>1. g = TryRead(e, id)
      BY <2>11, <2>25
    <3>2. ~r.pullInProgress /\ b.pullInProgress /\ r.state = "readable"
      BY <2>9, <2>25 DEF WasRead
    <3>3. ~Waits(e, id) /\ ~JobOn(e, "pull", id)
      BY <2>1, <2>2, <2>16, <2>19, <3>2 DEF BodyAt, PullAt
    <3>4. Live(e, id)
      BY <2>1, <2>2, <2>19, <3>2 DEF BodyAt
    <3>5. e.body[id].pendingReads = 1 => e.body[id].queue = <<>> /\ ~JobOn(e, "read", id)
      BY <2>9, <2>12, <2>15, <2>16 DEF WasRead
    <3>6. e.body[id].state = "readable" /\ e.body[id].pullInProgress
      BY <2>12, <2>15, <3>2
    <3>7. Ready(e, id)
      BY <2>15, <2>18, <2>20, <2>22, <2>23, <3>3, <3>4, <3>5, <3>6, AskedIsReady
    <3>8. Tried(e, g, id)
      <4>1. Asks(e, id)
        BY <3>7, ReadyAsks
      <4> QED BY <2>15, <3>1, <4>1, TryReadDoes
    <3>9. Core(g, id) /\ Prompt(g, id) /\ Calm(g, id) /\ KeepsWaiting(e, g, id)
      BY <2>15, <2>20, <2>23, <3>4, <3>7, <3>8, ServedCore
    <3>10. IsFetch(g) /\ Once(g.jobs) /\ KeepsRest(e, g) /\ Elsewhere(e, g, id)
      BY <3>8 DEF Tried
    <3>11. Elsewhere(f, g, id)
      BY <2>15, <3>10, ElsewhereTwice
    <3>12. KeepsRest(f, g) /\ Injective(g.pending)
      BY <2>15, <2>23, <3>10 DEF KeepsRest
    <3> QED BY <2>17, <3>9, <3>10, <3>11, <3>12 DEF Moved, KeepsWaiting
  <2> QED BY <2>24, <2>25
<1> QED BY <1>3, <1>4

\* Two jobs that are side by side change places.
LEMMA JobsSwapped ==
  ASSUME NEW js \in Seq(Jobs), Once(js), NEW n \in Nat, Len(js) = n + 2,
         NEW ks, ks = [js EXCEPT ![n + 1] = js[n + 2], ![n + 2] = js[n + 1]]
  PROVE  ks \in Seq(Jobs) /\ Once(ks) /\ \A d : Of(ks, d) = Of(js, d)
<1>1. /\ n + 1 \in 1 .. Len(js) /\ n + 2 \in 1 .. Len(js) /\ DOMAIN js = 1 .. Len(js)
      /\ n + 1 # n + 2
  OBVIOUS
<1>2. /\ ks = [i \in 1 .. Len(js) |-> ks[i]] /\ ks[n + 1] = js[n + 2] /\ ks[n + 2] = js[n + 1]
      /\ \A i \in 1 .. Len(js) : i # n + 1 /\ i # n + 2 => ks[i] = js[i]
  BY <1>1
<1>3. \A i \in 1 .. Len(js) : js[i] \in Jobs
  OBVIOUS
<1>4. \A i \in 1 .. Len(js) : ks[i] \in Jobs
  BY <1>1, <1>2, <1>3
<1>5. ks \in Seq(Jobs) /\ Len(ks) = Len(js)
  BY <1>2, <1>4
<1>6. PICK p : p = [i \in 1 .. Len(js) |-> IF i = n + 1 THEN n + 2
                                           ELSE IF i = n + 2 THEN n + 1 ELSE i]
  OBVIOUS
<1>7. \A i \in 1 .. Len(js) : p[i] \in 1 .. Len(js) /\ p[p[i]] = i /\ ks[i] = js[p[i]]
  BY <1>1, <1>2, <1>6
<1>8. Once(ks)
  <2> SUFFICES ASSUME NEW i \in 1 .. Len(js), NEW k \in 1 .. Len(js), ks[i].on # "threw",
                      ks[k].on # "threw", SameLane(ks[i], ks[k])
               PROVE  i = k
    BY <1>5 DEF Once
  <2>1. p[i] = p[k]
    BY <1>7 DEF Once
  <2> QED BY <1>7, <2>1
<1>9. ASSUME NEW d PROVE Of(ks, d) = Of(js, d)
  <2>1. ASSUME NEW a \in Of(ks, d) PROVE a \in Of(js, d)
    <3>1. PICK i \in 1 .. Len(ks) : a = ks[i] /\ Key(ks[i]) = d
      BY DEF Of
    <3>2. p[i] \in 1 .. Len(js) /\ a = js[p[i]] /\ Key(js[p[i]]) = d
      BY <1>5, <1>7, <3>1
    <3> QED BY <3>2 DEF Of
  <2>2. ASSUME NEW a \in Of(js, d) PROVE a \in Of(ks, d)
    <3>1. PICK i \in 1 .. Len(js) : a = js[i] /\ Key(js[i]) = d
      BY DEF Of
    <3>2. p[i] \in 1 .. Len(ks) /\ a = ks[p[i]] /\ Key(ks[p[i]]) = d
      BY <1>5, <1>7, <3>1
    <3> QED BY <3>2 DEF Of
  <2> QED BY <2>1, <2>2
<1> QED BY <1>5, <1>8, <1>9

LEMMA ReadBodyDoes ==
  ASSUME NEW f, IsFetch(f), Once(f.jobs), Injective(f.pending), NEW id \in Ids, id < f.next,
         Core(f, id), Prompt(f, id), Calm(f, id), f.told[id] = "response",
         ~Connecting(f, id), ~Reading(f, id), NEW g, g = ReadBody(f, id)
  PROVE  /\ Moved(f, g, id) /\ KeepsRest(f, g) /\ Prompt(g, id) /\ Calm(g, id)
         /\ Reading(g, id) /\ ~Connecting(g, id)
<1>1. PICK h, n : h = ReadFirst(f, id) /\ n = Len(f.jobs)
  OBVIOUS
<1>2. /\ Moved(f, h, id) /\ KeepsRest(f, h) /\ Prompt(h, id) /\ Calm(h, id)
      /\ Reading(h, id) /\ ~Connecting(h, id)
  BY <1>1, ReadFirstDoes
<1>3. g = h \/ (Len(h.jobs) = n + 2 /\ g = Swapped(h, n))
  BY <1>1 DEF ReadBody, ReadFirst
<1>4. CASE g = h
  BY <1>2, <1>4
<1>5. CASE Len(h.jobs) = n + 2 /\ g = Swapped(h, n)
  <2>1. f.jobs \in Seq(Jobs) /\ f.next \in Nat
    BY FetchAssumption DEF IsFetch
  <2>2. n \in Nat
    BY <1>1, <2>1
  <2>3. PICK js : js = h.jobs
    OBVIOUS
  <2>16. PICK ks : ks = [js EXCEPT ![n + 1] = js[n + 2], ![n + 2] = js[n + 1]]
    OBVIOUS
  <2>4. js \in Seq(Jobs) /\ Once(js) /\ Len(js) = n + 2 /\ IsFetch(h)
    BY <1>2, <1>5, <2>3 DEF Moved, IsFetch
  <2>5. ks \in Seq(Jobs) /\ Once(ks) /\ \A d : Of(ks, d) = Of(js, d)
    BY ONLY <2>2, <2>4, <2>16, JobsSwapped
  <2>6. g = [h EXCEPT !.jobs = ks]
    BY <1>5, <2>3, <2>16 DEF Swapped
  <2>7. h = [k \in Fields |-> h[k]]
    BY <2>4 DEF IsFetch
  <2>8. /\ g = [k \in Fields |-> g[k]] /\ g.jobs = ks /\ g.req = h.req /\ g.body = h.body
        /\ KeepsRest(h, g)
    BY <2>6, <2>7 DEF Fields, KeepsRest
  <2>9. IsFetch(g) /\ Once(g.jobs)
    BY <2>4, <2>5, <2>8 DEF IsFetch, KeepsRest
  <2>10. \A d : Of(g.jobs, d) = Of(h.jobs, d)
    BY <2>3, <2>5, <2>8
  <2>11. \A d : Same(h, g, d)
    BY <2>8, <2>10 DEF Same, Live, Streaming, KeepsRest
  <2>12. KeepsRest(f, g) /\ Injective(g.pending) /\ g.next \in Nat /\ h.next \in Nat
    BY <1>2, <2>1, <2>8 DEF KeepsRest, Moved
  <2>13. Elsewhere(f, g, id)
    <3>1. Elsewhere(h, g, id)
      BY <2>11 DEF Elsewhere
    <3> QED BY <1>2, <3>1, ElsewhereTwice DEF Moved
  <2>14. Core(h, id) /\ Same(h, g, id)
    BY <1>2, <2>11 DEF Moved
  <2>15. /\ Core(g, id) /\ (Prompt(h, id) => Prompt(g, id)) /\ (Calm(h, id) => Calm(g, id))
         /\ (Connecting(g, id) <=> Connecting(h, id)) /\ (Reading(g, id) <=> Reading(h, id))
    BY <2>12, <2>14, CoreSame
  <2> QED BY <1>2, <2>9, <2>12, <2>13, <2>15 DEF Moved
<1> QED BY <1>3, <1>4, <1>5

\* The reaction to the promise of pull() has been taken from the microtasks.
AfterPull(f, id) ==
  LET r == f.body[id]
  IN  /\ id < f.next /\ Streaming(f, id) /\ StreamAt(f, id) /\ JobsAt(f, id)
      /\ Live(f, id) => ReqAt(f, id)
      /\ ~Live(f, id) => GoneAt(f, id)
      /\ ~Waits(f, id) /\ ~JobOn(f, "pull", id) /\ r.pullInProgress
      /\ r.pendingReads = 1 => /\ ~JobOn(f, "read", id) /\ r.queue = <<>>
                               /\ r.state = "readable" /\ r.pullAgain

LEMMA BodyPulledDoes ==
  ASSUME NEW f, IsFetch(f), Once(f.jobs), Injective(f.pending), NEW id \in Ids,
         AfterPull(f, id), Prompt(f, id), NEW g, g = BodyPulled(f, id)
  PROVE  /\ Moved(f, g, id) /\ KeepsRest(f, g) /\ Prompt(g, id) /\ Calm(g, id)
         /\ KeepsWaiting(f, g, id)
<1>1. PICK r : r = f.body[id]
  OBVIOUS
<1>2. r \in Readables /\ Streaming(f, id) /\ StreamAt(f, id) /\ id < f.next
  BY <1>1 DEF IsFetch, IsTable, Streaming, AfterPull
<1>3. /\ r.started /\ ~r.asked /\ r.pullInProgress
      /\ r.pendingReads = 1 => r.pullAgain /\ r.state = "readable"
  BY <1>1, <1>2 DEF StreamAt, AfterPull
<1>4. PICK s : s = Pulled(r, TRUE)
  OBVIOUS
<1>5. PICK b : b = s.r
  OBVIOUS
<1>6. /\ s.jobs = <<>> /\ b \in Readables
      /\ b.state = r.state /\ b.closeRequested = r.closeRequested
      /\ b.started = r.started /\ b.pendingReads = r.pendingReads /\ b.queue = r.queue
      /\ b.asked => b.pullInProgress /\ r.state = "readable"
      /\ ~b.asked => ~b.pullInProgress /\ b.pendingReads = 0
  BY ONLY <1>2, <1>3, <1>4, <1>5, PulledDoes
<1>7. g = Serve(PutBody(f, id, s), id)
  BY <1>1, <1>4 DEF BodyPulled
<1>8. PICK settled \in BOOLEAN, ok \in BOOLEAN : settled = FALSE /\ ok = FALSE
  OBVIOUS
<1>9. PICK c \in Nat : c = 0
  OBVIOUS
<1>10. /\ ~b.asked => Put(f, g, id, b, settled, ok, c)
       /\ b.asked => \E e : /\ Put(f, e, id, [b EXCEPT !.asked = FALSE], settled, ok, c)
                            /\ g = TryRead(e, id)
  <2>1. IsFetch(f) /\ Once(f.jobs) /\ id \in Ids /\ Streaming(f, id)
    BY <1>2
  <2>2. b \in Readables /\ s.r = b /\ s.jobs = Reactions(settled, ok, c)
    BY <1>5, <1>6, <1>8 DEF Reactions
  <2>3. settled \in BOOLEAN /\ ok \in BOOLEAN /\ c \in Nat
    BY <1>8
  <2>4. settled => ~JobOn(f, "read", id) /\ ~JobOn(f, "fetched", id)
    BY <1>8
  <2> QED BY ONLY <1>7, <2>1, <2>2, <2>3, <2>4, ServeDoes
<1>11. PICK a : a = [b EXCEPT !.asked = FALSE]
  OBVIOUS
<1>12. PICK e : Put(f, e, id, a, settled, ok, c)
                /\ (IF b.asked THEN g = TryRead(e, id) ELSE g = e)
  <2>1. CASE b.asked
    BY <1>10, <1>11, <2>1
  <2>2. CASE ~b.asked
    <3>1. a = b
      BY <1>6, <1>11, <2>2 DEF Readables
    <3> QED BY <1>10, <2>2, <3>1
  <2> QED BY <2>1, <2>2
<1>13. /\ a.state = r.state /\ a.closeRequested = r.closeRequested /\ a.started /\ ~a.asked
       /\ a.pendingReads = r.pendingReads /\ a.queue = r.queue
       /\ a.pullInProgress = b.pullInProgress
  BY <1>3, <1>6, <1>11 DEF Readables
<1>14. /\ IsFetch(e) /\ Once(e.jobs) /\ KeepsRest(f, e) /\ Elsewhere(f, e, id)
       /\ e.req = f.req /\ Streaming(e, id) /\ e.body[id] = a /\ Of(e.jobs, id) = Of(f.jobs, id)
  BY <1>8, <1>12 DEF Put
<1>15. \A on : JobOn(e, on, id) <=> JobOn(f, on, id)
  BY <1>14 DEF JobOn
<1>16. (Live(e, id) <=> Live(f, id)) /\ ~Waits(e, id) /\ ~JobOn(e, "pull", id)
  BY <1>14, <1>15 DEF Live, Waits, AfterPull
<1>17. KeepsWaiting(f, e, id)
  BY <1>1, <1>2, <1>13, <1>14, <1>15 DEF KeepsWaiting, Connecting, Reading, KeepsRest
<1>18. JobsAt(e, id)
  <2>1. ~(Connecting(e, id) /\ Reading(e, id))
    BY <1>17 DEF KeepsWaiting, AfterPull, JobsAt
  <2> QED BY <1>14, <1>15, <1>16, <2>1 DEF JobsAt, JobAt, KeepsRest, AfterPull
<1>19. Live(e, id) => ReqAt(e, id)
  BY <1>2, <1>14, <1>16 DEF AfterPull, ReqAt, KeepsRest
<1>20. ~Live(e, id) => GoneAt(e, id)
  BY <1>14, <1>16 DEF AfterPull, GoneAt, KeepsRest
<1>21. StreamAt(e, id)
  BY <1>1, <1>2, <1>13, <1>14, <1>16 DEF StreamAt, KeepsRest
<1>22. Prompt(e, id) /\ Injective(e.pending) /\ id < e.next /\ ~(id >= e.next) /\ Calm(e, id)
  <2>1. f.next \in Nat /\ id \in Nat
    BY FetchAssumption DEF IsFetch, Ids
  <2> QED BY <1>2, <1>14, <1>16, <2>1 DEF Prompt, Live, KeepsRest, Calm
<1>23. CASE ~b.asked
  <2>1. g = e
    BY <1>12, <1>23
  <2>2. PullAt(e, id)
    BY <1>6, <1>13, <1>14, <1>16, <1>23 DEF PullAt
  <2>3. BodyAt(e, id)
    BY <1>21, <2>2 DEF BodyAt, StreamAt
  <2>4. Core(e, id)
    BY <1>18, <1>19, <1>20, <1>22, <2>3 DEF Core
  <2> QED BY <1>14, <1>17, <1>22, <2>1, <2>4 DEF Moved
<1>24. CASE b.asked
  <2>1. g = TryRead(e, id)
    BY <1>12, <1>24
  <2>2. b.pullInProgress /\ r.state = "readable"
    BY <1>6, <1>24
  <2>4. Live(e, id)
    BY <1>1, <1>2, <1>16, <2>2 DEF StreamAt
  <2>5. e.body[id].pendingReads = 1 => e.body[id].queue = <<>> /\ ~JobOn(e, "read", id)
    BY <1>1, <1>13, <1>14, <1>15 DEF AfterPull
  <2>6. e.body[id].state = "readable" /\ e.body[id].pullInProgress
    BY <1>13, <1>14, <2>2
  <2>7. Ready(e, id)
    BY <1>14, <1>16, <1>18, <1>19, <1>21, <1>22, <2>4, <2>5, <2>6, AskedIsReady
  <2>8. Tried(e, g, id)
    <3>1. Asks(e, id)
      BY <2>7, ReadyAsks
    <3> QED BY <1>14, <2>1, <3>1, TryReadDoes
  <2>9. Core(g, id) /\ Prompt(g, id) /\ Calm(g, id) /\ KeepsWaiting(e, g, id)
    BY <1>14, <1>19, <1>22, <2>4, <2>7, <2>8, ServedCore
  <2>10. IsFetch(g) /\ Once(g.jobs) /\ KeepsRest(e, g) /\ Elsewhere(e, g, id)
    BY <2>8 DEF Tried
  <2>11. Elsewhere(f, g, id)
    BY <1>14, <2>10, ElsewhereTwice
  <2>12. KeepsRest(f, g) /\ Injective(g.pending)
    BY <1>14, <1>22, <2>10 DEF KeepsRest
  <2> QED BY <1>17, <2>9, <2>10, <2>11, <2>12 DEF Moved, KeepsWaiting
<1> QED BY <1>23, <1>24

-------------------------------------------------------------------------------
(* The callback that a pull has left. *)

\* It is called: by then the request may be complete, though curl still has it.
Due(f, id) ==
  LET q == f.req[id]
  IN  /\ id < f.next /\ Live(f, id) /\ Streaming(f, id)
      /\ q.resolved /\ ~q.promise /\ q.wait
      /\ q.chunks # <<>> => q.received
      /\ ~q.received => f.sent[id] = 0
      /\ q.revoked <=> f.end[id] = "denied"
      /\ q.complete <=> f.end[id] # "running"
      /\ StreamAt(f, id) /\ PullAt(f, id) /\ JobsAt(f, id)

WithReq(f, id, p) == [f EXCEPT !.req[id] = p]

LEMMA SetReq ==
  ASSUME NEW f, IsFetch(f), NEW id \in Ids, Live(f, id), NEW p \in Requests,
         NEW g, g = WithReq(f, id, p)
  PROVE  /\ IsFetch(g) /\ KeepsRest(f, g) /\ Elsewhere(f, g, id)
         /\ Live(g, id) /\ g.req[id] = p /\ g.body = f.body /\ g.jobs = f.jobs
<1>1. f = [k \in Fields |-> f[k]]
  BY DEF IsFetch
<1>2. PICK t : t = [f.req EXCEPT ![id] = p]
  OBVIOUS
<1>3. /\ IsTable(t, Requests) /\ DOMAIN t = DOMAIN f.req /\ t[id] = p
      /\ \A d \in DOMAIN f.req : d # id => t[d] = f.req[d]
  <2>1. id \in DOMAIN f.req /\ IsTable(f.req, Requests)
    BY DEF Live, IsFetch
  <2> QED BY <1>2, <2>1, TableSet
<1>4. g = [f EXCEPT !.req = t]
  BY <1>1, <1>2 DEF WithReq
<1>5. /\ g.req = t /\ g.body = f.body /\ g.jobs = f.jobs /\ KeepsRest(f, g)
      /\ g = [k \in Fields |-> g[k]]
  BY <1>1, <1>4 DEF Fields, KeepsRest
<1>6. IsFetch(g)
  BY <1>3, <1>5 DEF IsFetch, KeepsRest
<1>7. \A d \in Ids : d # id =>
           /\ Live(g, d) <=> Live(f, d)
           /\ Live(f, d) => g.req[d] = f.req[d]
           /\ Streaming(g, d) <=> Streaming(f, d)
           /\ Streaming(f, d) => g.body[d] = f.body[d]
  BY <1>3, <1>5 DEF Live, Streaming
<1>8. Elsewhere(f, g, id)
  BY <1>5, <1>7, OnlyOne
<1> QED BY <1>3, <1>5, <1>6, <1>8 DEF Live

LEMMA WaiterDoes ==
  ASSUME NEW f, IsFetch(f), Once(f.jobs), NEW id \in Ids, Due(f, id),
         NEW g, g = CallWaiter(f, id)
  PROVE  /\ Serving(f, g, id) /\ Streaming(g, id)
         /\ IsFetch(g) /\ Once(g.jobs) /\ KeepsRest(f, g) /\ Elsewhere(f, g, id)
<1>1. PICK q, p : q = f.req[id] /\ p = [q EXCEPT !.wait = FALSE]
  OBVIOUS
<1>2. q \in Requests /\ Live(f, id) /\ q.wait
  BY <1>1 DEF IsFetch, IsTable, Live, Due
<1>3. /\ p \in Requests /\ ~p.wait /\ p.chunks = q.chunks /\ p.easy = q.easy
      /\ p.resolved = q.resolved /\ p.promise = q.promise /\ p.received = q.received
      /\ p.revoked = q.revoked /\ p.complete = q.complete
  BY <1>1, <1>2 DEF Requests
<1>4. PICK e : e = [f EXCEPT !.req[id] = p]
  OBVIOUS
<1>5. e = [f EXCEPT !.req[id].wait = FALSE]
  BY <1>1, <1>4
<1>6. g = TryRead(e, id)
  BY <1>1, <1>2, <1>5 DEF CallWaiter
<1>7. /\ IsFetch(e) /\ KeepsRest(f, e) /\ Elsewhere(f, e, id)
      /\ Live(e, id) /\ e.req[id] = p /\ e.body = f.body /\ e.jobs = f.jobs
  <2>1. e = WithReq(f, id, p)
    BY <1>4 DEF WithReq
  <2> QED BY <1>2, <1>3, <2>1, SetReq
<1>8. \A on : JobOn(e, on, id) <=> JobOn(f, on, id)
  BY <1>7 DEF JobOn
<1>9. KeepsWaiting(f, e, id)
  BY <1>7, <1>8 DEF KeepsWaiting, Connecting, Reading, Streaming, KeepsRest
<1>10. Streaming(e, id) /\ Streaming(f, id)
  BY <1>7 DEF Streaming, Due
<1>11. JobsAt(e, id)
  <2>1. JobsAt(f, id)
    BY DEF Due
  <2> QED BY <1>7, <1>8, <1>9, <1>10, <2>1 DEF JobsAt, JobAt, KeepsRest, KeepsWaiting
<1>12. PICK r : r = f.body[id] /\ r = e.body[id]
  BY <1>7
<1>13. Waits(f, id)
  BY <1>1, <1>2 DEF Waits
<1>14. /\ r.state = "readable" /\ r.pullInProgress /\ ~JobOn(f, "pull", id)
       /\ r.pendingReads = 1 => r.queue = <<>> /\ ~JobOn(f, "read", id)
  BY <1>12, <1>13 DEF Due, PullAt
<1>15. f.told[id] = "response" /\ r.started /\ ~r.asked /\ ~r.closeRequested
  BY <1>12, <1>14 DEF Due, StreamAt
<1>16. Ready(e, id)
  BY <1>1, <1>3, <1>7, <1>8, <1>10, <1>11, <1>12, <1>14, <1>15 DEF Ready, Due, KeepsRest
<1>17. Tried(e, g, id)
  <2>1. Asks(e, id)
    BY <1>16, ReadyAsks
  <2>2. Once(e.jobs)
    BY <1>7
  <2> QED BY <1>6, <1>7, <2>1, <2>2, TryReadDoes
<1>18. Serving(e, g, id)
  BY <1>7, <1>16, <1>17, ServedBody
<1>19. Serving(f, g, id)
  <2>1. KeepsWaiting(f, g, id)
    BY <1>9, <1>18 DEF Serving, KeepsWaiting
  <2>2. PICK v : v = g.req[id]
    OBVIOUS
  <2>3. Live(g, id) => /\ v = [p EXCEPT !.chunks = v.chunks, !.wait = v.wait]
                       /\ v.chunks # <<>> => p.chunks # <<>>
                       /\ v.wait => ~p.complete /\ v.chunks = <<>>
    BY <1>7, <1>18, <2>2 DEF Serving
  <2>4. Live(g, id) => v = [q EXCEPT !.chunks = v.chunks, !.wait = v.wait]
    BY <1>1, <1>2, <2>3 DEF Requests
  <2> QED BY <1>1, <1>3, <1>7, <1>18, <2>1, <2>2, <2>3, <2>4 DEF Serving
<1>20. IsFetch(g) /\ Once(g.jobs) /\ KeepsRest(f, g) /\ Streaming(g, id) /\ Elsewhere(e, g, id)
  BY <1>7, <1>17 DEF Tried, KeepsRest
<1>21. Elsewhere(f, g, id)
  BY <1>7, <1>20, ElsewhereTwice
<1> QED BY <1>19, <1>20, <1>21

LEMMA LiveIsBorn ==
  ASSUME NEW f, IsFetch(f), NEW id \in Ids, Core(f, id),
         Live(f, id) \/ Streaming(f, id) \/ f.told[id] # "nothing" \/ Of(f.jobs, id) # {}
  PROVE  id < f.next /\ ~(id >= f.next)
<1>1. f.next \in Nat /\ id \in Nat
  BY FetchAssumption DEF IsFetch, Ids
<1> QED BY <1>1 DEF Core, Unborn

LEMMA NoJobsYet ==
  ASSUME NEW f, IsFetch(f), NEW id \in Ids, JobsAt(f, id), f.told[id] = "nothing",
         ~Streaming(f, id)
  PROVE  Of(f.jobs, id) = {}
<1> SUFFICES ASSUME NEW a \in Of(f.jobs, id) PROVE FALSE
  OBVIOUS
<1>1. f.jobs \in Seq(Jobs)
  BY DEF IsFetch
<1>2. a \in Jobs /\ a.on # "threw"
  BY <1>1, OfRequest
<1>3. a.on \in {"fetched", "read", "pull"}
  BY <1>2 DEF Jobs
<1> QED BY <1>3 DEF JobsAt, JobOn

LEMMA ElsewhereItself == \A f, id : Elsewhere(f, f, id) /\ KeepsRest(f, f)
BY DEF Elsewhere, Same, KeepsRest

\* What the request and its promise become does not move the others.
LEMMA NotifyDoes ==
  ASSUME NEW f, IsFetch(f), Once(f.jobs), Injective(f.pending), NEW id \in Ids, Core(f, id),
         NEW g, g = NotifyReader(f, id)
  PROVE  /\ Moved(f, g, id) /\ KeepsRest(f, g) /\ KeepsWaiting(f, g, id)
         /\ (Prompt(f, id) => Prompt(g, id)) /\ Calm(g, id)
         /\ Live(f, id) => (Live(g, id) \/ ~f.req[id].easy)
         /\ Live(g, id) => g.req[id].easy = f.req[id].easy
<1>1. PICK q : q = f.req[id]
  OBVIOUS
<1>2. CASE ~(Live(f, id) /\ q.wait /\ (q.chunks # <<>> \/ q.complete))
  <2>1. g = f
    BY <1>1, <1>2 DEF NotifyReader, CallWaiter
  <2>2. Calm(f, id)
    BY <1>1, <1>2 DEF Calm, Waits
  <2> QED BY <2>1, <2>2, ElsewhereItself DEF Moved, KeepsWaiting
<1>3. CASE Live(f, id) /\ q.wait /\ (q.chunks # <<>> \/ q.complete)
  <2>1. g = CallWaiter(f, id)
    BY <1>1, <1>3 DEF NotifyReader
  <2>2. q \in Requests /\ ReqAt(f, id)
    BY <1>1, <1>3 DEF IsFetch, IsTable, Live, Core
  <2>3. id < f.next
    BY <1>3, LiveIsBorn
  <2>4. Streaming(f, id) /\ q.resolved /\ ~q.promise
    BY <1>1, <1>3, <2>2 DEF ReqAt, Requests
  <2>5. BodyAt(f, id) /\ JobsAt(f, id)
    BY <2>4 DEF Core
  <2>6. f.told[id] # "nothing"
    BY <2>5 DEF BodyAt
  <2>7. q.complete <=> f.end[id] # "running"
    BY <1>1, <2>2, <2>4 DEF ReqAt, Requests
  <2>8. Due(f, id)
    BY <1>1, <1>3, <2>2, <2>3, <2>4, <2>5, <2>7 DEF Due, BodyAt, StreamAt, ReqAt
  <2>9. /\ Serving(f, g, id) /\ Streaming(g, id)
        /\ IsFetch(g) /\ Once(g.jobs) /\ KeepsRest(f, g) /\ Elsewhere(f, g, id)
    BY <2>1, <2>8, WaiterDoes
  <2>10. Core(g, id) /\ (Prompt(f, id) => Prompt(g, id)) /\ Calm(g, id)
    BY <1>3, <2>2, <2>3, <2>4, <2>6, <2>9, ServingCore
  <2>11. Live(g, id) \/ ~q.easy
    BY <1>1, <2>9 DEF Serving
  <2>12. Live(g, id) => g.req[id].easy = q.easy
    <3>1. PICK p : p = g.req[id]
      OBVIOUS
    <3>2. Live(g, id) => p = [q EXCEPT !.chunks = p.chunks, !.wait = p.wait]
      BY <1>1, <2>9, <3>1 DEF Serving
    <3> QED BY <2>2, <3>1, <3>2 DEF Requests
  <2>13. Injective(g.pending)
    BY <2>9 DEF KeepsRest
  <2> QED BY <1>1, <2>9, <2>10, <2>11, <2>12, <2>13 DEF Moved, Serving
<1> QED BY <1>2, <1>3

LEMMA ReceiveDoes ==
  ASSUME NEW f, IsFetch(f), Once(f.jobs), Injective(f.pending), NEW id \in Ids, Core(f, id),
         Live(f, id), f.req[id].easy, NEW size \in Nat, NEW g, g = Receive(f, id, size)
  PROVE  /\ Moved(f, g, id) /\ KeepsWaiting(f, g, id)
         /\ g.pending = f.pending /\ g.localPending = f.localPending /\ g.next = f.next
         /\ Live(g, id) /\ g.req[id].easy
<1>1. CASE size = 0
  <2>1. g = f
    BY <1>1 DEF Receive
  <2> QED BY <2>1, ElsewhereItself DEF Moved, KeepsWaiting
<1>2. CASE size # 0
  <2>1. PICK q : q = f.req[id]
    OBVIOUS
  <2>2. q \in Requests /\ ReqAt(f, id) /\ f = [k \in Fields |-> f[k]]
    BY <2>1 DEF IsFetch, IsTable, Live, Core
  <2>3. PICK p : p = [q EXCEPT !.chunks = Append(@, size), !.received = TRUE]
    OBVIOUS
  <2>4. PICK cs : cs = Append(q.chunks, size)
    OBVIOUS
  <2>5. cs \in Seq(Chunks)
    <3>1. q.chunks \in Seq(Chunks) /\ size \in Chunks
      BY <1>2, <2>2 DEF Requests, Chunks
    <3> QED BY <2>4, <3>1, AppendProperties
  <2>6. /\ p \in Requests /\ p.chunks = cs /\ p.received /\ p.easy = q.easy /\ p.held = q.held
        /\ p.promise = q.promise /\ p.resolved = q.resolved /\ p.complete = q.complete
        /\ p.wait = q.wait /\ p.revoked = q.revoked
    BY <2>2, <2>3, <2>4, <2>5 DEF Requests
  <2>7. PICK t : t = [f.req EXCEPT ![id] = p]
    OBVIOUS
  <2>8. /\ IsTable(t, Requests) /\ DOMAIN t = DOMAIN f.req /\ t[id] = p
        /\ \A d \in DOMAIN f.req : d # id => t[d] = f.req[d]
    <3>1. id \in DOMAIN f.req /\ IsTable(f.req, Requests) /\ p \in Requests
      BY <2>6 DEF Live, IsFetch
    <3> QED BY <2>7, <3>1, TableSet
  <2>9. PICK n : n = [f.sent EXCEPT ![id] = @ + size]
    OBVIOUS
  <2>10. n \in [Ids -> Nat] /\ \A d \in Ids : d # id => n[d] = f.sent[d]
    BY <2>9 DEF IsFetch
  <2>11. g = [f EXCEPT !.req = t, !.sent = n]
    <3>1. PICK h : h = [f EXCEPT !.req[id].chunks = Append(@, size)]
      OBVIOUS
    <3>2. PICK k : k = [h EXCEPT !.req[id].received = TRUE]
      OBVIOUS
    <3>3. g = [k EXCEPT !.sent[id] = @ + size]
      BY <1>2, <3>1, <3>2 DEF Receive
    <3>4. PICK v : v = [q EXCEPT !.chunks = cs]
      OBVIOUS
    <3>5. PICK u : u = [f.req EXCEPT ![id] = v]
      OBVIOUS
    <3>6. h = [f EXCEPT !.req = u]
      BY <2>1, <2>4, <3>1, <3>4, <3>5
    <3>7. h.req = u /\ h = [i \in Fields |-> h[i]] /\ u[id] = v
      BY <2>2, <3>5, <3>6 DEF Fields, Live
    <3>8. v.received \in BOOLEAN /\ p = [v EXCEPT !.received = TRUE]
      BY <2>2, <2>3, <2>4, <3>4 DEF Requests
    <3>9. k = [h EXCEPT !.req = t]
      <4>1. t = [u EXCEPT ![id] = p]
        BY <2>2, <2>7, <3>5 DEF IsFetch, IsTable, Live
      <4> QED BY <3>2, <3>7, <3>8, <4>1
    <3>10. k = [f EXCEPT !.req = t] /\ k.sent = f.sent
      BY <2>2, <3>6, <3>9 DEF Fields
    <3> QED BY <2>2, <2>9, <3>3, <3>10 DEF Fields
  <2>12. /\ g.req = t /\ g.sent = n /\ g.body = f.body /\ g.jobs = f.jobs /\ g.next = f.next
         /\ g.told = f.told /\ g.end = f.end
         /\ g.pending = f.pending /\ g.localPending = f.localPending
         /\ g = [k \in Fields |-> g[k]]
    BY <2>2, <2>11 DEF Fields
  <2>13. IsFetch(g)
    BY <2>8, <2>10, <2>12 DEF IsFetch
  <2>14. Elsewhere(f, g, id)
    BY <2>8, <2>10, <2>12 DEF Elsewhere, Same, Live, Streaming
  <2>15. \A on : JobOn(g, on, id) <=> JobOn(f, on, id)
    BY <2>12 DEF JobOn
  <2>16. Live(g, id) /\ g.req[id] = p /\ (Streaming(g, id) <=> Streaming(f, id))
         /\ (Waits(g, id) <=> Waits(f, id))
    BY <2>1, <2>6, <2>8, <2>12 DEF Live, Streaming, Waits
  <2>17. KeepsWaiting(f, g, id)
    BY <2>12, <2>15 DEF KeepsWaiting, Connecting, Reading, Streaming
  <2>18. q.easy /\ f.end[id] = "running"
    BY <2>1, <2>2 DEF ReqAt
  <2>19. ReqAt(g, id)
    <3>1. ReqAt(f, id) /\ f.req[id] = q
      BY <2>1, <2>2
    <3>2. /\ g.req[id].held = q.held /\ g.req[id].easy = q.easy /\ g.req[id].complete = q.complete
          /\ g.req[id].promise = q.promise /\ g.req[id].resolved = q.resolved
          /\ g.req[id].wait = q.wait /\ g.req[id].revoked = q.revoked /\ g.req[id].received
      BY <2>6, <2>16
    <3>3. g.told = f.told /\ g.end = f.end /\ g.pending = f.pending
          /\ (Streaming(g, id) <=> Streaming(f, id))
      BY <2>12, <2>16
    <3> QED BY ONLY <2>18, <3>1, <3>2, <3>3 DEF ReqAt
  <2>20. Streaming(g, id) => BodyAt(g, id)
    <3>1. Streaming(g, id) => PullAt(f, id) /\ BodyAt(f, id)
      BY <2>16 DEF Core, BodyAt
    <3>2. Streaming(g, id) => PullAt(g, id)
      BY <2>12, <2>15, <2>16, <3>1 DEF PullAt
    <3> QED BY <2>12, <2>16, <2>18, <3>1, <3>2 DEF BodyAt
  <2>21. JobsAt(g, id)
    <3>1. JobsAt(f, id)
      BY DEF Core
    <3>2. ~(Connecting(g, id) /\ Reading(g, id))
      BY <2>17, <3>1 DEF KeepsWaiting, JobsAt
    <3> QED BY <2>12, <2>15, <2>16, <2>18, <3>1, <3>2 DEF JobsAt, JobAt
  <2>22. Core(g, id)
    <3>1. ~(id >= g.next)
      BY <2>12, LiveIsBorn
    <3> QED BY <2>16, <2>19, <2>20, <2>21, <3>1 DEF Core
  <2> QED BY <2>6, <2>12, <2>13, <2>14, <2>16, <2>17, <2>18, <2>22 DEF Moved
<1> QED BY <1>1, <1>2

TellResult(f, g, id, outcome, ok) ==
  /\ IsFetch(g) /\ Once(g.jobs) /\ Elsewhere(f, g, id)
  /\ g.pending = f.pending /\ g.localPending = f.localPending /\ g.next = f.next
  /\ g.body = f.body /\ g.sent = f.sent /\ g.end = f.end
  /\ Live(g, id) /\ g.req[id] = [f.req[id] EXCEPT !.promise = FALSE]
  /\ g.told[id] = outcome
  /\ JobOn(g, "fetched", id) /\ ~JobOn(g, "read", id) /\ ~JobOn(g, "pull", id)
  /\ \A j \in Of(g.jobs, id) : j.on = "fetched" /\ j.ok = ok

LEMMA TellDoes ==
  ASSUME NEW f, IsFetch(f), Once(f.jobs), NEW id \in Ids, Live(f, id), f.req[id].promise,
         NEW outcome \in Told, NEW ok \in BOOLEAN, ok <=> outcome = "response",
         Of(f.jobs, id) = {}, NEW g, g = Tell(f, id, outcome)
  PROVE  TellResult(f, g, id, outcome, ok)
<1>1. PICK q, p : q = f.req[id] /\ p = [q EXCEPT !.promise = FALSE]
  OBVIOUS
<1>2. q \in Requests /\ f = [k \in Fields |-> f[k]] /\ p \in Requests
  <2>1. q \in Requests
    BY <1>1 DEF IsFetch, IsTable, Live
  <2> QED BY <1>1, <2>1 DEF IsFetch, Requests
<1>3. PICK t, u : t = [f.req EXCEPT ![id] = p] /\ u = [f.told EXCEPT ![id] = outcome]
  OBVIOUS
<1>4. /\ IsTable(t, Requests) /\ DOMAIN t = DOMAIN f.req /\ t[id] = p
      /\ \A d \in DOMAIN f.req : d # id => t[d] = f.req[d]
  <2>1. id \in DOMAIN f.req /\ IsTable(f.req, Requests) /\ p \in Requests
    BY <1>2 DEF Live, IsFetch
  <2> QED BY <1>3, <2>1, TableSet
<1>5. u \in [Ids -> Told] /\ u[id] = outcome /\ \A d \in Ids : d # id => u[d] = f.told[d]
  BY <1>3 DEF IsFetch
<1>6. PICK e : e = [f EXCEPT !.req = t, !.told = u]
  OBVIOUS
<1>7. e = [f EXCEPT !.req[id].promise = FALSE, !.told[id] = outcome]
  <2>1. PICK h : h = [f EXCEPT !.req[id].promise = FALSE]
    OBVIOUS
  <2>2. h = [f EXCEPT !.req = t]
    BY <1>1, <1>3, <2>1
  <2>3. h.told = f.told
    BY <1>2, <2>2 DEF Fields
  <2>4. e = [h EXCEPT !.told[id] = outcome]
    BY <1>2, <1>3, <1>6, <2>2, <2>3 DEF Fields
  <2> QED BY <2>1, <2>4
<1>8. PICK j : j = FetchJob("fetched", id, ok, 0)
  OBVIOUS
<1>9. g = Queue(e, j)
  <2>1. CASE outcome = "response"
    <3>1. ok = TRUE
      BY <2>1
    <3> QED BY <1>1, <1>7, <1>8, <2>1, <3>1 DEF Tell
  <2>2. CASE outcome # "response"
    <3>1. ok = FALSE /\ (outcome = "response") = FALSE
      BY <2>2
    <3> QED BY <1>1, <1>7, <1>8, <2>2, <3>1 DEF Tell
  <2> QED BY <2>1, <2>2
<1>10. /\ e.req = t /\ e.told = u /\ e.body = f.body /\ e.jobs = f.jobs /\ e.next = f.next
       /\ e.sent = f.sent /\ e.end = f.end
       /\ e.pending = f.pending /\ e.localPending = f.localPending
       /\ e = [k \in Fields |-> e[k]]
  BY <1>2, <1>6 DEF Fields
<1>11. IsFetch(e)
  BY <1>4, <1>5, <1>10 DEF IsFetch
<1>12. Elsewhere(f, e, id)
  BY <1>4, <1>5, <1>10 DEF Elsewhere, Same, Live, Streaming
<1>13. j \in Jobs /\ j.id = id /\ j.on # "threw" /\ j.on = "fetched" /\ j.ok = ok
  BY <1>8 DEF FetchJob, Jobs
<1>14. /\ IsFetch(g) /\ Once(g.jobs) /\ KeepsRest(e, g) /\ Elsewhere(e, g, id)
       /\ g.req = e.req /\ g.body = e.body /\ Of(g.jobs, id) = Of(e.jobs, id) \union {j}
  <2>1. Once(e.jobs) /\ \A a \in Of(e.jobs, id) : ~SameLane(a, j)
    BY <1>10
  <2> QED BY <1>9, <1>11, <1>13, <2>1, QueueDoes
<1>15. Elsewhere(f, g, id)
  BY <1>12, <1>14, ElsewhereTwice
<1>16. Of(g.jobs, id) = {j}
  BY <1>10, <1>14
<1>17. /\ JobOn(g, "fetched", id) /\ ~JobOn(g, "read", id) /\ ~JobOn(g, "pull", id)
       /\ \A i \in Of(g.jobs, id) : i.on = "fetched" /\ i.ok = ok
  BY <1>13, <1>16 DEF JobOn
<1>18. Live(g, id) /\ g.req[id] = [f.req[id] EXCEPT !.promise = FALSE]
  BY <1>1, <1>4, <1>10, <1>14 DEF Live
<1> QED BY <1>5, <1>10, <1>14, <1>15, <1>17, <1>18 DEF TellResult, KeepsRest

-------------------------------------------------------------------------------
(* A request is taken from the lists; what it is and how it ended are new.        *)

With(f, t, ps, ls, m) == [f EXCEPT !.req = t, !.pending = ps, !.localPending = ls, !.end = m]

LEMMA WithDoes ==
  ASSUME NEW f, IsFetch(f), NEW id \in Ids, NEW t, IsTable(t, Requests),
         DOMAIN t \union {id} = DOMAIN f.req \union {id},
         \A d \in DOMAIN t : d # id => t[d] = f.req[d],
         NEW ps \in Seq(Ids), \A d \in Ids : d # id => (In(ps, d) <=> In(f.pending, d)),
         NEW ls \in Seq(Ids),
         NEW m \in [Ids -> Ends], \A d \in Ids : d # id => m[d] = f.end[d],
         NEW g, g = With(f, t, ps, ls, m)
  PROVE  /\ IsFetch(g) /\ Elsewhere(f, g, id)
         /\ g.req = t /\ g.pending = ps /\ g.localPending = ls /\ g.end = m
         /\ g.next = f.next /\ g.body = f.body /\ g.jobs = f.jobs
         /\ g.told = f.told /\ g.sent = f.sent
<1>1. f = [k \in Fields |-> f[k]]
  BY DEF IsFetch
<1>2. /\ g.req = t /\ g.pending = ps /\ g.localPending = ls /\ g.end = m
      /\ g.next = f.next /\ g.body = f.body /\ g.jobs = f.jobs
      /\ g.told = f.told /\ g.sent = f.sent /\ g = [k \in Fields |-> g[k]]
  BY <1>1 DEF With, Fields
<1>3. IsFetch(g)
  BY <1>2 DEF IsFetch
<1>4. Elsewhere(f, g, id)
  <2> SUFFICES ASSUME NEW d \in Ids, d # id PROVE Same(f, g, d)
    BY DEF Elsewhere
  <2>1. d \in DOMAIN t <=> d \in DOMAIN f.req
    OBVIOUS
  <2>2. d \in DOMAIN t => t[d] = f.req[d]
    OBVIOUS
  <2>3. (In(ps, d) <=> In(f.pending, d)) /\ m[d] = f.end[d]
    OBVIOUS
  <2> QED BY <1>2, <2>1, <2>2, <2>3 DEF Same, Live, Streaming
<1> QED BY <1>2, <1>3, <1>4

\* A promise that is settled for good when the request leaves the table.
LEMMA GoneCore ==
  ASSUME NEW f, IsFetch(f), NEW id \in Ids, Core(f, id), Live(f, id), f.req[id].promise,
         NEW h, NEW outcome \in Told, outcome # "nothing", NEW ok \in BOOLEAN,
         ok <=> outcome = "response",
         NEW e, TellResult(e, h, id, outcome, ok), Elsewhere(f, e, id), e.next = f.next,
         ~In(e.pending, id), Injective(e.pending), e.body = f.body,
         e.end[id] # "running",
         outcome = "response" => e.end[id] = "ok" /\ e.sent[id] = 0,
         NEW g, g = Erase(h, id)
  PROVE  /\ Moved(f, g, id) /\ KeepsWaiting(f, g, id) /\ ~Live(g, id)
         /\ g.pending = e.pending /\ g.localPending = e.localPending /\ g.next = f.next
<1>1. ReqAt(f, id) /\ JobsAt(f, id) /\ f.req[id] \in Requests
  BY DEF Core, IsFetch, IsTable, Live
<1>2. ~Streaming(f, id) /\ f.told[id] = "nothing" /\ id < f.next /\ ~(id >= f.next)
  BY <1>1, LiveIsBorn DEF ReqAt, Requests
<1>3. /\ IsFetch(h) /\ Once(h.jobs) /\ Elsewhere(e, h, id) /\ h.pending = e.pending
      /\ h.localPending = e.localPending /\ h.next = e.next /\ h.body = e.body
      /\ h.sent = e.sent /\ h.end = e.end /\ h.told[id] = outcome
      /\ JobOn(h, "fetched", id) /\ ~JobOn(h, "read", id) /\ ~JobOn(h, "pull", id)
      /\ \A j \in Of(h.jobs, id) : j.on = "fetched" /\ j.ok = ok
  BY DEF TellResult
<1>4. PICK t : t = Erase(h, id).req
  OBVIOUS
<1>5. /\ g = [h EXCEPT !.req = t] /\ IsFetch(g) /\ DOMAIN t = DOMAIN h.req \ {id}
      /\ \A d \in DOMAIN h.req : d # id => t[d] = h.req[d]
  BY <1>3, <1>4, EraseDoes
<1>6. h = [k \in Fields |-> h[k]]
  BY <1>3 DEF IsFetch
<1>7. /\ g.req = t /\ g.body = h.body /\ g.jobs = h.jobs /\ g.next = h.next
      /\ g.told = h.told /\ g.sent = h.sent /\ g.end = h.end
      /\ g.pending = h.pending /\ g.localPending = h.localPending
  BY <1>5, <1>6 DEF Fields
<1>8. Elsewhere(f, g, id)
  <2>1. Elsewhere(h, g, id)
    <3> SUFFICES ASSUME NEW d \in Ids, d # id PROVE Same(h, g, d)
      BY DEF Elsewhere
    <3> QED BY <1>5, <1>7 DEF Same, Live, Streaming
  <2>2. Elsewhere(f, h, id)
    BY <1>3, ElsewhereTwice
  <2> QED BY <2>1, <2>2, ElsewhereTwice
<1>9. ~Live(g, id) /\ ~Streaming(g, id)
  BY <1>2, <1>3, <1>5, <1>7 DEF Live, Streaming
<1>10. \A on : JobOn(g, on, id) <=> JobOn(h, on, id)
  BY <1>7 DEF JobOn
<1>11. Connecting(g, id) /\ ~Reading(g, id)
  BY <1>3, <1>9, <1>10 DEF Connecting, Reading
<1>12. Connecting(f, id) /\ ~Reading(f, id)
  <2>1. Connecting(f, id)
    BY <1>2 DEF Connecting
  <2> QED BY <1>1, <2>1 DEF JobsAt
<1>13. JobsAt(g, id)
  BY <1>3, <1>7, <1>9, <1>10, <1>11 DEF JobsAt, JobAt
<1>14. GoneAt(g, id)
  BY <1>3, <1>7 DEF GoneAt
<1>15. Core(g, id)
  BY <1>2, <1>3, <1>7, <1>9, <1>13, <1>14 DEF Core
<1>16. f.end[id] = "running"
  BY <1>1 DEF ReqAt
<1> QED BY <1>3, <1>5, <1>7, <1>8, <1>9, <1>11, <1>12, <1>15, <1>16 DEF Moved, KeepsWaiting

LEMMA SettleDoes ==
  ASSUME NEW f, IsFetch(f), Once(f.jobs), Injective(f.pending), NEW id \in Ids, Core(f, id),
         Live(f, id), ~f.req[id].easy, f.req[id].promise, NEW g, g = SettleLocal(f, id)
  PROVE  /\ Moved(f, g, id) /\ KeepsWaiting(f, g, id) /\ ~Live(g, id)
         /\ g.pending = f.pending /\ g.localPending = f.localPending /\ g.next = f.next
<1>1. PICK q : q = f.req[id]
  OBVIOUS
<1>2. q \in Requests /\ ReqAt(f, id) /\ JobsAt(f, id) /\ f = [k \in Fields |-> f[k]]
  BY <1>1 DEF IsFetch, IsTable, Live, Core
<1>3. /\ ~Streaming(f, id) /\ f.told[id] = "nothing" /\ ~In(f.pending, id) /\ f.sent[id] = 0
  BY <1>1, <1>2 DEF ReqAt, Requests
<1>4. PICK e : e = [f EXCEPT !.end[id] = "ok"]
  OBVIOUS
<1>5. PICK m : m = [f.end EXCEPT ![id] = "ok"]
  OBVIOUS
<1>6. m \in [Ids -> Ends] /\ m[id] = "ok" /\ \A d \in Ids : d # id => m[d] = f.end[d]
  BY <1>5 DEF IsFetch, Ends
<1>7. e = With(f, f.req, f.pending, f.localPending, m)
  BY <1>2, <1>4, <1>5 DEF With, Fields
<1>8. /\ IsFetch(e) /\ Elsewhere(f, e, id)
      /\ e.req = f.req /\ e.pending = f.pending /\ e.localPending = f.localPending /\ e.end = m
      /\ e.next = f.next /\ e.body = f.body /\ e.jobs = f.jobs
      /\ e.told = f.told /\ e.sent = f.sent
  <2>1. IsTable(f.req, Requests) /\ f.pending \in Seq(Ids) /\ f.localPending \in Seq(Ids)
    BY DEF IsFetch
  <2> QED BY <1>6, <1>7, <2>1, WithDoes
<1>9. PICK outcome : outcome = "response"
  OBVIOUS
<1>10. PICK ok \in BOOLEAN : ok = TRUE
  OBVIOUS
<1>11. PICK h : h = Tell(e, id, outcome)
  OBVIOUS
<1>12. TellResult(e, h, id, outcome, ok)
  <2>1. Of(e.jobs, id) = {}
    BY <1>2, <1>3, <1>8, NoJobsYet
  <2>2. Live(e, id) /\ e.req[id].promise /\ Once(e.jobs)
    BY <1>8 DEF Live
  <2>3. outcome \in Told /\ (ok <=> outcome = "response")
    BY <1>9, <1>10 DEF Told
  <2> QED BY <1>8, <1>10, <1>11, <2>1, <2>2, <2>3, TellDoes
<1>13. g = Erase(h, id)
  BY <1>4, <1>9, <1>11 DEF SettleLocal
<1>14. /\ outcome \in Told /\ outcome # "nothing" /\ (ok <=> outcome = "response")
       /\ ~In(e.pending, id) /\ Injective(e.pending) /\ e.end[id] # "running"
       /\ outcome = "response" => e.end[id] = "ok" /\ e.sent[id] = 0
  BY <1>3, <1>6, <1>8, <1>9, <1>10 DEF Told
<1>15. /\ Moved(f, g, id) /\ KeepsWaiting(f, g, id) /\ ~Live(g, id)
       /\ g.pending = e.pending /\ g.localPending = e.localPending /\ g.next = f.next
  BY <1>8, <1>12, <1>13, <1>14, GoneCore
<1> QED BY <1>8, <1>15

LEMMA ResolveDoes ==
  ASSUME NEW f, IsFetch(f), Once(f.jobs), Injective(f.pending), NEW id \in Ids, Core(f, id),
         Live(f, id), NEW g, g = ResolveStreaming(f, id)
  PROVE  /\ Moved(f, g, id) /\ KeepsWaiting(f, g, id) /\ Prompt(g, id)
         /\ g.pending = f.pending /\ g.localPending = f.localPending /\ g.next = f.next
         /\ Live(g, id) /\ g.req[id].easy = f.req[id].easy
<1>1. PICK q : q = f.req[id]
  OBVIOUS
<1>2. q \in Requests /\ ReqAt(f, id) /\ JobsAt(f, id) /\ f = [k \in Fields |-> f[k]]
  BY <1>1 DEF IsFetch, IsTable, Live, Core
<1>3. CASE q.resolved \/ ~q.received
  <2>1. g = f
    BY <1>1, <1>3 DEF ResolveStreaming
  <2>2. Prompt(f, id)
    BY <1>1, <1>3 DEF Prompt
  <2> QED BY <2>1, <2>2, ElsewhereItself DEF Moved, KeepsWaiting
<1>4. CASE ~q.resolved /\ q.received
  <2>1. /\ q.promise /\ q.easy /\ ~q.wait /\ ~Streaming(f, id) /\ f.told[id] = "nothing"
        /\ f.end[id] = "running" /\ In(f.pending, id) /\ q.held /\ ~q.complete /\ ~q.revoked
    BY <1>1, <1>2, <1>4 DEF ReqAt, Requests
  <2>2. id < f.next /\ ~(id >= f.next)
    BY LiveIsBorn
  <2>3. PICK r : r = [NewReadable EXCEPT !.started = TRUE]
    OBVIOUS
  <2>4. /\ r \in Readables /\ r.state = "readable" /\ r.started /\ ~r.asked
        /\ ~r.closeRequested /\ ~r.pullInProgress /\ r.pendingReads = 0
    <3>1. <<>> \in Seq(Chunks)
      OBVIOUS
    <3> QED BY <2>3, <3>1 DEF NewReadable, Readables
  <2>5. PICK b : b = Enter(f.body, id, r)
    OBVIOUS
  <2>6. /\ IsTable(b, Readables) /\ DOMAIN b = DOMAIN f.body \union {id} /\ b[id] = r
        /\ \A d \in DOMAIN f.body : d # id => b[d] = f.body[d]
    <3>1. b = [d \in DOMAIN f.body \union {id} |-> IF d = id THEN r ELSE f.body[d]]
      BY <2>5 DEF Enter
    <3>2. IsTable(f.body, Readables)
      BY DEF IsFetch
    <3> QED BY <2>4, <3>1, <3>2 DEF IsTable
  <2>7. PICK p : p = [q EXCEPT !.resolved = TRUE]
    OBVIOUS
  <2>8. /\ p \in Requests /\ p.resolved /\ p.promise /\ p.easy /\ p.held /\ ~p.complete
        /\ ~p.wait /\ ~p.revoked /\ p.received /\ p.chunks = q.chunks
    BY <1>2, <1>4, <2>1, <2>7 DEF Requests
  <2>9. PICK t : t = [f.req EXCEPT ![id] = p]
    OBVIOUS
  <2>10. /\ IsTable(t, Requests) /\ DOMAIN t = DOMAIN f.req /\ t[id] = p
         /\ \A d \in DOMAIN f.req : d # id => t[d] = f.req[d]
    <3>1. id \in DOMAIN f.req /\ IsTable(f.req, Requests) /\ p \in Requests
      BY <2>8 DEF Live, IsFetch
    <3> QED BY <2>9, <3>1, TableSet
  <2>11. PICK e : e = [f EXCEPT !.req = t, !.body = b]
    OBVIOUS
  <2>12. e = [f EXCEPT !.req[id].resolved = TRUE, !.body = Enter(@, id, r)]
    <3>1. PICK h : h = [f EXCEPT !.req[id].resolved = TRUE]
      OBVIOUS
    <3>2. h = [f EXCEPT !.req = t]
      BY <1>1, <2>7, <2>9, <3>1
    <3>3. h.body = f.body
      BY <1>2, <3>2 DEF Fields
    <3>4. e = [h EXCEPT !.body = b]
      BY <1>2, <2>11, <3>2 DEF Fields
    <3> QED BY <2>5, <3>1, <3>3, <3>4
  <2>13. PICK outcome : outcome = "response"
    OBVIOUS
  <2>14. PICK ok \in BOOLEAN : ok = TRUE
    OBVIOUS
  <2>15. g = Tell(e, id, outcome)
    BY <1>1, <1>4, <2>3, <2>12, <2>13 DEF ResolveStreaming
  <2>16. /\ e.req = t /\ e.body = b /\ e.told = f.told /\ e.jobs = f.jobs /\ e.next = f.next
         /\ e.sent = f.sent /\ e.end = f.end
         /\ e.pending = f.pending /\ e.localPending = f.localPending
         /\ e = [k \in Fields |-> e[k]]
    BY <1>2, <2>11 DEF Fields
  <2>17. IsFetch(e)
    BY <2>6, <2>10, <2>16 DEF IsFetch
  <2>18. Elsewhere(f, e, id)
    <3> SUFFICES ASSUME NEW d \in Ids, d # id PROVE Same(f, e, d)
      BY DEF Elsewhere
    <3> QED BY <2>6, <2>10, <2>16 DEF Same, Live, Streaming
  <2>19. TellResult(e, g, id, outcome, ok)
    <3>1. Of(e.jobs, id) = {}
      BY <1>2, <2>1, <2>16, NoJobsYet
    <3>2. Live(e, id) /\ e.req[id].promise /\ Once(e.jobs)
      BY <2>8, <2>10, <2>16 DEF Live
    <3>3. outcome \in Told /\ (ok <=> outcome = "response")
      BY <2>13, <2>14 DEF Told
    <3> QED BY <2>14, <2>15, <2>17, <3>1, <3>2, <3>3, TellDoes
  <2>20. /\ IsFetch(g) /\ Once(g.jobs) /\ Elsewhere(e, g, id)
         /\ g.pending = e.pending /\ g.localPending = e.localPending /\ g.next = e.next
         /\ g.body = e.body /\ g.sent = e.sent /\ g.end = e.end
         /\ Live(g, id) /\ g.req[id] = [e.req[id] EXCEPT !.promise = FALSE]
         /\ g.told[id] = outcome
         /\ JobOn(g, "fetched", id) /\ ~JobOn(g, "read", id) /\ ~JobOn(g, "pull", id)
         /\ \A j \in Of(g.jobs, id) : j.on = "fetched" /\ j.ok = ok
    BY <2>19 DEF TellResult
  <2>21. PICK v : v = g.req[id]
    OBVIOUS
  <2>22. /\ v.resolved /\ ~v.promise /\ v.easy /\ v.held /\ ~v.complete
         /\ ~v.wait /\ ~v.revoked /\ v.received
    BY <2>8, <2>10, <2>16, <2>20, <2>21 DEF Requests
  <2>23. Elsewhere(f, g, id)
    BY <2>18, <2>20, ElsewhereTwice
  <2>24. Streaming(g, id) /\ g.body[id] = r /\ ~Waits(g, id)
    BY <2>6, <2>16, <2>20, <2>21, <2>22 DEF Streaming, Waits
  <2>25. Connecting(g, id) /\ ~Reading(g, id)
    BY <2>4, <2>20, <2>24 DEF Connecting, Reading
  <2>26. Connecting(f, id) /\ ~Reading(f, id)
    <3>1. Connecting(f, id)
      BY <2>1, <2>2 DEF Connecting
    <3> QED BY <1>2, <3>1 DEF JobsAt
  <2>27. ReqAt(g, id)
    <3>1. v \in Requests
      BY <2>20, <2>21 DEF IsFetch, IsTable, Live
    <3>2. g.told[id] # "nothing" /\ g.end[id] = "running" /\ In(g.pending, id)
      BY <2>1, <2>13, <2>16, <2>20
    <3>3. v.held = v.easy /\ v.complete = ~v.easy /\ v.promise = ~v.resolved
      BY <2>22, <3>1 DEF Requests
    <3> QED BY <2>21, <2>22, <2>24, <3>2, <3>3 DEF ReqAt
  <2>28. JobsAt(g, id)
    BY <2>13, <2>14, <2>20, <2>24, <2>25 DEF JobsAt, JobAt
  <2>29. BodyAt(g, id)
    <3>1. PullAt(g, id)
      BY <2>4, <2>20, <2>24 DEF PullAt
    <3> QED BY <2>4, <2>13, <2>20, <2>24, <3>1 DEF BodyAt
  <2>30. Core(g, id)
    BY <2>2, <2>16, <2>20, <2>27, <2>28, <2>29 DEF Core
  <2>31. Prompt(g, id)
    BY <2>21, <2>22 DEF Prompt
  <2>32. Injective(g.pending)
    BY <2>16, <2>20
  <2>33. g.req[id].easy = f.req[id].easy
    <3>1. v.easy \in BOOLEAN /\ q.easy \in BOOLEAN
      <4>1. v \in Requests
        BY <2>20, <2>21 DEF IsFetch, IsTable, Live
      <4> QED BY <1>2, <4>1 DEF Requests
    <3> QED BY <1>1, <2>1, <2>21, <2>22, <3>1
  <2> QED BY <2>16, <2>20, <2>23, <2>25, <2>26, <2>30, <2>31, <2>32, <2>33 DEF Moved, KeepsWaiting
<1> QED BY <1>3, <1>4

\* The entry of a request that is complete now, and of one whose reader was called then.
Ended(q, p) == p = [q EXCEPT !.complete = TRUE, !.resolved = TRUE]
ReadOut(q, v) == /\ v = [q EXCEPT !.complete = TRUE, !.chunks = v.chunks, !.wait = v.wait]
                 /\ v.chunks # <<>> => q.chunks # <<>>

StreamOver(f, e, h, id) ==
  /\ IsFetch(h) /\ Once(h.jobs) /\ KeepsRest(e, h) /\ Elsewhere(f, h, id)
  /\ Live(h, id) /\ Streaming(h, id) /\ BodyAt(h, id) /\ JobsAt(h, id)
  /\ KeepsWaiting(f, h, id) /\ ~Waits(h, id)
  /\ ReadOut(f.req[id], h.req[id])

\* curl is done with a request whose promise is settled: its reader is called, if it
\* waits, with `easy` still set, and then the entry lets go of it.
LEMMA StreamDone ==
  ASSUME NEW f, IsFetch(f), Once(f.jobs), NEW id \in Ids, Core(f, id),
         Live(f, id), f.req[id].easy, f.req[id].resolved,
         NEW e, IsFetch(e), Elsewhere(f, e, id), e.next = f.next, e.body = f.body,
         e.jobs = f.jobs, e.told = f.told, e.sent = f.sent, e.end[id] # "running",
         e.end[id] # "denied", Live(e, id), Ended(f.req[id], e.req[id]),
         NEW h, h = CallWaiter(e, id)
  PROVE  StreamOver(f, e, h, id)
<1>1. PICK q, p : q = f.req[id] /\ p = e.req[id]
  OBVIOUS
<1>2. q \in Requests /\ ReqAt(f, id) /\ JobsAt(f, id)
  BY <1>1 DEF IsFetch, IsTable, Live, Core
<1>3. p = [q EXCEPT !.complete = TRUE]
  <2>1. p = [q EXCEPT !.complete = TRUE, !.resolved = TRUE]
    BY <1>1 DEF Ended
  <2>2. q.resolved = TRUE
    BY <1>1, <1>2 DEF Requests
  <2> QED BY <1>2, <2>1, <2>2 DEF Requests
<1>4. /\ p.complete /\ p.chunks = q.chunks /\ p.easy = q.easy /\ p.held = q.held
      /\ p.resolved = q.resolved /\ p.promise = q.promise /\ p.received = q.received
      /\ p.revoked = q.revoked /\ p.wait = q.wait /\ p \in Requests
  BY <1>2, <1>3 DEF Requests
<1>5. /\ Streaming(f, id) /\ ~q.promise /\ f.told[id] # "nothing" /\ f.end[id] = "running"
      /\ ~q.revoked /\ q.easy /\ q.resolved
  BY <1>1, <1>2 DEF ReqAt, Requests
<1>6. Streaming(e, id) /\ BodyAt(f, id) /\ id < f.next
  BY <1>5, LiveIsBorn DEF Streaming, Core
<1>7. \A on : JobOn(e, on, id) <=> JobOn(f, on, id)
  BY DEF JobOn
<1>8. KeepsWaiting(f, e, id)
  BY <1>5, <1>6, <1>7 DEF KeepsWaiting, Connecting, Reading
<1>9. JobsAt(e, id)
  <2>1. \A j \in Of(e.jobs, id) : JobAt(e, id, j)
    BY <1>2, <1>5 DEF JobsAt, JobAt
  <2>2. ~(Connecting(e, id) /\ Reading(e, id))
    BY <1>2, <1>8 DEF JobsAt, KeepsWaiting
  <2> QED BY <1>2, <1>6, <1>7, <2>1, <2>2 DEF JobsAt
<1>10. Waits(e, id) <=> Waits(f, id)
  BY <1>1, <1>4 DEF Waits
<1>11. PICK r : r = f.body[id] /\ r = e.body[id]
  OBVIOUS
<1>12. StreamAt(e, id)
  BY <1>5, <1>6, <1>11 DEF StreamAt, BodyAt
<1>13. PullAt(e, id)
  BY <1>6, <1>7, <1>10 DEF PullAt, BodyAt
<1>14. BodyAt(e, id)
  BY <1>12, <1>13 DEF BodyAt, StreamAt
<1>15. CASE ~p.wait
  <2>1. h = e
    BY <1>1, <1>15 DEF CallWaiter
  <2>2. ~Waits(h, id)
    BY <1>1, <1>15, <2>1 DEF Waits
  <2>3. p = [q EXCEPT !.complete = TRUE, !.chunks = p.chunks, !.wait = p.wait]
    BY <1>2, <1>3, <1>4 DEF Requests
  <2>4. ReadOut(f.req[id], h.req[id])
    BY <1>1, <1>4, <2>1, <2>3 DEF ReadOut
  <2>5. KeepsRest(e, h)
    BY <2>1 DEF KeepsRest
  <2>6. BodyAt(h, id) /\ JobsAt(h, id) /\ KeepsWaiting(f, h, id)
    BY <1>8, <1>9, <1>14, <2>1
  <2>7. Once(h.jobs) /\ Elsewhere(f, h, id) /\ IsFetch(h) /\ Live(h, id) /\ Streaming(h, id)
    BY <1>6, <2>1
  <2> QED BY ONLY <2>2, <2>4, <2>5, <2>6, <2>7 DEF StreamOver
<1>16. CASE p.wait
  <2>1. Due(e, id)
    BY <1>1, <1>2, <1>4, <1>5, <1>6, <1>9, <1>12, <1>13, <1>16 DEF Due, ReqAt
  <2>2. /\ Serving(e, h, id) /\ Streaming(h, id)
        /\ IsFetch(h) /\ Once(h.jobs) /\ KeepsRest(e, h) /\ Elsewhere(e, h, id)
    <3>1. Once(e.jobs)
      OBVIOUS
    <3> QED BY <2>1, <3>1, WaiterDoes
  <2>3. PICK v : v = h.req[id]
    OBVIOUS
  <2>4. /\ Live(h, id) /\ v = [p EXCEPT !.chunks = v.chunks, !.wait = v.wait]
        /\ v.chunks # <<>> => p.chunks # <<>>
        /\ v.wait => ~p.complete /\ v.chunks = <<>>
    BY <1>1, <1>4, <1>5, <2>2, <2>3 DEF Serving
  <2>5. ~Waits(h, id)
    BY <1>4, <2>3, <2>4 DEF Waits
  <2>6. KeepsWaiting(f, h, id) /\ BodyAt(h, id) /\ JobsAt(h, id)
    BY <1>8, <2>2 DEF KeepsWaiting, Serving
  <2>7. Elsewhere(f, h, id)
    BY <2>2, ElsewhereTwice
  <2>8. v = [q EXCEPT !.complete = TRUE, !.chunks = v.chunks, !.wait = v.wait]
    BY <1>2, <1>3, <2>4 DEF Requests
  <2>9. ReadOut(f.req[id], h.req[id])
    BY <1>1, <1>4, <2>3, <2>4, <2>8 DEF ReadOut
  <2> QED BY <2>2, <2>4, <2>5, <2>6, <2>7, <2>9 DEF StreamOver
<1> QED BY <1>15, <1>16

LEMMA CompleteDoes ==
  ASSUME NEW f, IsFetch(f), Once(f.jobs), Injective(f.pending), NEW id \in Ids, Core(f, id),
         Prompt(f, id), Live(f, id), f.req[id].easy, NEW result \in {"ok", "failed", "refused"},
         NEW g, g = Complete(f, id, result)
  PROVE  /\ Moved(f, g, id) /\ KeepsWaiting(f, g, id)
         /\ g.pending = RemoveFirst(f.pending, id) /\ g.localPending = f.localPending
         /\ g.next = f.next /\ Prompt(g, id) /\ Calm(g, id)
         /\ Live(g, id) => ~g.req[id].promise
<1>1. PICK q : q = f.req[id]
  OBVIOUS
<1>2. q \in Requests /\ ReqAt(f, id) /\ JobsAt(f, id) /\ f = [k \in Fields |-> f[k]]
  BY <1>1 DEF IsFetch, IsTable, Live, Core
<1>3. PICK p : p = [q EXCEPT !.complete = TRUE, !.resolved = TRUE]
  OBVIOUS
<1>4. /\ p \in Requests /\ p.complete /\ p.resolved /\ p.easy /\ p.promise = q.promise
      /\ p.wait = q.wait
  BY <1>1, <1>2, <1>3 DEF Requests
<1>5. PICK t : t = [f.req EXCEPT ![id] = p]
  OBVIOUS
<1>6. /\ IsTable(t, Requests) /\ DOMAIN t = DOMAIN f.req /\ t[id] = p
      /\ \A d \in DOMAIN f.req : d # id => t[d] = f.req[d]
  <2>1. id \in DOMAIN f.req /\ IsTable(f.req, Requests) /\ p \in Requests
    BY <1>4 DEF Live, IsFetch
  <2> QED BY <1>5, <2>1, TableSet
<1>7. PICK ps : ps = RemoveFirst(f.pending, id)
  OBVIOUS
<1>8. ps \in Seq(Ids) /\ Injective(ps) /\ \A d : In(ps, d) <=> In(f.pending, d) /\ d # id
  <2>1. f.pending \in Seq(Ids)
    BY DEF IsFetch
  <2> QED BY <1>7, <2>1, IdRemoved
<1>9. PICK m : m = [f.end EXCEPT ![id] = result]
  OBVIOUS
<1>10. m \in [Ids -> Ends] /\ m[id] = result /\ \A d \in Ids : d # id => m[d] = f.end[d]
  BY <1>9 DEF IsFetch, Ends
<1>11. PICK e : e = With(f, t, ps, f.localPending, m)
  OBVIOUS
<1>12. e = [f EXCEPT !.pending = RemoveFirst(@, id), !.req[id].complete = TRUE,
                     !.req[id].resolved = TRUE, !.end[id] = result]
  <2>1. PICK a : a = [f EXCEPT !.pending = RemoveFirst(@, id)]
    OBVIOUS
  <2>2. a = [f EXCEPT !.pending = ps] /\ a.req = f.req
    BY <1>2, <1>7, <2>1 DEF Fields
  <2>3. PICK b : b = [a EXCEPT !.req[id].complete = TRUE]
    OBVIOUS
  <2>4. PICK v, u : v = [q EXCEPT !.complete = TRUE] /\ u = [f.req EXCEPT ![id] = v]
    OBVIOUS
  <2>5. b = [a EXCEPT !.req = u]
    BY <1>1, <2>2, <2>3, <2>4
  <2>6. b = [f EXCEPT !.pending = ps, !.req = u]
    BY <1>2, <2>2, <2>5 DEF Fields
  <2>7. b.req = u /\ u[id] = v /\ p = [v EXCEPT !.resolved = TRUE]
    BY <1>2, <1>3, <2>4, <2>6 DEF Fields, Live, Requests
  <2>8. PICK c : c = [b EXCEPT !.req[id].resolved = TRUE]
    OBVIOUS
  <2>9. t = [u EXCEPT ![id] = p]
    BY <1>5, <2>4 DEF IsFetch, IsTable, Live
  <2>10. c = [b EXCEPT !.req = t]
    BY <2>7, <2>8, <2>9
  <2>11. c = [f EXCEPT !.pending = ps, !.req = t] /\ c.end = f.end
    BY <1>2, <2>6, <2>10 DEF Fields
  <2>12. e = [c EXCEPT !.end[id] = result]
    BY <1>2, <1>9, <1>11, <2>11 DEF With, Fields
  <2> QED BY <2>1, <2>3, <2>8, <2>12
<1>13. /\ IsFetch(e) /\ Elsewhere(f, e, id)
       /\ e.req = t /\ e.pending = ps /\ e.localPending = f.localPending /\ e.end = m
       /\ e.next = f.next /\ e.body = f.body /\ e.jobs = f.jobs
       /\ e.told = f.told /\ e.sent = f.sent
  <2>1. f.localPending \in Seq(Ids) /\ \A d \in Ids : d # id => (In(ps, d) <=> In(f.pending, d))
    BY <1>8 DEF IsFetch
  <2>2. DOMAIN t \union {id} = DOMAIN f.req \union {id}
        /\ \A d \in DOMAIN t : d # id => t[d] = f.req[d]
    BY <1>6
  <2>3. ps \in Seq(Ids) /\ IsTable(t, Requests) /\ IsFetch(f) /\ id \in Ids
    BY <1>6, <1>8
  <2>4. m \in [Ids -> Ends] /\ \A d \in Ids : d # id => m[d] = f.end[d]
    BY <1>10
  <2>5. PICK ls : ls = f.localPending
    OBVIOUS
  <2>6. e = With(f, t, ps, ls, m) /\ ls \in Seq(Ids)
    BY <1>11, <2>1, <2>5
  <2> QED BY ONLY <2>1, <2>2, <2>3, <2>4, <2>5, <2>6, WithDoes
<1>14. /\ f.end[id] = "running" /\ ~q.revoked /\ q.held = q.easy /\ ~q.complete
       /\ id < f.next /\ ~(id >= f.next)
  BY <1>1, <1>2, LiveIsBorn DEF ReqAt, Requests
<1>15. Live(e, id) /\ e.req[id] = p /\ e.end[id] = result
  BY <1>6, <1>10, <1>13 DEF Live
<1>16. CASE q.resolved
  <2>1. PICK h : h = CallWaiter(e, id)
    OBVIOUS
  <2>2. g = [h EXCEPT !.req[id].easy = FALSE, !.req[id].held = FALSE]
    BY <1>1, <1>12, <1>16, <2>1 DEF Complete
  <2>3. StreamOver(f, e, h, id)
    <3>1. e.end[id] # "running" /\ e.end[id] # "denied" /\ Live(e, id)
      BY <1>15
    <3>2. Ended(f.req[id], e.req[id])
      BY <1>1, <1>3, <1>15 DEF Ended
    <3>3. f.req[id].resolved
      BY <1>1, <1>16
    <3>4. /\ IsFetch(f) /\ Once(f.jobs) /\ id \in Ids /\ Core(f, id)
          /\ Live(f, id) /\ f.req[id].easy
      OBVIOUS
    <3> QED BY ONLY <1>13, <2>1, <3>1, <3>2, <3>3, <3>4, StreamDone
  <2>3a. /\ IsFetch(h) /\ Once(h.jobs) /\ KeepsRest(e, h) /\ Elsewhere(f, h, id)
         /\ Live(h, id) /\ Streaming(h, id) /\ BodyAt(h, id) /\ JobsAt(h, id)
         /\ KeepsWaiting(f, h, id) /\ ~Waits(h, id)
    BY <2>3 DEF StreamOver
  <2>4. PICK v : v = h.req[id]
    OBVIOUS
  <2>5. /\ v \in Requests /\ v.complete /\ v.resolved /\ v.promise = q.promise /\ ~v.wait
        /\ v.received = q.received /\ v.revoked = q.revoked /\ (v.chunks # <<>> => q.chunks # <<>>)
    <3>1. v \in Requests
      BY <2>3a, <2>4 DEF IsFetch, IsTable, Live
    <3>2. v = [q EXCEPT !.complete = TRUE, !.chunks = v.chunks, !.wait = v.wait]
      BY <1>1, <2>3, <2>4 DEF StreamOver, ReadOut
    <3>2a. v.chunks # <<>> => q.chunks # <<>>
      BY <1>1, <2>3, <2>4 DEF StreamOver, ReadOut
    <3>3. ~v.wait
      BY <2>3a, <2>4 DEF Waits
    <3> QED BY <1>2, <1>16, <3>1, <3>2, <3>2a, <3>3 DEF Requests
  <2>6. PICK w : w = [v EXCEPT !.easy = FALSE, !.held = FALSE]
    OBVIOUS
  <2>7. /\ w \in Requests /\ w.complete /\ w.resolved /\ w.promise = q.promise /\ ~w.wait
        /\ ~w.easy /\ ~w.held /\ w.received = q.received /\ w.revoked = q.revoked
        /\ w.chunks = v.chunks
    BY <2>5, <2>6 DEF Requests
  <2>8. g = [h EXCEPT !.req[id] = w]
    <3>1. h = [k \in Fields |-> h[k]]
      BY <2>3a DEF IsFetch
    <3>2. PICK a : a = [h EXCEPT !.req[id].easy = FALSE]
      OBVIOUS
    <3>3. PICK s, u : s = [v EXCEPT !.easy = FALSE] /\ u = [h.req EXCEPT ![id] = s]
      OBVIOUS
    <3>4. a = [h EXCEPT !.req = u]
      BY <2>4, <3>2, <3>3
    <3>5. a.req = u /\ u[id] = s /\ w = [s EXCEPT !.held = FALSE]
      BY <2>3a, <2>5, <2>6, <3>1, <3>3, <3>4 DEF Fields, Live, Requests
    <3>6. g = [a EXCEPT !.req[id].held = FALSE]
      BY <2>2, <3>2
    <3>7. PICK z : z = [u EXCEPT ![id] = w]
      OBVIOUS
    <3>8. g = [a EXCEPT !.req = z]
      BY <3>5, <3>6, <3>7
    <3>9. z = [h.req EXCEPT ![id] = w]
      BY <2>3a, <3>3, <3>7 DEF IsFetch, IsTable, Live
    <3>10. g = [h EXCEPT !.req = z]
      BY <3>1, <3>4, <3>8 DEF Fields
    <3> QED BY <3>9, <3>10
  <2>9. /\ IsFetch(g) /\ KeepsRest(h, g) /\ Elsewhere(h, g, id)
        /\ Live(g, id) /\ g.req[id] = w /\ g.body = h.body /\ g.jobs = h.jobs
    <3>1. IsFetch(h) /\ id \in Ids /\ Live(h, id) /\ w \in Requests
      BY <2>3a, <2>7
    <3>2. g = WithReq(h, id, w)
      BY <2>8 DEF WithReq
    <3> QED BY ONLY <3>1, <3>2, SetReq
  <2>10. Elsewhere(f, g, id)
    BY <2>3a, <2>9, ElsewhereTwice
  <2>11. \A on : JobOn(g, on, id) <=> JobOn(h, on, id)
    BY <2>9 DEF JobOn
  <2>12. ~Waits(g, id) /\ Streaming(g, id)
    BY <2>3a, <2>7, <2>9 DEF Waits, Streaming
  <2>13. KeepsWaiting(h, g, id)
    BY <2>3a, <2>9, <2>11, <2>12 DEF KeepsWaiting, Connecting, Reading, KeepsRest
  <2>14. JobsAt(g, id)
    <3>1. ~(Connecting(g, id) /\ Reading(g, id))
      BY <2>3a, <2>13 DEF KeepsWaiting, JobsAt
    <3> QED BY <2>3a, <2>9, <2>11, <2>12, <3>1 DEF JobsAt, JobAt, KeepsRest
  <2>15. BodyAt(g, id)
    <3>1. PullAt(g, id)
      BY <2>3a, <2>9, <2>11, <2>12 DEF PullAt, BodyAt
    <3>2. g.req[id].chunks = h.req[id].chunks
      BY <2>4, <2>7, <2>9
    <3> QED BY <2>3a, <2>9, <3>1, <3>2 DEF BodyAt, KeepsRest
  <2>16. /\ g.told = f.told /\ g.sent = f.sent /\ g.end[id] = result /\ g.pending = ps
         /\ g.localPending = f.localPending /\ g.next = f.next
    BY <1>13, <1>15, <2>3a, <2>9 DEF KeepsRest
  <2>17. ~q.promise /\ f.told[id] # "nothing"
    BY <1>1, <1>2, <1>16 DEF ReqAt, Requests
  <2>18. ReqAt(g, id)
    <3>1. w.held = w.easy /\ w.complete = ~w.easy /\ w.promise = ~w.resolved
      BY <2>7, <2>17 DEF Requests
    <3>2. w.chunks # <<>> => w.received
      BY <1>1, <1>2, <2>5, <2>7 DEF ReqAt
    <3>3. ~w.received => g.sent[id] = 0
      BY <1>1, <1>2, <2>7, <2>16 DEF ReqAt
    <3>4. g.end[id] # "running" /\ g.end[id] # "denied" /\ ~w.revoked
      BY <1>14, <2>7, <2>16
    <3> QED BY <1>8, <2>7, <2>9, <2>12, <2>16, <2>17, <3>1, <3>2, <3>3, <3>4 DEF ReqAt
  <2>19. Core(g, id)
    BY <1>14, <2>9, <2>12, <2>14, <2>15, <2>16, <2>18 DEF Core
  <2>20. KeepsWaiting(f, g, id)
    BY <2>3a, <2>13 DEF KeepsWaiting
  <2>21. Prompt(g, id) /\ Calm(g, id) /\ ~g.req[id].promise
    BY <2>7, <2>9, <2>12, <2>17 DEF Prompt, Calm
  <2> QED BY <1>7, <1>8, <2>3a, <2>9, <2>10, <2>16, <2>19, <2>20, <2>21 DEF Moved
<1>17. CASE ~q.resolved
  <2>1. /\ q.promise /\ ~q.wait /\ ~Streaming(f, id) /\ f.told[id] = "nothing"
        /\ f.sent[id] = 0
    BY <1>1, <1>2, <1>17 DEF ReqAt, Requests, Prompt
  <2>2. PICK outcome : outcome = CASE result = "ok"      -> "response"
                                  [] result = "refused" -> "denied"
                                  [] result = "failed"  -> "network"
    OBVIOUS
  <2>3. PICK ok \in BOOLEAN : ok <=> outcome = "response"
    OBVIOUS
  <2>4. /\ outcome \in Told /\ outcome # "nothing"
        /\ outcome = "response" => result = "ok"
    BY <2>2 DEF Told
  <2>5. PICK h : h = Tell(e, id, outcome)
    OBVIOUS
  <2>6. TellResult(e, h, id, outcome, ok)
    <3>1. Of(e.jobs, id) = {}
      BY <1>2, <1>13, <2>1, NoJobsYet
    <3>2. Live(e, id) /\ e.req[id].promise /\ Once(e.jobs)
      BY <1>4, <1>13, <1>15, <2>1
    <3> QED BY <1>13, <2>3, <2>4, <2>5, <3>1, <3>2, TellDoes
  <2>7. /\ h.req[id] = [p EXCEPT !.promise = FALSE] /\ Live(h, id) /\ IsFetch(h)
        /\ h = [k \in Fields |-> h[k]]
    BY <1>15, <2>6 DEF TellResult, IsFetch
  <2>8. CallWaiter(h, id) = h
    <3>1. ~h.req[id].wait
      BY <1>4, <2>1, <2>7 DEF Requests
    <3> QED BY <3>1 DEF CallWaiter
  <2>9. PICK k : k = [h EXCEPT !.req[id].easy = FALSE, !.req[id].held = FALSE]
    OBVIOUS
  <2>10. g = Erase(k, id)
    BY <1>1, <1>12, <1>17, <2>2, <2>5, <2>8, <2>9 DEF Complete
  <2>11. g = Erase(h, id)
    <3>1. PICK a : a = [h EXCEPT !.req[id].easy = FALSE]
      OBVIOUS
    <3>2. k = [a EXCEPT !.req[id].held = FALSE]
      BY <2>9, <3>1
    <3>3. PICK s, u : s = [h.req[id] EXCEPT !.easy = FALSE] /\ u = [h.req EXCEPT ![id] = s]
      OBVIOUS
    <3>4. a = [h EXCEPT !.req = u]
      BY <3>1, <3>3
    <3>5. a.req = u /\ u[id] = s
      BY <2>7, <3>3, <3>4 DEF Fields, Live
    <3>6. PICK z, w : w = [s EXCEPT !.held = FALSE] /\ z = [u EXCEPT ![id] = w]
      OBVIOUS
    <3>7. k = [a EXCEPT !.req = z]
      BY <3>2, <3>5, <3>6
    <3>8. k = [h EXCEPT !.req = z] /\ k.req = z
      BY <2>7, <3>4, <3>7 DEF Fields
    <3>9. [d \in DOMAIN z \ {id} |-> z[d]] = [d \in DOMAIN h.req \ {id} |-> h.req[d]]
      BY <3>3, <3>6
    <3>10. PICK y : y = [d \in DOMAIN z \ {id} |-> z[d]]
      OBVIOUS
    <3>11. Erase(k, id) = [k EXCEPT !.req = y]
      BY <3>8, <3>10 DEF Erase
    <3>12. Erase(h, id) = [h EXCEPT !.req = y]
      BY <3>9, <3>10 DEF Erase
    <3> QED BY <2>7, <2>10, <3>8, <3>11, <3>12 DEF Fields
  <2>12. /\ Moved(f, g, id) /\ KeepsWaiting(f, g, id) /\ ~Live(g, id)
         /\ g.pending = e.pending /\ g.localPending = e.localPending /\ g.next = f.next
    <3>1. ~In(e.pending, id) /\ Injective(e.pending) /\ e.end[id] # "running"
          /\ (outcome = "response" => e.end[id] = "ok" /\ e.sent[id] = 0)
      BY <1>8, <1>13, <1>15, <2>1, <2>4
    <3>2. f.req[id].promise
      BY <1>1, <2>1
    <3> QED BY <1>13, <2>3, <2>4, <2>6, <2>11, <3>1, <3>2, GoneCore
  <2>13. Prompt(g, id) /\ Calm(g, id)
    BY <2>12 DEF Prompt, Calm, Waits
  <2> QED BY <1>7, <1>13, <2>12, <2>13
<1> QED BY <1>16, <1>17

-------------------------------------------------------------------------------
(* A request that is cut short.                                                    *)

LEMMA ReqTwice ==
  ASSUME NEW f, IsFetch(f), NEW id, Live(f, id), NEW v, NEW w
  PROVE  /\ WithReq(WithReq(f, id, v), id, w) = WithReq(f, id, w)
         /\ WithReq(f, id, v).req[id] = v
<1>1. f = [k \in Fields |-> f[k]] /\ id \in DOMAIN f.req
  BY DEF IsFetch, Live
<1>2. PICK t, u : t = [f.req EXCEPT ![id] = v] /\ u = [f.req EXCEPT ![id] = w]
  OBVIOUS
<1>3. PICK g : g = WithReq(f, id, v)
  OBVIOUS
<1>4. g = [f EXCEPT !.req = t]
  BY <1>1, <1>2, <1>3 DEF WithReq
<1>5. g.req = t /\ t[id] = v
  BY <1>1, <1>2, <1>4 DEF Fields
<1>6. u = [t EXCEPT ![id] = w]
  BY <1>2 DEF IsFetch, IsTable
<1>7. WithReq(g, id, w) = [g EXCEPT !.req = u]
  BY <1>5, <1>6 DEF WithReq
<1>8. WithReq(f, id, w) = [f EXCEPT !.req = u]
  BY <1>2 DEF WithReq
<1>9. [g EXCEPT !.req = u] = [f EXCEPT !.req = u]
  BY <1>1, <1>4 DEF Fields
<1> QED BY <1>3, <1>5, <1>7, <1>8, <1>9

\* What abortRequest() leaves of the entry before it calls the reader.
Dropped(q, p) ==
  /\ p \in Requests /\ ~p.easy /\ ~p.held /\ p.complete /\ p.chunks = <<>> /\ p.resolved
  /\ p.promise = q.promise /\ p.received = q.received /\ p.wait = q.wait

CutEnd(was, revoked) ==
  IF was = "running" THEN AbortOutcome(revoked) ELSE was

Cut(f, e, id, revoked) ==
  /\ IsFetch(e) /\ Elsewhere(f, e, id) /\ e.next = f.next /\ e.body = f.body
  /\ e.jobs = f.jobs /\ e.told = f.told /\ e.sent = f.sent /\ Live(e, id)
  /\ e.pending = RemoveFirst(f.pending, id) /\ e.localPending = RemoveFirst(f.localPending, id)
  /\ e.end[id] = CutEnd(f.end[id], revoked)
  /\ Dropped(f.req[id], e.req[id])
  /\ e.req[id].revoked <=> f.req[id].revoked \/ revoked

LEMMA CutDoes ==
  ASSUME NEW f, IsFetch(f), Injective(f.pending), Injective(f.localPending), NEW id \in Ids,
         Live(f, id), NEW revoked \in BOOLEAN, NEW e, e = CutOff(f, id, revoked)
  PROVE  Cut(f, e, id, revoked)
<1>0. PICK outcome \in Ends : outcome = AbortOutcome(revoked)
  BY DEF Ends, AbortOutcome
<1>1. PICK q : q = f.req[id]
  OBVIOUS
<1>2. q \in Requests /\ f = [k \in Fields |-> f[k]]
  BY <1>1 DEF IsFetch, IsTable, Live
<1>3. PICK ps, ls : ps = RemoveFirst(f.pending, id) /\ ls = RemoveFirst(f.localPending, id)
  OBVIOUS
<1>4. /\ ps \in Seq(Ids) /\ \A d : In(ps, d) <=> In(f.pending, d) /\ d # id
      /\ ls \in Seq(Ids) /\ \A d : In(ls, d) <=> In(f.localPending, d) /\ d # id
  <2>1. f.pending \in Seq(Ids) /\ f.localPending \in Seq(Ids)
    BY DEF IsFetch
  <2> QED BY <1>3, <2>1, IdRemoved
<1>5. PICK a0 : a0 = With(f, f.req, ps, ls, f.end)
  OBVIOUS
<1>6. /\ IsFetch(a0) /\ Live(a0, id) /\ a0.req = f.req /\ a0.end = f.end
      /\ a0 = [f EXCEPT !.pending = ps, !.localPending = ls]
  <2>1. /\ a0.req = f.req /\ a0.end = f.end /\ a0.pending = ps /\ a0.localPending = ls
        /\ a0.next = f.next /\ a0.body = f.body /\ a0.jobs = f.jobs /\ a0.told = f.told
        /\ a0.sent = f.sent /\ a0 = [k \in Fields |-> a0[k]]
        /\ a0 = [f EXCEPT !.pending = ps, !.localPending = ls]
    BY <1>2, <1>5 DEF With, Fields
  <2> QED BY <1>4, <2>1 DEF IsFetch, Live
<1>7. PICK v1, a1 : v1 = [q EXCEPT !.easy = FALSE] /\ a1 = [a0 EXCEPT !.req[id].easy = FALSE]
  OBVIOUS
<1>8. a1 = WithReq(a0, id, v1) /\ a1.req[id] = v1 /\ IsFetch(a1) /\ Live(a1, id) /\ v1 \in Requests
  <2>1. a0.req[id] = q /\ IsFetch(a0) /\ Live(a0, id) /\ q \in Requests
    BY <1>1, <1>2, <1>6
  <2>2. a1 = WithReq(a0, id, v1)
    BY <1>7, <2>1 DEF WithReq
  <2>3. v1 \in Requests
    BY <1>7, <2>1 DEF Requests
  <2>4. a1 = WithReq(a0, id, v1) /\ a1.req[id] = v1
    <3>1. WithReq(a0, id, v1).req[id] = v1
      BY <2>1, ReqTwice
    <3> QED BY <2>2, <3>1
  <2>5. IsFetch(a1) /\ Live(a1, id)
    <3>1. IsFetch(a0) /\ Live(a0, id) /\ id \in Ids
      BY <2>1
    <3> QED BY ONLY <2>2, <2>3, <3>1, SetReq
  <2> QED BY <2>3, <2>4, <2>5
<1>9. PICK v2, a2 : v2 = [v1 EXCEPT !.held = FALSE] /\ a2 = [a1 EXCEPT !.req[id].held = FALSE]
  OBVIOUS
<1>10. a2 = WithReq(a0, id, v2) /\ a2.req[id] = v2 /\ IsFetch(a2) /\ Live(a2, id) /\ v2 \in Requests
  <2>1. a1.req[id] = v1 /\ IsFetch(a0) /\ IsFetch(a1) /\ Live(a0, id) /\ Live(a1, id) /\ v1 \in Requests
    BY <1>1, <1>2, <1>6, <1>8
  <2>2. a2 = WithReq(a1, id, v2)
    BY <1>9, <2>1 DEF WithReq
  <2>3. v2 \in Requests
    BY <1>9, <2>1 DEF Requests
  <2>4. a2 = WithReq(a0, id, v2) /\ a2.req[id] = v2
    <3>1. /\ WithReq(WithReq(a0, id, v1), id, v2) = WithReq(a0, id, v2)
          /\ WithReq(a0, id, v2).req[id] = v2
      BY <2>1, ReqTwice
    <3>2. a1 = WithReq(a0, id, v1)
      BY <1>8
    <3> QED BY <2>2, <3>1, <3>2
  <2>5. IsFetch(a2) /\ Live(a2, id)
    <3>1. IsFetch(a1) /\ Live(a1, id) /\ id \in Ids
      BY <2>1
    <3> QED BY ONLY <2>2, <2>3, <3>1, SetReq
  <2> QED BY <2>3, <2>4, <2>5
<1>11. PICK v3, a3 : v3 = [v2 EXCEPT !.revoked = f.req[id].revoked \/ revoked] /\ a3 = [a2 EXCEPT !.req[id].revoked = f.req[id].revoked \/ revoked]
  OBVIOUS
<1>12. a3 = WithReq(a0, id, v3) /\ a3.req[id] = v3 /\ IsFetch(a3) /\ Live(a3, id) /\ v3 \in Requests
  <2>1. a2.req[id] = v2 /\ IsFetch(a0) /\ IsFetch(a2) /\ Live(a0, id) /\ Live(a2, id) /\ v2 \in Requests
    BY <1>1, <1>2, <1>6, <1>10
  <2>2. a3 = WithReq(a2, id, v3)
    BY <1>11, <2>1 DEF WithReq
  <2>3. v3 \in Requests
    <3>1. PICK b \in BOOLEAN : b = (f.req[id].revoked \/ revoked)
      OBVIOUS
    <3>2. v3 = [v2 EXCEPT !.revoked = b]
      BY <1>11, <3>1
    <3> QED BY ONLY <2>1, <3>1, <3>2 DEF Requests
  <2>4. a3 = WithReq(a0, id, v3) /\ a3.req[id] = v3
    <3>1. /\ WithReq(WithReq(a0, id, v2), id, v3) = WithReq(a0, id, v3)
          /\ WithReq(a0, id, v3).req[id] = v3
      BY <2>1, ReqTwice
    <3>2. a2 = WithReq(a0, id, v2)
      BY <1>10
    <3> QED BY <2>2, <3>1, <3>2
  <2>5. IsFetch(a3) /\ Live(a3, id)
    <3>1. IsFetch(a2) /\ Live(a2, id) /\ id \in Ids
      BY <2>1
    <3> QED BY ONLY <2>2, <2>3, <3>1, SetReq
  <2> QED BY <2>3, <2>4, <2>5
<1>13. PICK v4, a4 : v4 = [v3 EXCEPT !.complete = TRUE] /\ a4 = [a3 EXCEPT !.req[id].complete = TRUE]
  OBVIOUS
<1>14. a4 = WithReq(a0, id, v4) /\ a4.req[id] = v4 /\ IsFetch(a4) /\ Live(a4, id) /\ v4 \in Requests
  <2>1. a3.req[id] = v3 /\ IsFetch(a0) /\ IsFetch(a3) /\ Live(a0, id) /\ Live(a3, id) /\ v3 \in Requests
    BY <1>1, <1>2, <1>6, <1>12
  <2>2. a4 = WithReq(a3, id, v4)
    BY <1>13, <2>1 DEF WithReq
  <2>3. v4 \in Requests
    BY <1>13, <2>1 DEF Requests
  <2>4. a4 = WithReq(a0, id, v4) /\ a4.req[id] = v4
    <3>1. /\ WithReq(WithReq(a0, id, v3), id, v4) = WithReq(a0, id, v4)
          /\ WithReq(a0, id, v4).req[id] = v4
      BY <2>1, ReqTwice
    <3>2. a3 = WithReq(a0, id, v3)
      BY <1>12
    <3> QED BY <2>2, <3>1, <3>2
  <2>5. IsFetch(a4) /\ Live(a4, id)
    <3>1. IsFetch(a3) /\ Live(a3, id) /\ id \in Ids
      BY <2>1
    <3> QED BY ONLY <2>2, <2>3, <3>1, SetReq
  <2> QED BY <2>3, <2>4, <2>5
<1>15. PICK v5, a5 : v5 = [v4 EXCEPT !.chunks = <<>>] /\ a5 = [a4 EXCEPT !.req[id].chunks = <<>>]
  OBVIOUS
<1>16. a5 = WithReq(a0, id, v5) /\ a5.req[id] = v5 /\ IsFetch(a5) /\ Live(a5, id) /\ v5 \in Requests
  <2>1. a4.req[id] = v4 /\ IsFetch(a0) /\ IsFetch(a4) /\ Live(a0, id) /\ Live(a4, id) /\ v4 \in Requests
    BY <1>1, <1>2, <1>6, <1>14
  <2>2. a5 = WithReq(a4, id, v5)
    BY <1>15, <2>1 DEF WithReq
  <2>3. v5 \in Requests
    <3>1. PICK cs \in Seq(Chunks) : cs = <<>>
      <4>1. <<>> \in Seq(Chunks)
        OBVIOUS
      <4> QED BY <4>1
    <3>2. v5 = [v4 EXCEPT !.chunks = cs]
      BY <1>15, <3>1
    <3> QED BY ONLY <2>1, <3>1, <3>2 DEF Requests
  <2>4. a5 = WithReq(a0, id, v5) /\ a5.req[id] = v5
    <3>1. /\ WithReq(WithReq(a0, id, v4), id, v5) = WithReq(a0, id, v5)
          /\ WithReq(a0, id, v5).req[id] = v5
      BY <2>1, ReqTwice
    <3>2. a4 = WithReq(a0, id, v4)
      BY <1>14
    <3> QED BY <2>2, <3>1, <3>2
  <2>5. IsFetch(a5) /\ Live(a5, id)
    <3>1. IsFetch(a4) /\ Live(a4, id) /\ id \in Ids
      BY <2>1
    <3> QED BY ONLY <2>2, <2>3, <3>1, SetReq
  <2> QED BY <2>3, <2>4, <2>5
<1>17. PICK v6, a6 : v6 = [v5 EXCEPT !.resolved = TRUE] /\ a6 = [a5 EXCEPT !.req[id].resolved = TRUE]
  OBVIOUS
<1>18. a6 = WithReq(a0, id, v6) /\ a6.req[id] = v6 /\ IsFetch(a6) /\ Live(a6, id) /\ v6 \in Requests
  <2>1. a5.req[id] = v5 /\ IsFetch(a0) /\ IsFetch(a5) /\ Live(a0, id) /\ Live(a5, id) /\ v5 \in Requests
    BY <1>1, <1>2, <1>6, <1>16
  <2>2. a6 = WithReq(a5, id, v6)
    BY <1>17, <2>1 DEF WithReq
  <2>3. v6 \in Requests
    BY <1>17, <2>1 DEF Requests
  <2>4. a6 = WithReq(a0, id, v6) /\ a6.req[id] = v6
    <3>1. /\ WithReq(WithReq(a0, id, v5), id, v6) = WithReq(a0, id, v6)
          /\ WithReq(a0, id, v6).req[id] = v6
      BY <2>1, ReqTwice
    <3>2. a5 = WithReq(a0, id, v5)
      BY <1>16
    <3> QED BY <2>2, <3>1, <3>2
  <2>5. IsFetch(a6) /\ Live(a6, id)
    <3>1. IsFetch(a5) /\ Live(a5, id) /\ id \in Ids
      BY <2>1
    <3> QED BY ONLY <2>2, <2>3, <3>1, SetReq
  <2> QED BY <2>3, <2>4, <2>5
<1>19. e = [a6 EXCEPT !.end[id] = IF f.end[id] = "running" THEN outcome ELSE f.end[id]]
  <2>1. a0 = [f EXCEPT !.pending = RemoveFirst(@, id), !.localPending = RemoveFirst(@, id)]
    BY <1>3, <1>6
  <2> QED BY <1>7, <1>9, <1>11, <1>13, <1>15, <1>17, <1>0, <2>1 DEF CutOff
<1>20. PICK t, m : t = [f.req EXCEPT ![id] = v6] /\ m = [f.end EXCEPT ![id] = CutEnd(@, revoked)]
  OBVIOUS
<1>21. /\ IsTable(t, Requests) /\ DOMAIN t = DOMAIN f.req /\ t[id] = v6
      /\ \A d \in DOMAIN f.req : d # id => t[d] = f.req[d]
  <2>1. id \in DOMAIN f.req /\ IsTable(f.req, Requests) /\ v6 \in Requests
    BY <1>18 DEF Live, IsFetch
  <2> QED BY <1>20, <2>1, TableSet
<1>22. m \in [Ids -> Ends] /\ m[id] = CutEnd(f.end[id], revoked) /\ \A d \in Ids : d # id => m[d] = f.end[d]
  <2>1. CutEnd(f.end[id], revoked) \in Ends
    BY DEF CutEnd, AbortOutcome, Ends, IsFetch
  <2> QED BY <1>20, <2>1 DEF IsFetch
<1>23. e = With(f, t, ps, ls, m)
  <2>1. a6 = [a0 EXCEPT !.req = t]
    BY <1>6, <1>18, <1>20 DEF WithReq
  <2>2. a6 = [f EXCEPT !.pending = ps, !.localPending = ls, !.req = t] /\ a6.end = f.end
    BY <1>2, <1>6, <2>1 DEF Fields
  <2>3. (IF f.end[id] = "running" THEN outcome ELSE f.end[id]) = CutEnd(f.end[id], revoked)
    BY <1>0 DEF CutEnd
  <2>4. e = [a6 EXCEPT !.end = m]
    <3>1. PICK was : was = f.end[id]
      OBVIOUS
    <3>2. e = [a6 EXCEPT !.end[id] = IF was = "running" THEN outcome ELSE was]
      BY <1>19, <3>1
    <3>3. e = [a6 EXCEPT !.end[id] = CutEnd(was, revoked)]
      BY <2>3, <3>1, <3>2
    <3>4. m = [a6.end EXCEPT ![id] = CutEnd(was, revoked)]
      BY <1>20, <2>2, <3>1
    <3> QED BY <3>3, <3>4
  <2> QED BY <1>2, <2>2, <2>4 DEF With, Fields
<1>24. /\ IsFetch(e) /\ Elsewhere(f, e, id)
      /\ e.req = t /\ e.pending = ps /\ e.localPending = ls /\ e.end = m
      /\ e.next = f.next /\ e.body = f.body /\ e.jobs = f.jobs
      /\ e.told = f.told /\ e.sent = f.sent
  <2>1. \A d \in Ids : d # id => (In(ps, d) <=> In(f.pending, d))
    BY <1>4
  <2>2. DOMAIN t \union {id} = DOMAIN f.req \union {id}
        /\ \A d \in DOMAIN t : d # id => t[d] = f.req[d]
    BY <1>21
  <2>3. ps \in Seq(Ids) /\ ls \in Seq(Ids) /\ IsTable(t, Requests) /\ IsFetch(f) /\ id \in Ids
    BY <1>4, <1>21
  <2>4. m \in [Ids -> Ends] /\ \A d \in Ids : d # id => m[d] = f.end[d]
    BY <1>22
  <2> QED BY ONLY <1>23, <2>1, <2>2, <2>3, <2>4, WithDoes, SMTT(30)
<1>25. Live(e, id) /\ e.req[id] = v6
  BY <1>21, <1>24 DEF Live
<1>26. Dropped(q, v6) /\ (v6.revoked <=> q.revoked \/ revoked)
  <2>1. v1 = [q EXCEPT !.easy = FALSE] /\ v2 = [v1 EXCEPT !.held = FALSE]
    BY <1>7, <1>9
  <2>2. PICK b \in BOOLEAN : b <=> q.revoked \/ revoked
    OBVIOUS
  <2>3. v3 = [v2 EXCEPT !.revoked = b]
    BY <1>1, <1>11, <2>2
  <2>4. /\ v3 \in Requests /\ ~v3.easy /\ ~v3.held /\ v3.revoked = b /\ v3.promise = q.promise
        /\ v3.received = q.received /\ v3.wait = q.wait
    BY <1>2, <1>12, <2>1, <2>3 DEF Requests
  <2>5. v4 = [v3 EXCEPT !.complete = TRUE] /\ v5 = [v4 EXCEPT !.chunks = << >>] /\ v6 = [v5 EXCEPT !.resolved = TRUE]
    BY <1>13, <1>15, <1>17
  <2>6. /\ ~v6.easy /\ ~v6.held /\ v6.revoked = b /\ v6.promise = q.promise
        /\ v6.received = q.received /\ v6.wait = q.wait /\ v6.complete /\ v6.chunks = <<>> /\ v6.resolved
    BY <2>4, <2>5 DEF Requests
  <2> QED BY <1>18, <2>2, <2>6 DEF Dropped
<1> QED BY <1>1, <1>3, <1>22, <1>24, <1>25, <1>26 DEF Cut

\* The promise was settled: what is left is a body, whose reader is called if it waits.
LEMMA CutBody ==
  ASSUME NEW f, IsFetch(f), Once(f.jobs), Injective(f.pending), NEW id \in Ids, Core(f, id),
         Live(f, id), f.req[id].resolved, NEW revoked \in BOOLEAN,
         revoked => f.req[id].easy,
         NEW e, Cut(f, e, id, revoked), NEW h, h = CallWaiter(e, id)
  PROVE  /\ Moved(f, h, id) /\ KeepsWaiting(f, h, id)
         /\ h.pending = e.pending /\ h.localPending = e.localPending /\ h.next = f.next
         /\ Prompt(h, id) /\ Calm(h, id) /\ (Live(h, id) => ~h.req[id].promise)
         /\ h.told = f.told
<1>1. PICK q, p : q = f.req[id] /\ p = e.req[id]
  OBVIOUS
<1>2. q \in Requests /\ ReqAt(f, id) /\ JobsAt(f, id)
  BY <1>1 DEF IsFetch, IsTable, Live, Core
<1>3. /\ p \in Requests /\ ~p.easy /\ ~p.held /\ p.complete /\ p.chunks = <<>> /\ p.resolved
      /\ p.promise = q.promise /\ p.received = q.received /\ p.wait = q.wait
      /\ (p.revoked <=> q.revoked \/ revoked)
  BY <1>1 DEF Cut, Dropped
<1>4. /\ IsFetch(e) /\ Elsewhere(f, e, id) /\ e.next = f.next /\ e.body = f.body
      /\ e.jobs = f.jobs /\ e.told = f.told /\ e.sent = f.sent /\ Live(e, id)
      /\ e.end[id] = CutEnd(f.end[id], revoked)
  BY DEF Cut
<1>5. Injective(e.pending) /\ ~In(e.pending, id)
  <2>1. f.pending \in Seq(Ids) /\ e.pending = RemoveFirst(f.pending, id)
    BY DEF IsFetch, Cut
  <2> QED BY <2>1, IdRemoved
<1>6. /\ Streaming(f, id) /\ ~q.promise /\ f.told[id] # "nothing" /\ q.resolved
      /\ Streaming(e, id) /\ BodyAt(f, id) /\ id < f.next
  BY <1>1, <1>2, <1>4, LiveIsBorn DEF ReqAt, Requests, Streaming, Core
<1>7. /\ e.end[id] # "running" /\ (e.end[id] = "denied" <=> p.revoked)
      /\ f.end[id] # "running" => e.end[id] = f.end[id]
  BY <1>1, <1>2, <1>3, <1>4 DEF CutEnd, AbortOutcome, ReqAt
<1>8. \A on : JobOn(e, on, id) <=> JobOn(f, on, id)
  BY <1>4 DEF JobOn
<1>9. KeepsWaiting(f, e, id)
  BY <1>4, <1>6, <1>7, <1>8 DEF KeepsWaiting, Connecting, Reading, Streaming
<1>10. JobsAt(e, id)
  <2>1. \A j \in Of(e.jobs, id) : JobAt(e, id, j)
    <3> SUFFICES ASSUME NEW j \in Of(f.jobs, id) PROVE JobAt(e, id, j)
      BY <1>4
    <3>1. JobAt(f, id, j)
      BY <1>2 DEF JobsAt
    <3>2. f.end[id] = "denied" => e.end[id] = "denied"
      BY <1>7
    <3>3. f.end[id] \notin {"running", "denied"} => e.end[id] \notin {"running", "denied"}
      BY <1>7
    <3> QED BY <1>4, <3>1, <3>2, <3>3 DEF JobAt
  <2>2. ~(Connecting(e, id) /\ Reading(e, id))
    BY <1>2, <1>9 DEF JobsAt, KeepsWaiting
  <2> QED BY <1>2, <1>4, <1>6, <1>8, <2>1, <2>2 DEF JobsAt
<1>11. Waits(e, id) <=> Waits(f, id)
  BY <1>1, <1>3, <1>4 DEF Waits
<1>12. PICK r : r = f.body[id] /\ r = e.body[id]
  BY <1>4
<1>13. StreamAt(e, id)
  <2>1. r.state = "closed" => e.end[id] \notin {"running", "denied"} /\ e.req[id].chunks = <<>>
    BY <1>1, <1>3, <1>6, <1>7, <1>12 DEF BodyAt
  <2>2. r.state = "errored" => e.end[id] = "denied"
    BY <1>6, <1>7, <1>12 DEF BodyAt
  <2> QED BY <1>4, <1>6, <1>12, <2>1, <2>2 DEF StreamAt, BodyAt
<1>14. PullAt(e, id)
  BY <1>4, <1>6, <1>8, <1>11 DEF PullAt, BodyAt
<1>15. BodyAt(e, id)
  BY <1>13, <1>14 DEF BodyAt, StreamAt
<1>16. CASE ~p.wait
  <2>1. h = e
    BY <1>1, <1>16 DEF CallWaiter
  <2>2. ~Waits(e, id)
    BY <1>1, <1>16 DEF Waits
  <2>3. ReqAt(e, id)
    <3>1. p.held = p.easy /\ p.complete = ~p.easy /\ p.promise = ~p.resolved
      BY <1>3, <1>6 DEF Requests
    <3>2. ~p.received => e.sent[id] = 0
      BY <1>1, <1>2, <1>3, <1>4 DEF ReqAt
    <3> QED BY <1>1, <1>3, <1>4, <1>5, <1>6, <1>7, <1>16, <3>1, <3>2 DEF ReqAt
  <2>4. Core(e, id)
    BY <1>4, <1>6, <1>10, <1>15, <2>3, LiveIsBorn DEF Core
  <2>5. Prompt(e, id) /\ Calm(e, id)
    BY <1>1, <1>3, <2>2 DEF Prompt, Calm
  <2>6. Once(e.jobs)
    BY <1>4
  <2>7. h.told = f.told
    BY <1>4, <2>1
  <2> QED BY <1>1, <1>3, <1>4, <1>5, <1>6, <1>9, <2>1, <2>4, <2>5, <2>6, <2>7 DEF Moved
<1>17. CASE p.wait
  <2>1. Due(e, id)
    <3>1. ~p.received => e.sent[id] = 0
      BY <1>1, <1>2, <1>3, <1>4 DEF ReqAt
    <3> QED BY <1>1, <1>3, <1>4, <1>6, <1>7, <1>10, <1>13, <1>14, <1>17, <3>1 DEF Due
  <2>2. /\ Serving(e, h, id) /\ Streaming(h, id)
        /\ IsFetch(h) /\ Once(h.jobs) /\ KeepsRest(e, h) /\ Elsewhere(e, h, id)
    <3>1. Once(e.jobs) /\ IsFetch(e) /\ id \in Ids
      BY <1>4
    <3>2. h = CallWaiter(e, id)
      OBVIOUS
    <3> QED BY ONLY <2>1, <3>1, <3>2, WaiterDoes
  <2>3. PICK v : v = h.req[id]
    OBVIOUS
  <2>4. Live(h, id) => /\ v = [p EXCEPT !.chunks = v.chunks, !.wait = v.wait]
                       /\ v.chunks = <<>> /\ ~v.wait
    BY <1>1, <1>3, <2>2, <2>3 DEF Serving
  <2>5. Live(h, id) => /\ ~v.easy /\ ~v.held /\ v.promise = p.promise /\ v.resolved /\ v.complete
                       /\ v.received = p.received /\ v.revoked = p.revoked /\ v \in Requests
    <3>1. Live(h, id) => v \in Requests
      BY <2>2, <2>3 DEF IsFetch, IsTable, Live
    <3> QED BY <1>3, <2>4, <3>1 DEF Requests
  <2>6. ~Waits(h, id)
    BY <2>3, <2>4 DEF Waits
  <2>7. /\ h.next = f.next /\ h.told = f.told /\ h.sent = f.sent /\ h.end = e.end
        /\ h.pending = e.pending /\ h.localPending = e.localPending
    BY <1>4, <2>2 DEF KeepsRest
  <2>8. Live(h, id) => ReqAt(h, id)
    <3> SUFFICES ASSUME Live(h, id) PROVE ReqAt(h, id)
      OBVIOUS
    <3>1. v.held = v.easy /\ v.complete = ~v.easy /\ v.promise = ~v.resolved
      BY <1>3, <1>6, <2>5 DEF Requests
    <3>2. ~v.received => h.sent[id] = 0
      BY <1>1, <1>2, <1>3, <2>5, <2>7 DEF ReqAt
    <3> QED BY <1>3, <1>5, <1>6, <1>7, <2>2, <2>3, <2>4, <2>5, <2>7, <3>1, <3>2 DEF ReqAt
  <2>9. GoneAt(h, id)
    BY <1>5, <1>6, <1>7, <2>7 DEF GoneAt
  <2>10. Core(h, id)
    <3>1. ~(id >= h.next)
      BY <1>2, <2>7, LiveIsBorn
    <3> QED BY <2>2, <2>8, <2>9, <3>1 DEF Core, Serving
  <2>11. Prompt(h, id) /\ Calm(h, id)
    BY <2>3, <2>5, <2>6 DEF Prompt, Calm
  <2>12. Elsewhere(f, h, id)
    BY <1>4, <2>2, ElsewhereTwice
  <2>13. KeepsWaiting(f, h, id)
    BY <1>9, <2>2 DEF KeepsWaiting, Serving
  <2>14. Injective(h.pending)
    BY <1>5, <2>7
  <2>15. Live(h, id) => ~h.req[id].promise
    BY <1>3, <1>6, <2>3, <2>5
  <2> QED BY <2>2, <2>7, <2>10, <2>11, <2>12, <2>13, <2>14, <2>15 DEF Moved
<1> QED BY <1>16, <1>17

\* What a step about request id leaves of the local responses that are parked.
ParkedAt(f, d) == In(f.localPending, d) <=> Live(f, d) /\ ~f.req[d].easy /\ f.req[d].promise
ParkedElsewhere(f, g, id) == \A d \in Ids : d # id => (In(g.localPending, d) <=> In(f.localPending, d))

LEMMA AbortDoes ==
  ASSUME NEW f, IsFetch(f), Once(f.jobs), Injective(f.pending), Injective(f.localPending),
         NEW id \in Ids, Core(f, id), Prompt(f, id), Calm(f, id), ParkedAt(f, id),
         NEW revoked \in BOOLEAN, NEW g, g = AbortRequest(f, id, revoked)
  PROVE  /\ Moved(f, g, id) /\ KeepsWaiting(f, g, id) /\ g.next = f.next
         /\ Prompt(g, id) /\ Calm(g, id)
         /\ Injective(g.localPending) /\ ParkedAt(g, id) /\ ParkedElsewhere(f, g, id)
         /\ f.told[id] # "nothing" => g.told[id] = f.told[id]
<1>1. CASE ~Live(f, id) \/ (revoked /\ ~f.req[id].easy)
  <2>1. g = f
    <3>1. g = AbortRequest(f, id, revoked)
      OBVIOUS
    <3> QED BY ONLY <1>1, <3>1, Zenon DEF AbortRequest
  <2> QED BY <2>1, ElsewhereItself DEF Moved, KeepsWaiting, ParkedElsewhere
<1>2. CASE ~(~Live(f, id) \/ (revoked /\ ~f.req[id].easy))
  <2>1. PICK outcome \in Ends : outcome = AbortOutcome(revoked)
    BY DEF Ends, AbortOutcome
  <2>2. PICK e : e = CutOff(f, id, revoked)
    OBVIOUS
  <2>3. Live(f, id) /\ (revoked => f.req[id].easy)
    BY <1>2
  <2>4. Cut(f, e, id, revoked)
    <3>1. IsFetch(f) /\ Injective(f.pending) /\ Injective(f.localPending) /\ id \in Ids
          /\ revoked \in BOOLEAN
      OBVIOUS
    <3> QED BY ONLY <2>2, <2>3, <3>1, CutDoes
  <2>5. /\ Injective(e.pending) /\ ~In(e.pending, id) /\ e.pending \in Seq(Ids)
        /\ Injective(e.localPending) /\ ~In(e.localPending, id)
        /\ ParkedElsewhere(f, e, id)
    <3>1. f.pending \in Seq(Ids) /\ e.pending = RemoveFirst(f.pending, id)
          /\ f.localPending \in Seq(Ids) /\ e.localPending = RemoveFirst(f.localPending, id)
      BY <2>4 DEF IsFetch, Cut
    <3> QED BY <3>1, IdRemoved DEF ParkedElsewhere
  <2>6. CASE f.req[id].resolved
    <3>1. g = CallWaiter(e, id)
      <4>1. g = AbortRequest(f, id, revoked)
        OBVIOUS
      <4> QED BY ONLY <1>2, <2>1, <2>2, <2>6, <4>1, Zenon DEF AbortRequest
    <3>2. /\ Moved(f, g, id) /\ KeepsWaiting(f, g, id)
          /\ g.pending = e.pending /\ g.localPending = e.localPending /\ g.next = f.next
          /\ Prompt(g, id) /\ Calm(g, id) /\ (Live(g, id) => ~g.req[id].promise)
          /\ g.told = f.told
      <4>1. IsFetch(f) /\ Once(f.jobs) /\ Injective(f.pending) /\ id \in Ids /\ Core(f, id)
            /\ revoked \in BOOLEAN
        OBVIOUS
      <4> QED BY ONLY <2>3, <2>4, <2>6, <3>1, <4>1, CutBody
    <3> QED BY <2>5, <3>2 DEF ParkedAt, ParkedElsewhere
  <2>7. CASE ~f.req[id].resolved
    <3>1. PICK q, p : q = f.req[id] /\ p = e.req[id]
      OBVIOUS
    <3>2. q \in Requests /\ ReqAt(f, id) /\ JobsAt(f, id)
      BY <2>3, <3>1 DEF IsFetch, IsTable, Live, Core
    <3>3. /\ q.promise /\ ~q.wait /\ ~Streaming(f, id) /\ f.told[id] = "nothing" /\ id < f.next
      BY <2>3, <2>7, <3>1, <3>2, LiveIsBorn DEF ReqAt, Requests
    <3>4. /\ p \in Requests /\ p.promise /\ ~p.wait
          /\ IsFetch(e) /\ Elsewhere(f, e, id) /\ e.next = f.next /\ e.body = f.body
          /\ e.jobs = f.jobs /\ Live(e, id) /\ e.end[id] # "running"
      BY <2>4, <3>1, <3>3 DEF Cut, Dropped, CutEnd, AbortOutcome
    <3>5. PICK ok \in BOOLEAN : ok <=> outcome = "response"
      OBVIOUS
    <3>6. PICK h : h = Tell(e, id, outcome)
      OBVIOUS
    <3>7. outcome \in Told /\ outcome # "nothing" /\ outcome # "response"
      BY <2>1 DEF Told, AbortOutcome
    <3>8. TellResult(e, h, id, outcome, ok)
      <4>1. Of(e.jobs, id) = {}
        BY <3>2, <3>3, <3>4, NoJobsYet
      <4>2. Live(e, id) /\ e.req[id].promise /\ Once(e.jobs) /\ IsFetch(e) /\ id \in Ids
        BY <3>1, <3>4
      <4> QED BY ONLY <3>5, <3>6, <3>7, <4>1, <4>2, TellDoes
    <3>9. Live(h, id) /\ h.req[id] = [p EXCEPT !.promise = FALSE]
      BY <3>1, <3>8 DEF TellResult
    <3>10. CallWaiter(h, id) = h
      <4>1. ~h.req[id].wait
        BY <3>4, <3>9 DEF Requests
      <4> QED BY <4>1 DEF CallWaiter
    <3>11. g = Erase(h, id)
      <4>1. g = AbortRequest(f, id, revoked)
        OBVIOUS
      <4> QED BY ONLY <1>2, <2>1, <2>2, <2>7, <3>6, <3>9, <3>10, <4>1, Zenon DEF AbortRequest
    <3>12. /\ Moved(f, g, id) /\ KeepsWaiting(f, g, id) /\ ~Live(g, id)
           /\ g.pending = e.pending /\ g.localPending = e.localPending /\ g.next = f.next
      <4>1. f.req[id].promise /\ (outcome = "response" => e.end[id] = "ok" /\ e.sent[id] = 0)
        BY <3>1, <3>3, <3>7
      <4>2. IsFetch(f) /\ id \in Ids /\ Core(f, id)
        OBVIOUS
      <4> QED BY ONLY <2>3, <2>5, <3>4, <3>5, <3>7, <3>8, <3>11, <4>1, <4>2, GoneCore
    <3>13. Prompt(g, id) /\ Calm(g, id)
      BY <3>12 DEF Prompt, Calm, Waits
    <3> QED BY <2>5, <3>3, <3>12, <3>13 DEF ParkedAt, ParkedElsewhere
  <2> QED BY <2>6, <2>7
<1> QED BY <1>1, <1>2

-------------------------------------------------------------------------------
(* A call of fetch(): a request that was not there.                                *)

Born(f, g, id) ==
  /\ Moved(f, g, id) /\ g.next = f.next + 1 /\ Prompt(g, id) /\ Calm(g, id)
  /\ Connecting(g, id) /\ ~Reading(g, id)
  /\ Injective(g.localPending) /\ ParkedAt(g, id) /\ ParkedElsewhere(f, g, id)

Entered(f, t, ps, ls, n) ==
  [f EXCEPT !.req = t, !.pending = ps, !.localPending = ls, !.next = n]

LEMMA EnteredDoes ==
  ASSUME NEW f, IsFetch(f), Once(f.jobs), NEW id \in Ids, id = f.next, Core(f, id),
         NEW http \in BOOLEAN, NEW t, t = Enter(f.req, id, NewRequest(http)),
         NEW ps \in Seq(Ids), Injective(ps), \A d : In(ps, d) <=> In(f.pending, d) \/ (http /\ d = id),
         NEW ls \in Seq(Ids), Injective(ls),
         \A d : In(ls, d) <=> In(f.localPending, d) \/ (~http /\ d = id), ParkedAt(f, id),
         NEW n, n = f.next + 1,
         NEW g, g = Entered(f, t, ps, ls, n)
  PROVE  Born(f, g, id)
<1>1. /\ f = [k \in Fields |-> f[k]] /\ MaxRequests \in Nat /\ f.next \in Nat
      /\ f.next \in 1 .. MaxRequests + 1
  BY FetchAssumption DEF IsFetch
<1>2. /\ g.req = t /\ g.pending = ps /\ g.localPending = ls /\ g.end = f.end
      /\ g.next = n /\ g.body = f.body /\ g.jobs = f.jobs
      /\ g.told = f.told /\ g.sent = f.sent /\ g = [k \in Fields |-> g[k]]
  BY <1>1 DEF Entered, Fields
<1>3. PICK p : p = NewRequest(http)
  OBVIOUS
<1>4. /\ p.easy = http /\ p.held = http /\ p.promise /\ ~p.resolved /\ p.complete = ~http
      /\ ~p.received /\ p.chunks = <<>> /\ ~p.wait /\ ~p.revoked /\ p \in Requests
  <2>1. <<>> \in Seq(Chunks)
    OBVIOUS
  <2> QED BY <1>3, <2>1 DEF NewRequest, Requests
<1>5. Unborn(f, id) /\ ~In(f.pending, id) /\ JobsAt(f, id) /\ ~In(f.localPending, id)
  <2>1. id >= f.next
    BY <1>1
  <2>2. Unborn(f, id) /\ JobsAt(f, id)
    BY <2>1 DEF Core
  <2>3. ~Live(f, id)
    BY <2>2 DEF Unborn
  <2> QED BY <2>2, <2>3 DEF Core, GoneAt, ParkedAt
<1>6. /\ DOMAIN t = DOMAIN f.req \union {id} /\ t[id] = p
      /\ \A d \in DOMAIN f.req : d # id => t[d] = f.req[d]
      /\ IsTable(t, Requests)
  <2>1. IsTable(f.req, Requests)
    BY DEF IsFetch
  <2> QED BY <1>3, <1>4, <2>1 DEF Enter, IsTable
<1>7. n \in 1 .. MaxRequests + 1
  BY <1>1 DEF Ids
<1>8. IsFetch(g)
  BY <1>2, <1>6, <1>7 DEF IsFetch
<1>9. Elsewhere(f, g, id)
  <2> SUFFICES ASSUME NEW d \in Ids, d # id PROVE Same(f, g, d)
    BY DEF Elsewhere
  <2>1. d < n <=> d < f.next
    BY <1>1 DEF Ids
  <2>2. In(ps, d) <=> In(f.pending, d)
    OBVIOUS
  <2>3. (Live(g, d) <=> Live(f, d)) /\ (Live(f, d) => g.req[d] = f.req[d])
    BY <1>2, <1>6 DEF Live
  <2> QED BY <1>2, <2>1, <2>2, <2>3 DEF Same, Streaming
<1>10. /\ Live(g, id) /\ g.req[id] = p /\ ~Streaming(g, id) /\ id < g.next
       /\ g.told[id] = "nothing" /\ g.end[id] = "running" /\ g.sent[id] = 0 /\ Of(g.jobs, id) = {}
  <2>1. id < g.next
    BY ONLY <1>1, <1>2, id = f.next, n = f.next + 1
  <2>2. Live(g, id) /\ g.req[id] = p
    BY <1>2, <1>6 DEF Live
  <2> QED BY <1>2, <1>5, <2>1, <2>2 DEF Streaming, Unborn
<1>11. \A on : ~JobOn(g, on, id)
  BY <1>10 DEF JobOn
<1>12. Connecting(g, id) /\ ~Reading(g, id) /\ ~Waits(g, id)
  BY <1>4, <1>10, <1>11 DEF Connecting, Reading, Waits
<1>13. JobsAt(g, id)
  BY <1>10, <1>11, <1>12 DEF JobsAt
<1>14. ReqAt(g, id)
  <2>1. p.held = p.easy /\ p.complete = ~p.easy /\ p.promise = ~p.resolved
    BY <1>4 DEF Requests
  <2>2. p.easy <=> In(g.pending, id)
    BY <1>2, <1>4, <1>5
  <2> QED BY <1>4, <1>10, <2>1, <2>2 DEF ReqAt
<1>15. Core(g, id)
  <2>1. ~(id >= g.next)
    BY ONLY <1>1, <1>2, id = f.next, n = f.next + 1
  <2> QED BY <1>10, <1>13, <1>14, <2>1 DEF Core
<1>16. Prompt(g, id) /\ Calm(g, id)
  BY <1>4, <1>10, <1>12 DEF Prompt, Calm
<1>17. ParkedAt(g, id)
  BY <1>2, <1>4, <1>5, <1>10 DEF ParkedAt
<1>18. ParkedElsewhere(f, g, id)
  BY <1>2 DEF ParkedElsewhere
<1>19. Injective(g.pending) /\ Injective(g.localPending) /\ Once(g.jobs)
  BY <1>2
<1>20. Moved(f, g, id)
  BY <1>8, <1>9, <1>15, <1>19 DEF Moved
<1> QED BY <1>2, <1>12, <1>16, <1>17, <1>18, <1>19, <1>20 DEF Born

LEMMA StartDoes ==
  ASSUME NEW f, IsFetch(f), Once(f.jobs), Injective(f.pending), Injective(f.localPending),
         NEW id \in Ids, id = f.next, Core(f, id), ParkedAt(f, id),
         NEW g, g = StartTransfer(f)
  PROVE  Born(f, g, id)
<1>1. f = [k \in Fields |-> f[k]] /\ f.pending \in Seq(Ids) /\ f.localPending \in Seq(Ids)
  BY DEF IsFetch
<1>2. PICK http \in BOOLEAN : http = TRUE
  OBVIOUS
<1>3. PICK t, ps, n, ls : /\ t = Enter(f.req, id, NewRequest(http)) /\ ps = Append(f.pending, id)
                          /\ n = f.next + 1 /\ ls = f.localPending
  OBVIOUS
<1>4. ~In(f.pending, id)
  BY <1>1, FetchAssumption DEF Core, GoneAt, Unborn, Ids
<1>5. ps \in Seq(Ids) /\ Injective(ps) /\ \A d : In(ps, d) <=> In(f.pending, d) \/ (http /\ d = id)
  BY <1>1, <1>2, <1>3, <1>4, IdAppended
<1>6. /\ ls \in Seq(Ids) /\ Injective(ls)
      /\ \A d : In(ls, d) <=> In(f.localPending, d) \/ (~http /\ d = id)
  BY <1>1, <1>2, <1>3
<1>7. g = Entered(f, t, ps, ls, n)
  BY <1>1, <1>2, <1>3 DEF StartTransfer, Entered, Fields
<1>8. /\ IsFetch(f) /\ Once(f.jobs) /\ id \in Ids /\ id = f.next /\ Core(f, id)
      /\ ParkedAt(f, id) /\ http \in BOOLEAN
      /\ t = Enter(f.req, id, NewRequest(http)) /\ n = f.next + 1
  BY <1>3
<1> QED BY ONLY <1>5, <1>6, <1>7, <1>8, EnteredDoes

LEMMA LocalDoes ==
  ASSUME NEW f, IsFetch(f), Once(f.jobs), Injective(f.pending), Injective(f.localPending),
         NEW id \in Ids, id = f.next, Core(f, id), ParkedAt(f, id),
         NEW g, g = QueueLocalResponse(f)
  PROVE  Born(f, g, id)
<1>1. f = [k \in Fields |-> f[k]] /\ f.pending \in Seq(Ids) /\ f.localPending \in Seq(Ids)
  BY DEF IsFetch
<1>2. PICK http \in BOOLEAN : http = FALSE
  OBVIOUS
<1>3. PICK t, ps, n, ls : /\ t = Enter(f.req, id, NewRequest(http)) /\ ls = Append(f.localPending, id)
                          /\ n = f.next + 1 /\ ps = f.pending
  OBVIOUS
<1>4. ~In(f.localPending, id)
  BY <1>1, FetchAssumption DEF Core, ParkedAt, Unborn, Ids
<1>5. /\ ls \in Seq(Ids) /\ Injective(ls)
      /\ \A d : In(ls, d) <=> In(f.localPending, d) \/ (~http /\ d = id)
  BY <1>1, <1>2, <1>3, <1>4, IdAppended
<1>6. ps \in Seq(Ids) /\ Injective(ps) /\ \A d : In(ps, d) <=> In(f.pending, d) \/ (http /\ d = id)
  BY <1>1, <1>2, <1>3
<1>7. g = Entered(f, t, ps, ls, n)
  BY <1>1, <1>2, <1>3 DEF QueueLocalResponse, Entered, Fields
<1>8. /\ IsFetch(f) /\ Once(f.jobs) /\ id \in Ids /\ id = f.next /\ Core(f, id)
      /\ ParkedAt(f, id) /\ http \in BOOLEAN
      /\ t = Enter(f.req, id, NewRequest(http)) /\ n = f.next + 1
  BY <1>3
<1> QED BY ONLY <1>5, <1>6, <1>7, <1>8, EnteredDoes

Refused(f, id, ts, m, n) == [f EXCEPT !.told = ts, !.end = m, !.next = n]

LEMMA RejectDoes ==
  ASSUME NEW f, IsFetch(f), Once(f.jobs), Injective(f.pending), Injective(f.localPending),
         NEW id \in Ids, id = f.next, Core(f, id), ParkedAt(f, id),
         NEW outcome \in {"denied", "network", "aborted"},
         NEW g, g = RejectAtOnce(f, outcome)
  PROVE  Born(f, g, id)
<1>1. /\ f = [k \in Fields |-> f[k]] /\ MaxRequests \in Nat /\ f.next \in Nat
      /\ f.next \in 1 .. MaxRequests + 1
  BY FetchAssumption DEF IsFetch
<1>2. PICK ts, m, n : ts = [f.told EXCEPT ![id] = outcome] /\ m = [f.end EXCEPT ![id] = outcome] /\ n = f.next + 1
  OBVIOUS
<1>3. /\ ts \in [Ids -> Told] /\ ts[id] = outcome /\ \A d \in Ids : d # id => ts[d] = f.told[d]
      /\ m \in [Ids -> Ends] /\ m[id] = outcome /\ \A d \in Ids : d # id => m[d] = f.end[d]
  BY <1>2 DEF IsFetch, Told, Ends
<1>4. PICK e : e = Refused(f, id, ts, m, n)
  OBVIOUS
<1>5. /\ e.req = f.req /\ e.pending = f.pending /\ e.localPending = f.localPending /\ e.end = m
      /\ e.next = n /\ e.body = f.body /\ e.jobs = f.jobs
      /\ e.told = ts /\ e.sent = f.sent /\ e = [k \in Fields |-> e[k]]
  BY <1>1, <1>4 DEF Refused, Fields
<1>6. Unborn(f, id) /\ ~In(f.pending, id) /\ JobsAt(f, id) /\ ~In(f.localPending, id)
  BY <1>1, FetchAssumption DEF Core, GoneAt, Unborn, ParkedAt, Ids
<1>7. n \in 1 .. MaxRequests + 1
  BY <1>1, <1>2 DEF Ids
<1>8. IsFetch(e)
  BY <1>3, <1>5, <1>7 DEF IsFetch
<1>9. Elsewhere(f, e, id)
  <2> SUFFICES ASSUME NEW d \in Ids, d # id PROVE Same(f, e, d)
    BY DEF Elsewhere
  <2>1. d < n <=> d < f.next
    BY <1>1, <1>2 DEF Ids
  <2> QED BY <1>3, <1>5, <2>1 DEF Same, Streaming, Live
<1>10. PICK j : j = FetchJob("fetched", id, FALSE, 0)
  OBVIOUS
<1>11. j \in Jobs /\ j.id = id /\ j.on = "fetched" /\ j.ok = FALSE /\ j.chunk = 0 /\ j.on # "threw"
  BY <1>10 DEF Jobs, FetchJob
<1>12. g = Queue(e, j)
  <2>1. e = [f EXCEPT !.told[f.next] = outcome, !.end[f.next] = outcome, !.next = @ + 1]
    BY <1>1, <1>2, <1>4 DEF Refused, Fields
  <2> QED BY <1>10, <2>1 DEF RejectAtOnce
<1>13. Of(e.jobs, id) = {}
  BY <1>5, <1>6 DEF Unborn
<1>14. /\ IsFetch(g) /\ Once(g.jobs) /\ KeepsRest(e, g) /\ Elsewhere(e, g, id)
       /\ g.req = e.req /\ g.body = e.body /\ Of(g.jobs, id) = Of(e.jobs, id) \union {j}
  <2>1. Once(e.jobs) /\ id \in Ids /\ (\A a \in Of(e.jobs, id) : ~SameLane(a, j))
    BY <1>5, <1>13
  <2> QED BY ONLY <1>8, <1>11, <1>12, <2>1, QueueDoes
<1>15. Of(g.jobs, id) = {j}
  BY <1>13, <1>14
<1>16. /\ ~Live(g, id) /\ ~Streaming(g, id) /\ id < g.next /\ g.told[id] = outcome
       /\ g.end[id] = outcome /\ g.next = n /\ g.pending = f.pending /\ g.localPending = f.localPending
  <2>1. /\ g.told = e.told /\ g.end = e.end /\ g.next = e.next
        /\ g.pending = e.pending /\ g.localPending = e.localPending
    BY <1>14 DEF KeepsRest
  <2>2. id < n
    BY ONLY <1>1, <1>2, id = f.next
  <2>3. ~Live(g, id) /\ ~Streaming(g, id)
    BY <1>5, <1>6, <1>14 DEF Live, Streaming, Unborn
  <2> QED BY <1>3, <1>5, <2>1, <2>2, <2>3
<1>17. JobOn(g, "fetched", id) /\ ~JobOn(g, "read", id) /\ ~JobOn(g, "pull", id)
  BY <1>11, <1>15 DEF JobOn
<1>18. Connecting(g, id) /\ ~Reading(g, id)
  BY <1>16, <1>17 DEF Connecting, Reading
<1>19. JobsAt(g, id)
  BY <1>11, <1>15, <1>16, <1>17, <1>18 DEF JobsAt, JobAt
<1>20. Core(g, id)
  <2>1. ~(id >= g.next)
    BY <1>1, <1>2, <1>16
  <2>2. GoneAt(g, id)
    BY <1>6, <1>16 DEF GoneAt
  <2> QED BY <1>16, <1>19, <2>1, <2>2 DEF Core
<1>21. Elsewhere(f, g, id)
  BY <1>9, <1>14, ElsewhereTwice
<1>22. Prompt(g, id) /\ Calm(g, id) /\ ParkedAt(g, id) /\ ParkedElsewhere(f, g, id)
  BY <1>6, <1>16 DEF Prompt, Calm, Waits, ParkedAt, ParkedElsewhere
<1>23. Moved(f, g, id)
  BY <1>14, <1>16, <1>20, <1>21 DEF Moved
<1> QED BY <1>2, <1>16, <1>18, <1>22, <1>23 DEF Born

-------------------------------------------------------------------------------
(* The tick goes through the requests; what one of them does leaves the others     *)
(* alone.                                                                          *)

LEMMA SoundMoved ==
  ASSUME NEW f, Sound(f), NEW id \in Ids, NEW g, Moved(f, g, id)
  PROVE  /\ Sound(g)
         /\ \A d \in Ids : d # id => /\ Prompt(f, d) => Prompt(g, d)
                                     /\ Calm(f, d) => Calm(g, d)
                                     /\ KeepsWaiting(f, g, d)
<1>1. f.next \in Nat /\ g.next \in Nat
  <2>1. MaxRequests \in Nat
    BY FetchAssumption
  <2> QED BY <2>1 DEF Sound, IsFetch, Moved
<1>2. ASSUME NEW d \in Ids, d # id
      PROVE  /\ Core(g, d) /\ (Prompt(f, d) => Prompt(g, d)) /\ (Calm(f, d) => Calm(g, d))
             /\ KeepsWaiting(f, g, d)
  <2>1. Core(f, d) /\ Same(f, g, d)
    BY <1>2 DEF Sound, Moved, Elsewhere
  <2> QED BY <1>1, <2>1, CoreSame DEF KeepsWaiting, Same
<1> QED BY <1>2 DEF Sound, Moved

\* A response is parked while nobody was told of it and curl has no transfer for it.
LEMMA ParkedByCore ==
  ASSUME NEW f, NEW d \in Ids, Core(f, d), f.next \in Nat
  PROVE  Live(f, d) /\ ~f.req[d].easy /\ f.req[d].promise
           <=> d < f.next /\ f.told[d] = "nothing" /\ ~In(f.pending, d)
<1>1. d \in Nat /\ (d >= f.next \/ d < f.next) /\ ~(d >= f.next /\ d < f.next)
  BY FetchAssumption DEF Ids
<1>2. Live(f, d) => d < f.next
  BY <1>1 DEF Core, Unborn
<1>3. Live(f, d) => /\ f.req[d].promise <=> f.told[d] = "nothing"
                    /\ f.req[d].easy <=> In(f.pending, d)
  BY DEF Core, ReqAt
<1>4. ~Live(f, d) /\ d < f.next => f.told[d] # "nothing"
  BY DEF Core, GoneAt
<1> QED BY <1>2, <1>3, <1>4

LEMMA PendingIsLive ==
  ASSUME NEW f, NEW d \in Ids, Core(f, d), In(f.pending, d)
  PROVE  Live(f, d) /\ f.req[d].easy
BY DEF Core, GoneAt, ReqAt

Parks(f) == Injective(f.localPending) /\ \A d \in Ids : ParkedAt(f, d)

LEMMA ParksIsParked ==
  ASSUME NEW f
  PROVE  Parked(f) <=> Parks(f)
BY DEF Parked, Parks, ParkedAt

\* The request the step is about parks nothing, or what it parked before.
LEMMA ParksOn ==
  ASSUME NEW f, Parks(f), NEW id \in Ids, NEW g, Elsewhere(f, g, id),
         Injective(g.localPending), ParkedElsewhere(f, g, id), ParkedAt(g, id)
  PROVE  Parks(g)
<1> SUFFICES ASSUME NEW d \in Ids, d # id PROVE ParkedAt(g, d)
  BY DEF Parks
<1> QED BY DEF Parks, ParkedAt, Elsewhere, Same, ParkedElsewhere

LEMMA InvMoved ==
  ASSUME NEW f, FetchInv(f), NEW id \in Ids, NEW g, Moved(f, g, id), Prompt(g, id), Calm(g, id),
         Injective(g.localPending), ParkedAt(g, id), ParkedElsewhere(f, g, id)
  PROVE  /\ FetchInv(g)
         /\ \A d \in Ids : d # id => KeepsWaiting(f, g, d)
<1>1. /\ Sound(g)
      /\ \A d \in Ids : d # id => /\ Prompt(f, d) => Prompt(g, d)
                                  /\ Calm(f, d) => Calm(g, d)
                                  /\ KeepsWaiting(f, g, d)
  BY SoundMoved DEF FetchInv
<1>2. Parks(g)
  BY ParksOn, ParksIsParked DEF FetchInv, Moved
<1> QED BY <1>1, <1>2, ParksIsParked DEF FetchInv

Rolling(f, g) == Sound(g) /\ g.next = f.next /\ \A d \in Ids : KeepsWaiting(f, g, d)

LEMMA RollOn ==
  ASSUME NEW f, NEW g, Rolling(f, g), NEW id \in Ids, NEW h, Moved(g, h, id),
         KeepsWaiting(g, h, id), h.next = g.next
  PROVE  /\ Rolling(f, h)
         /\ \A d \in Ids : d # id => /\ Prompt(g, d) => Prompt(h, d)
                                     /\ Calm(g, d) => Calm(h, d)
<1>1. /\ Sound(h)
      /\ \A d \in Ids : d # id => /\ Prompt(g, d) => Prompt(h, d)
                                  /\ Calm(g, d) => Calm(h, d)
                                  /\ KeepsWaiting(g, h, d)
  BY SoundMoved DEF Rolling
<1>2. \A d \in Ids : KeepsWaiting(f, h, d)
  BY <1>1 DEF Rolling, KeepsWaiting
<1> QED BY <1>1, <1>2 DEF Rolling

LEMMA OnlyLocalPending ==
  ASSUME NEW f, Sound(f), NEW g, g = [f EXCEPT !.localPending = <<>>]
  PROVE  /\ Rolling(f, g) /\ g.localPending = <<>> /\ g.pending = f.pending
         /\ \A d \in Ids : /\ Prompt(f, d) => Prompt(g, d)
                           /\ Calm(f, d) => Calm(g, d)
                           /\ Live(g, d) <=> Live(f, d)
                           /\ Live(f, d) => g.req[d] = f.req[d]
<1>1. IsFetch(f) /\ f = [k \in Fields |-> f[k]]
  BY DEF Sound, IsFetch
<1>2. /\ g.req = f.req /\ g.pending = f.pending /\ g.localPending = <<>> /\ g.end = f.end
      /\ g.next = f.next /\ g.body = f.body /\ g.jobs = f.jobs
      /\ g.told = f.told /\ g.sent = f.sent /\ g = [k \in Fields |-> g[k]]
  BY <1>1 DEF Fields
<1>3. IsFetch(g)
  <2>1. <<>> \in Seq(Ids)
    OBVIOUS
  <2> QED BY <1>1, <1>2, <2>1 DEF IsFetch
<1>4. f.next \in Nat
  <2>1. MaxRequests \in Nat
    BY FetchAssumption
  <2> QED BY <1>1, <2>1 DEF IsFetch
<1>5. ASSUME NEW d \in Ids
      PROVE  /\ Core(g, d) /\ (Prompt(f, d) => Prompt(g, d)) /\ (Calm(f, d) => Calm(g, d))
             /\ KeepsWaiting(f, g, d)
  <2>1. Same(f, g, d)
    BY <1>2 DEF Same, Live, Streaming
  <2>2. Core(f, d)
    BY DEF Sound
  <2> QED BY <1>2, <1>4, <2>1, <2>2, CoreSame DEF KeepsWaiting
<1> QED BY <1>2, <1>3, <1>5 DEF Rolling, Sound, Live

\* settleLocalResponses: the responses from s[m + 1] on are still parked.
SettledTo(f, g, s, m) ==
  /\ Rolling(f, g) /\ g.localPending = <<>> /\ g.pending = f.pending
  /\ \A d \in Ids : /\ Prompt(g, d) /\ Calm(g, d)
                    /\ Live(g, d) /\ ~g.req[d].easy /\ g.req[d].promise
                         <=> \E j \in m + 1 .. Len(s) : s[j] = d

LEMMA SettleStep ==
  ASSUME NEW f, NEW g, NEW s \in Seq(Ids), Injective(s), NEW m \in 0 .. Len(s) - 1,
         SettledTo(f, g, s, m), NEW arg, NEW h, h = Apply("settle", g, s[m + 1], arg)
  PROVE  SettledTo(f, h, s, m + 1)
<1>1. PICK id \in Ids : id = s[m + 1]
  <2>1. m + 1 \in 1 .. Len(s)
    OBVIOUS
  <2> QED BY <2>1
<1>2. Live(g, id) /\ ~g.req[id].easy /\ g.req[id].promise
  <2>1. m + 1 \in m + 1 .. Len(s)
    OBVIOUS
  <2> QED BY <1>1, <2>1 DEF SettledTo
<1>3. h = SettleLocal(g, id)
  BY <1>1, <1>2 DEF Apply
<1>4. /\ Moved(g, h, id) /\ KeepsWaiting(g, h, id) /\ ~Live(h, id)
      /\ h.pending = g.pending /\ h.localPending = g.localPending /\ h.next = g.next
  <2>1. IsFetch(g) /\ Once(g.jobs) /\ Injective(g.pending) /\ id \in Ids /\ Core(g, id)
    BY DEF SettledTo, Rolling, Sound
  <2> QED BY ONLY <1>2, <1>3, <2>1, SettleDoes
<1>5. /\ Rolling(f, h)
      /\ \A d \in Ids : d # id => /\ Prompt(g, d) => Prompt(h, d)
                                  /\ Calm(g, d) => Calm(h, d)
  BY <1>4, RollOn DEF SettledTo
<1>6. Prompt(h, id) /\ Calm(h, id)
  BY <1>4 DEF Prompt, Calm, Waits
<1>7. ASSUME NEW d \in Ids
      PROVE  Live(h, d) /\ ~h.req[d].easy /\ h.req[d].promise
               <=> \E j \in m + 1 + 1 .. Len(s) : s[j] = d
  <2>1. CASE d = id
    <3>1. \A j \in m + 1 + 1 .. Len(s) : s[j] # id
      BY <1>1 DEF Injective
    <3> QED BY <1>4, <2>1, <3>1
  <2>2. CASE d # id
    <3>1. Live(h, d) /\ ~h.req[d].easy /\ h.req[d].promise
           <=> Live(g, d) /\ ~g.req[d].easy /\ g.req[d].promise
      BY <1>4, <2>2 DEF Moved, Elsewhere, Same
    <3>2. (\E j \in m + 1 .. Len(s) : s[j] = d) <=> \E j \in m + 1 + 1 .. Len(s) : s[j] = d
      <4>1. \A j \in m + 1 .. Len(s) : j = m + 1 \/ j \in m + 1 + 1 .. Len(s)
        OBVIOUS
      <4>2. m + 1 + 1 .. Len(s) \subseteq m + 1 .. Len(s)
        OBVIOUS
      <4> QED BY <1>1, <2>2, <4>1, <4>2
    <3> QED BY <3>1, <3>2 DEF SettledTo
  <2> QED BY <2>1, <2>2
<1> QED BY <1>4, <1>5, <1>6, <1>7 DEF SettledTo

LEMMA SettleChain ==
  ASSUME NEW f, FetchInv(f), NEW g, g = SettleLocalResponses(f)
  PROVE  /\ Rolling(f, g) /\ Parks(g) /\ g.pending = f.pending
         /\ \A d \in Ids : Prompt(g, d) /\ Calm(g, d)
<1>1. PICK s, e, arg : s = f.localPending /\ e = [f EXCEPT !.localPending = <<>>] /\ arg = <<>>
  OBVIOUS
<1>2. s \in Seq(Ids) /\ Injective(s) /\ Len(s) \in Nat /\ DOMAIN s = 1 .. Len(s)
  BY <1>1 DEF FetchInv, Sound, IsFetch, Parked
<1>3. PICK st : /\ Chain(st, "settle", s, e, arg)
                /\ st[Len(s)] = FoldLeft(LAMBDA a, id : IF Live(a, id) THEN SettleLocal(a, id) ELSE a, e, s)
  BY <1>2, SettleFold
<1>4. g = st[Len(s)]
  BY <1>1, <1>3 DEF SettleLocalResponses
<1>5. SettledTo(f, e, s, 0)
  <2>1. /\ Rolling(f, e) /\ e.localPending = <<>> /\ e.pending = f.pending
        /\ \A d \in Ids : /\ Prompt(f, d) => Prompt(e, d)
                          /\ Calm(f, d) => Calm(e, d)
                          /\ Live(e, d) <=> Live(f, d)
                          /\ Live(f, d) => e.req[d] = f.req[d]
    BY <1>1, OnlyLocalPending DEF FetchInv
  <2>2. \A d \in Ids : In(s, d) <=> Live(f, d) /\ ~f.req[d].easy /\ f.req[d].promise
    BY <1>1 DEF FetchInv, Parked
  <2>3. \A d \in Ids : In(s, d) <=> \E j \in 0 + 1 .. Len(s) : s[j] = d
    BY DEF In
  <2> QED BY <2>1, <2>2, <2>3 DEF SettledTo, FetchInv
<1>6. PICK T : T = {m \in 0 .. Len(s) : SettledTo(f, st[m], s, m)}
  OBVIOUS
<1>7. 0 \in T
  <2>1. st[0] = e
    BY <1>3 DEF Chain
  <2>2. 0 \in 0 .. Len(s)
    BY <1>2
  <2> QED BY ONLY <1>5, <1>6, <2>1, <2>2
<1>8. ASSUME NEW m \in 0 .. Len(s) - 1, m \in T PROVE m + 1 \in T
  <2>1. SettledTo(f, st[m], s, m) /\ s \in Seq(Ids) /\ Injective(s) /\ m \in 0 .. Len(s) - 1
    BY <1>2, <1>6, <1>8
  <2>2. st[m + 1] = Apply("settle", st[m], s[m + 1], arg)
    BY <1>3 DEF Chain
  <2>3. SettledTo(f, st[m + 1], s, m + 1)
    <3>1. SettledTo(f, st[m], s, m)
      BY ONLY <2>1
    <3>2. s \in Seq(Ids)
      BY ONLY <2>1
    <3>3. Injective(s)
      BY ONLY <2>1
    <3>4. m \in 0 .. Len(s) - 1
      BY ONLY <2>1
    <3> QED BY ONLY <2>2, <3>1, <3>2, <3>3, <3>4, SettleStep, ZenonT(60)
  <2> QED BY <1>2, <1>6, <2>3
<1>9. SettledTo(f, g, s, Len(s))
  <2>1. 0 .. Len(s) \subseteq T
    BY <1>2, <1>7, <1>8, UpTo
  <2>2. Len(s) \in 0 .. Len(s)
    BY <1>2
  <2> QED BY <1>4, <1>6, <2>1, <2>2
<1>10. Parks(g)
  <2>1. \A j \in Len(s) + 1 .. Len(s) : FALSE
    BY <1>2
  <2>2. g.localPending = <<>>
    BY <1>9 DEF SettledTo
  <2>3. \A d \in Ids : ~In(g.localPending, d) /\ ~(Live(g, d) /\ ~g.req[d].easy /\ g.req[d].promise)
    BY <1>9, <2>1, <2>2 DEF SettledTo, In
  <2>4. Injective(g.localPending)
    BY <2>2 DEF Injective
  <2> QED BY <2>3, <2>4 DEF Parks, ParkedAt
<1> QED BY <1>9, <1>10 DEF SettledTo

\* The phases of the tick that deal with curl: no response is parked by them, and they
\* go through the requests that were pending when the tick began.
Running(f, g) == /\ Rolling(f, g) /\ Parks(g) /\ g.pending = f.pending

LEMMA RunOn ==
  ASSUME NEW f, NEW g, Running(f, g), NEW id \in Ids, NEW h, Moved(g, h, id),
         KeepsWaiting(g, h, id), h.next = g.next, h.localPending = g.localPending,
         h.pending = g.pending, Live(h, id), h.req[id].easy,
         Live(g, id), g.req[id].easy
  PROVE  /\ Running(f, h)
         /\ \A d \in Ids : d # id => /\ Prompt(g, d) => Prompt(h, d)
                                     /\ Calm(g, d) => Calm(h, d)
<1>1. /\ Rolling(f, h)
      /\ \A d \in Ids : d # id => /\ Prompt(g, d) => Prompt(h, d)
                                  /\ Calm(g, d) => Calm(h, d)
  BY RollOn DEF Running
<1>2. Elsewhere(g, h, id) /\ Parks(g)
  BY DEF Moved, Running
<1>3. ParkedAt(h, id) /\ ParkedElsewhere(g, h, id) /\ Injective(h.localPending)
  BY <1>2 DEF ParkedAt, ParkedElsewhere, Parks
<1>4. Parks(h)
  BY <1>2, <1>3, ParksOn
<1> QED BY <1>1, <1>4 DEF Running

LEMMA RunningPending ==
  ASSUME NEW f, NEW g, Running(f, g), NEW m \in 1 .. Len(f.pending)
  PROVE  /\ f.pending[m] \in Ids /\ Live(g, f.pending[m]) /\ g.req[f.pending[m]].easy
         /\ IsFetch(g) /\ Once(g.jobs) /\ Injective(g.pending) /\ Core(g, f.pending[m])
<1>1. /\ g.pending = f.pending /\ g.pending \in Seq(Ids)
      /\ IsFetch(g) /\ Once(g.jobs) /\ Injective(g.pending) /\ \A d \in Ids : Core(g, d)
  BY DEF Running, Rolling, Sound, IsFetch
<1>2. f.pending[m] \in Ids /\ In(g.pending, f.pending[m])
  BY <1>1 DEF In
<1> QED BY <1>1, <1>2, PendingIsLive

\* writeCallback: a request may have data now that has no stream for it yet.
ReceivedTo(f, g, s) ==
  /\ Running(f, g)
  /\ \A d \in Ids : ~In(s, d) => Prompt(g, d)

LEMMA ReceiveStep ==
  ASSUME NEW f, NEW g, NEW s, s = f.pending, NEW m \in 0 .. Len(s) - 1, ReceivedTo(f, g, s),
         NEW arg, arg[s[m + 1]] \in Nat, NEW h, h = Apply("receive", g, s[m + 1], arg)
  PROVE  ReceivedTo(f, h, s)
<1>1. PICK id : id = s[m + 1]
  OBVIOUS
<1>2. /\ id \in Ids /\ Live(g, id) /\ g.req[id].easy
      /\ IsFetch(g) /\ Once(g.jobs) /\ Injective(g.pending) /\ Core(g, id)
      /\ In(s, id)
  <2>1. Running(f, g)
    BY DEF ReceivedTo
  <2>2. m + 1 \in 1 .. Len(s)
    <3>1. Len(s) \in Nat
      BY DEF ReceivedTo, Running, Rolling, Sound, IsFetch
    <3> QED BY <3>1
  <2> QED BY <1>1, <2>1, <2>2, RunningPending DEF In
<1>3. PICK size \in Nat : size = arg[id]
  BY <1>1
<1>4. h = Receive(g, id, size)
  BY <1>1, <1>3 DEF Apply
<1>5. /\ Moved(g, h, id) /\ KeepsWaiting(g, h, id)
      /\ h.pending = g.pending /\ h.localPending = g.localPending /\ h.next = g.next
      /\ Live(h, id) /\ h.req[id].easy
  <2>1. size \in Nat
    OBVIOUS
  <2> QED BY ONLY <1>2, <1>4, <2>1, ReceiveDoes
<1>6. /\ Running(f, h)
      /\ \A d \in Ids : d # id => (Prompt(g, d) => Prompt(h, d))
  <2>1. Running(f, g)
    BY DEF ReceivedTo
  <2> QED BY <1>2, <1>5, <2>1, RunOn
<1> QED BY <1>2, <1>6 DEF ReceivedTo

\* Phase 1: the requests up to s[m] that have data have a stream.
ResolvedTo(f, g, s, m) ==
  /\ Running(f, g)
  /\ \A d \in Ids : (\A j \in m + 1 .. Len(s) : s[j] # d) => Prompt(g, d)

LEMMA ResolveStep ==
  ASSUME NEW f, NEW g, NEW s, s = f.pending, NEW m \in 0 .. Len(s) - 1, ResolvedTo(f, g, s, m),
         NEW arg, NEW h, h = Apply("resolve", g, s[m + 1], arg)
  PROVE  ResolvedTo(f, h, s, m + 1)
<1>1. PICK id : id = s[m + 1]
  OBVIOUS
<1>2. /\ id \in Ids /\ Live(g, id) /\ g.req[id].easy /\ Len(s) \in Nat
      /\ IsFetch(g) /\ Once(g.jobs) /\ Injective(g.pending) /\ Core(g, id)
  <2>1. Running(f, g)
    BY DEF ResolvedTo
  <2>2. m + 1 \in 1 .. Len(s) /\ Len(s) \in Nat
    <3>1. Len(s) \in Nat
      BY DEF ResolvedTo, Running, Rolling, Sound, IsFetch
    <3> QED BY <3>1
  <2> QED BY <1>1, <2>1, <2>2, RunningPending
<1>3. h = ResolveStreaming(g, id)
  BY <1>1 DEF Apply
<1>4. /\ Moved(g, h, id) /\ KeepsWaiting(g, h, id) /\ Prompt(h, id)
      /\ h.pending = g.pending /\ h.localPending = g.localPending /\ h.next = g.next
      /\ Live(h, id) /\ h.req[id].easy = g.req[id].easy
  BY ONLY <1>2, <1>3, ResolveDoes
<1>5. h.req[id].easy
  BY <1>2, <1>4
<1>6. /\ Running(f, h)
      /\ \A d \in Ids : d # id => (Prompt(g, d) => Prompt(h, d))
  <2>1. Running(f, g)
    BY DEF ResolvedTo
  <2> QED BY <1>2, <1>4, <1>5, <2>1, RunOn
<1>7. ASSUME NEW d \in Ids, \A j \in m + 1 + 1 .. Len(s) : s[j] # d
      PROVE  Prompt(h, d)
  <2>1. CASE d = id
    BY <1>4, <2>1
  <2>2. CASE d # id
    <3>1. \A j \in m + 1 .. Len(s) : j = m + 1 \/ j \in m + 1 + 1 .. Len(s)
      BY <1>2
    <3>2. \A j \in m + 1 .. Len(s) : s[j] # d
      BY <1>1, <1>7, <2>2, <3>1
    <3> QED BY <1>6, <2>2, <3>2 DEF ResolvedTo
  <2> QED BY <2>1, <2>2
<1> QED BY <1>6, <1>7 DEF ResolvedTo

\* Phase 2: no callback of the requests up to s[m] is left where there is something.
NotifiedTo(f, g, s, m) ==
  /\ Running(f, g)
  /\ \A d \in Ids : /\ Prompt(g, d)
                    /\ (\A j \in m + 1 .. Len(s) : s[j] # d) => Calm(g, d)

LEMMA NotifyStep ==
  ASSUME NEW f, NEW g, NEW s, Len(s) \in Nat, NEW m \in 0 .. Len(s) - 1, NotifiedTo(f, g, s, m),
         NEW id \in Ids, id = s[m + 1], NEW arg, NEW h, h = Apply("notify", g, s[m + 1], arg)
  PROVE  NotifiedTo(f, h, s, m + 1)
<1>1. h = NotifyReader(g, id)
  BY DEF Apply
<1>2. IsFetch(g) /\ Once(g.jobs) /\ Injective(g.pending) /\ Core(g, id) /\ Running(f, g)
  BY DEF NotifiedTo, Running, Rolling, Sound
<1>3. /\ Moved(g, h, id) /\ KeepsRest(g, h) /\ KeepsWaiting(g, h, id)
      /\ (Prompt(g, id) => Prompt(h, id)) /\ Calm(h, id)
      /\ Live(g, id) => (Live(h, id) \/ ~g.req[id].easy)
      /\ Live(h, id) => h.req[id].easy = g.req[id].easy
  <2>1. id \in Ids
    OBVIOUS
  <2> QED BY ONLY <1>1, <1>2, <2>1, NotifyDoes
<1>4. /\ h.next = g.next /\ h.told = g.told /\ h.pending = g.pending
      /\ h.localPending = g.localPending
  BY <1>3 DEF KeepsRest
<1>5. /\ Rolling(f, h)
      /\ \A d \in Ids : d # id => /\ Prompt(g, d) => Prompt(h, d)
                                  /\ Calm(g, d) => Calm(h, d)
  BY <1>2, <1>3, <1>4, RollOn DEF Running
<1>6. ParkedAt(h, id)
  <2>1. g.next \in Nat
    <3>1. MaxRequests \in Nat
      BY FetchAssumption
    <3> QED BY <1>2, <3>1 DEF IsFetch
  <2>2. Core(h, id)
    BY <1>3 DEF Moved
  <2>3. Live(g, id) /\ ~g.req[id].easy /\ g.req[id].promise
          <=> id < g.next /\ g.told[id] = "nothing" /\ ~In(g.pending, id)
    BY <1>2, <2>1, ParkedByCore
  <2>4. Live(h, id) /\ ~h.req[id].easy /\ h.req[id].promise
          <=> id < h.next /\ h.told[id] = "nothing" /\ ~In(h.pending, id)
    BY <1>4, <2>1, <2>2, ParkedByCore
  <2> QED BY <1>2, <1>4, <2>3, <2>4 DEF ParkedAt, Parks, Running
<1>7. Parks(h)
  <2>1. Parks(g) /\ Elsewhere(g, h, id) /\ Injective(h.localPending) /\ ParkedElsewhere(g, h, id)
    BY <1>2, <1>3, <1>4 DEF Running, Moved, Parks, ParkedElsewhere
  <2> QED BY <1>6, <2>1, ParksOn
<1>8. Running(f, h)
  BY <1>2, <1>4, <1>5, <1>7 DEF Running
<1>9. ASSUME NEW d \in Ids
      PROVE  Prompt(h, d) /\ ((\A j \in m + 1 + 1 .. Len(s) : s[j] # d) => Calm(h, d))
  <2>1. CASE d = id
    BY <1>3, <2>1 DEF NotifiedTo
  <2>2. CASE d # id
    <3>1. \A j \in m + 1 .. Len(s) : j = m + 1 \/ j \in m + 1 + 1 .. Len(s)
      OBVIOUS
    <3>2. (\A j \in m + 1 + 1 .. Len(s) : s[j] # d) => (\A j \in m + 1 .. Len(s) : s[j] # d)
      BY <2>2, <3>1
    <3> QED BY <1>5, <2>2, <3>2 DEF NotifiedTo
  <2> QED BY <2>1, <2>2
<1> QED BY <1>8, <1>9 DEF NotifiedTo

\* Phase 3: the requests from s[m + 1] on are still in the hands of curl.
CompletedTo(f, g, s, m) ==
  /\ Rolling(f, g) /\ Parks(g)
  /\ \A d \in Ids : Prompt(g, d) /\ Calm(g, d)
  /\ \A j \in m + 1 .. Len(s) : In(g.pending, s[j])

\* What curl says of a transfer at a tick.
Verdicts == {"running", "ok", "failed", "refused"}

LEMMA CompleteStep ==
  ASSUME NEW f, NEW g, NEW s \in Seq(Ids), Injective(s), NEW m \in 0 .. Len(s) - 1,
         CompletedTo(f, g, s, m), NEW arg, arg[s[m + 1]] \in Verdicts,
         NEW h, h = Apply("complete", g, s[m + 1], arg)
  PROVE  CompletedTo(f, h, s, m + 1)
<1>1. PICK id \in Ids : id = s[m + 1]
  <2>1. m + 1 \in 1 .. Len(s)
    OBVIOUS
  <2> QED BY <2>1
<1>2. \A j \in m + 1 + 1 .. Len(s) : In(g.pending, s[j]) /\ s[j] # id
  <2>1. m + 1 + 1 .. Len(s) \subseteq m + 1 .. Len(s)
    OBVIOUS
  <2>2. \A j \in m + 1 + 1 .. Len(s) : s[j] # id
    BY <1>1 DEF Injective
  <2> QED BY <2>1, <2>2 DEF CompletedTo
<1>3. CASE arg[id] = "running"
  <2>1. h = g
    BY <1>1, <1>3 DEF Apply
  <2> QED BY <1>2, <2>1 DEF CompletedTo
<1>4. CASE arg[id] # "running"
  <2>1. PICK result \in {"ok", "failed", "refused"} : result = arg[id]
    BY <1>1, <1>4 DEF Verdicts
  <2>2. h = Complete(g, id, result)
    BY <1>1, <1>4, <2>1 DEF Apply
  <2>3. /\ IsFetch(g) /\ Once(g.jobs) /\ Injective(g.pending) /\ Core(g, id) /\ id \in Ids
        /\ Prompt(g, id) /\ g.pending \in Seq(Ids)
    BY DEF CompletedTo, Rolling, Sound, IsFetch
  <2>4. Live(g, id) /\ g.req[id].easy
    <3>1. m + 1 \in m + 1 .. Len(s)
      OBVIOUS
    <3>2. In(g.pending, id)
      BY <1>1, <3>1 DEF CompletedTo
    <3> QED BY <2>3, <3>2, PendingIsLive
  <2>5. /\ Moved(g, h, id) /\ KeepsWaiting(g, h, id)
        /\ h.pending = RemoveFirst(g.pending, id) /\ h.localPending = g.localPending
        /\ h.next = g.next /\ Prompt(h, id) /\ Calm(h, id)
        /\ Live(h, id) => ~h.req[id].promise
    <3>1. result \in {"ok", "failed", "refused"}
      OBVIOUS
    <3> QED BY ONLY <2>2, <2>3, <2>4, <3>1, CompleteDoes
  <2>6. /\ Rolling(f, h)
        /\ \A d \in Ids : d # id => /\ Prompt(g, d) => Prompt(h, d)
                                    /\ Calm(g, d) => Calm(h, d)
    BY <2>5, RollOn DEF CompletedTo
  <2>7. Parks(h)
    <3>1. Parks(g) /\ ~In(g.localPending, id)
      BY <2>4 DEF CompletedTo, Parks, ParkedAt
    <3>2. ParkedAt(h, id) /\ ParkedElsewhere(g, h, id) /\ Injective(h.localPending)
      BY <2>5, <3>1 DEF ParkedAt, ParkedElsewhere, Parks
    <3> QED BY <2>5, <3>1, <3>2, ParksOn DEF Moved
  <2>8. \A j \in m + 1 + 1 .. Len(s) : In(h.pending, s[j])
    <3>1. \A d : In(RemoveFirst(g.pending, id), d) <=> In(g.pending, d) /\ d # id
      BY <2>3, IdRemoved
    <3> QED BY <1>2, <2>5, <3>1
  <2> QED BY <2>5, <2>6, <2>7, <2>8 DEF CompletedTo
<1> QED BY <1>3, <1>4

LEMMA SetToSeqIs ==
  ASSUME NEW S, S \subseteq Ids, NEW s, s = SetToSeq(S)
  PROVE  /\ Len(s) \in Nat /\ DOMAIN s = 1 .. Len(s)
         /\ \A i \in 1 .. Len(s) : s[i] \in Ids
         /\ \A d \in S : \E i \in 1 .. Len(s) : s[i] = d
<1>1. IsFiniteSet(S)
  <2>1. IsFiniteSet(1 .. MaxRequests)
    <3>1. 1 \in Int /\ MaxRequests \in Int
      BY FetchAssumption
    <3> QED BY <3>1, FS_Interval
  <2> QED BY <2>1, FS_Subset DEF Ids
<1>2. PICK n \in Nat : n = Cardinality(S)
  BY <1>1, FS_CardinalityType
<1>3. ExistsBijection(1 .. n, S)
  BY <1>1, <1>2, FS_CardinalityType
<1>4. \E h \in [1 .. n -> S] : IsInjective(h)
  BY <1>3 DEF ExistsBijection, Bijection, Injection
<1>5. s \in [1 .. n -> S] /\ IsInjective(s)
  BY <1>2, <1>4 DEF SetToSeq
<1>6. s \in Injection(1 .. n, S)
  BY <1>5 DEF Injection
<1>7. Cardinality(1 .. n) = n
  <2>1. 1 \in Int /\ n \in Int /\ (1 > n => n = 0)
    OBVIOUS
  <2> QED BY <2>1, FS_Interval
<1>8. s \in Surjection(1 .. n, S)
  BY <1>1, <1>2, <1>6, <1>7, FS_Injection
<1>9. \A d \in S : \E i \in 1 .. n : s[i] = d
  BY <1>8 DEF Surjection
<1>10. s \in Seq(S) /\ Len(s) = n
  BY <1>5
<1> QED BY <1>5, <1>9, <1>10

LEMMA ReceiveChain ==
  ASSUME NEW f, NEW e, Running(f, e), \A d \in Ids : Prompt(e, d), NEW s, s = f.pending,
         NEW arg, \A i \in 1 .. Len(s) : arg[s[i]] \in Nat,
         NEW g, g = ReceiveAll(e, s, arg)
  PROVE  ReceivedTo(f, g, s)
<1>1. s \in Seq(Ids) /\ Len(s) \in Nat /\ DOMAIN s = 1 .. Len(s)
  <2>1. f.pending \in Seq(Ids)
    BY DEF Running, Rolling, Sound, IsFetch
  <2> QED BY <2>1
<1>2. PICK st : /\ Chain(st, "receive", s, e, arg)
                /\ st[Len(s)] = ReceiveAll(e, s, arg)
  BY <1>1, ReceiveFold
<1>3. Chain(st, "receive", s, e, arg)
  BY <1>2
<1>4. g = st[Len(s)]
  <2>1. g = ReceiveAll(e, s, arg)
    OBVIOUS
  <2> QED BY ONLY <1>2, <2>1, Zenon
<1>5. PICK T : T = {m \in 0 .. Len(s) : ReceivedTo(f, st[m], s)}
  OBVIOUS
<1>6. 0 \in T
  <2>1. st[0] = e
    BY <1>3 DEF Chain
  <2>2. 0 \in 0 .. Len(s)
    BY <1>1
  <2>3. ReceivedTo(f, e, s)
    BY DEF ReceivedTo
  <2> QED BY ONLY <1>5, <2>1, <2>2, <2>3
<1>7. ASSUME NEW m \in 0 .. Len(s) - 1, m \in T PROVE m + 1 \in T
  <2>1. ReceivedTo(f, st[m], s) /\ m \in 0 .. Len(s) - 1
    BY <1>5, <1>7
  <2>2. PICK a, h : a = st[m] /\ h = st[m + 1]
    OBVIOUS
  <2>3. h = Apply("receive", a, s[m + 1], arg)
    BY <1>3, <2>2 DEF Chain
  <2>4. ReceivedTo(f, a, s)
    BY <2>1, <2>2
  <2>5. s = f.pending /\ arg[s[m + 1]] \in Nat
    <3>1. m + 1 \in 1 .. Len(s)
      BY <1>1
    <3> QED BY <3>1
  <2>6. ReceivedTo(f, h, s)
    <3>1. m \in 0 .. Len(s) - 1
      BY ONLY <2>1
    <3>2. s = f.pending
      BY ONLY <2>5
    <3>3. arg[s[m + 1]] \in Nat
      BY ONLY <2>5
    <3> QED BY ONLY <2>3, <2>4, <3>1, <3>2, <3>3, ReceiveStep, ZenonT(60)
  <2>7. m + 1 \in 0 .. Len(s)
    BY <1>1
  <2> QED BY ONLY <1>5, <2>2, <2>6, <2>7
<1>8. ReceivedTo(f, g, s)
  <2>1. 0 .. Len(s) \subseteq T
    BY <1>1, <1>6, <1>7, UpTo
  <2>2. Len(s) \in 0 .. Len(s)
    BY <1>1
  <2> QED BY ONLY <1>4, <1>5, <2>1, <2>2
<1> QED BY <1>8
LEMMA ResolveChain ==
  ASSUME NEW f, NEW e, Running(f, e), NEW s, s = f.pending,
         ReceivedTo(f, e, s),
         NEW arg, arg = <<>>,
         NEW g, g = FoldLeft(ResolveStreaming, e, s)
  PROVE  Running(f, g) /\ \A d \in Ids : Prompt(g, d)
<1>1. s \in Seq(Ids) /\ Len(s) \in Nat /\ DOMAIN s = 1 .. Len(s)
  <2>1. f.pending \in Seq(Ids)
    BY DEF ReceivedTo, Running, Rolling, Sound, IsFetch
  <2> QED BY <2>1
<1>2. PICK st : /\ Chain(st, "resolve", s, e, arg)
                /\ st[Len(s)] = FoldLeft(ResolveStreaming, e, s)
  BY ONLY <1>1, ResolveFold
<1>3. Chain(st, "resolve", s, e, arg)
  BY <1>2
<1>4. g = st[Len(s)]
  <2>1. g = FoldLeft(ResolveStreaming, e, s)
    OBVIOUS
  <2> QED BY ONLY <1>2, <2>1, Zenon
<1>5. PICK T : T = {m \in 0 .. Len(s) : ResolvedTo(f, st[m], s, m)}
  OBVIOUS
<1>6. 0 \in T
  <2>1. st[0] = e
    BY <1>3 DEF Chain
  <2>2. 0 \in 0 .. Len(s)
    BY <1>1
  <2>3. ResolvedTo(f, e, s, 0)
    <3>1. \A d : In(s, d) <=> \E j \in 0 + 1 .. Len(s) : s[j] = d
      BY DEF In
    <3> QED BY <3>1 DEF ReceivedTo, ResolvedTo
  <2> QED BY ONLY <1>5, <2>1, <2>2, <2>3
<1>7. ASSUME NEW m \in 0 .. Len(s) - 1, m \in T PROVE m + 1 \in T
  <2>1. ResolvedTo(f, st[m], s, m) /\ m \in 0 .. Len(s) - 1
    BY <1>5, <1>7
  <2>2. PICK a, h : a = st[m] /\ h = st[m + 1]
    OBVIOUS
  <2>3. h = Apply("resolve", a, s[m + 1], arg)
    BY <1>3, <2>2 DEF Chain
  <2>4. ResolvedTo(f, a, s, m)
    BY <2>1, <2>2
  <2>5. s = f.pending
    OBVIOUS
  <2>6. ResolvedTo(f, h, s, m + 1)
    <3>1. m \in 0 .. Len(s) - 1
      BY ONLY <2>1
    <3> QED BY ONLY <2>3, <2>4, <2>5, <3>1, ResolveStep, ZenonT(60)
  <2>7. m + 1 \in 0 .. Len(s)
    BY <1>1
  <2> QED BY ONLY <1>5, <2>2, <2>6, <2>7
<1>8. ResolvedTo(f, g, s, Len(s))
  <2>1. 0 .. Len(s) \subseteq T
    BY <1>1, <1>6, <1>7, UpTo
  <2>2. Len(s) \in 0 .. Len(s)
    BY <1>1
  <2> QED BY ONLY <1>4, <1>5, <2>1, <2>2
<1>9. Len(s) + 1 .. Len(s) = {}
  BY <1>1
<1> QED BY <1>8, <1>9 DEF ResolvedTo
LEMMA NotifyChain ==
  ASSUME NEW f, NEW e, Running(f, e), \A d \in Ids : Prompt(e, d), NEW s, s = SetToSeq(DOMAIN e.req),
         NEW arg, arg = <<>>,
         NEW g, g = FoldLeft(NotifyReader, e, s)
  PROVE  Running(f, g) /\ \A d \in Ids : Prompt(g, d) /\ Calm(g, d)
<1>1. /\ Len(s) \in Nat /\ DOMAIN s = 1 .. Len(s)
      /\ \A i \in 1 .. Len(s) : s[i] \in Ids
      /\ \A d \in DOMAIN e.req : \E i \in 1 .. Len(s) : s[i] = d
  <2>1. DOMAIN e.req \subseteq Ids
    BY DEF Running, Rolling, Sound, IsFetch, IsTable
  <2> QED BY <2>1, SetToSeqIs
<1>2. PICK st : /\ Chain(st, "notify", s, e, arg)
                /\ st[Len(s)] = FoldLeft(NotifyReader, e, s)
  BY <1>1, NotifyFold
<1>3. Chain(st, "notify", s, e, arg)
  BY <1>2
<1>4. g = st[Len(s)]
  <2>1. g = FoldLeft(NotifyReader, e, s)
    OBVIOUS
  <2> QED BY ONLY <1>2, <2>1, Zenon
<1>5. PICK T : T = {m \in 0 .. Len(s) : NotifiedTo(f, st[m], s, m)}
  OBVIOUS
<1>6. 0 \in T
  <2>1. st[0] = e
    BY <1>3 DEF Chain
  <2>2. 0 \in 0 .. Len(s)
    BY <1>1
  <2>3. NotifiedTo(f, e, s, 0)
    <3>1. ASSUME NEW d \in Ids, \A j \in 0 + 1 .. Len(s) : s[j] # d PROVE Calm(e, d)
      <4>1. ~Live(e, d)
        BY <1>1, <3>1 DEF Live
      <4> QED BY <4>1 DEF Calm, Waits
    <3> QED BY <3>1 DEF NotifiedTo
  <2> QED BY ONLY <1>5, <2>1, <2>2, <2>3
<1>7. ASSUME NEW m \in 0 .. Len(s) - 1, m \in T PROVE m + 1 \in T
  <2>1. NotifiedTo(f, st[m], s, m) /\ m \in 0 .. Len(s) - 1
    BY <1>5, <1>7
  <2>2. PICK a, h : a = st[m] /\ h = st[m + 1]
    OBVIOUS
  <2>3. h = Apply("notify", a, s[m + 1], arg)
    BY <1>3, <2>2 DEF Chain
  <2>4. NotifiedTo(f, a, s, m)
    BY <2>1, <2>2
  <2>4a. PICK id : id = s[m + 1]
    OBVIOUS
  <2>5. id \in Ids /\ id = s[m + 1] /\ Len(s) \in Nat
    <3>1. m + 1 \in 1 .. Len(s)
      BY <1>1
    <3> QED BY <1>1, <2>4a, <3>1
  <2>6. NotifiedTo(f, h, s, m + 1)
    <3>1. m \in 0 .. Len(s) - 1
      BY ONLY <2>1
    <3>2. id \in Ids
      BY ONLY <2>5
    <3>3. id = s[m + 1]
      BY ONLY <2>5
    <3>4. Len(s) \in Nat
      BY ONLY <2>5
    <3> QED BY ONLY <2>3, <2>4, <3>1, <3>2, <3>3, <3>4, NotifyStep, ZenonT(60)
  <2>7. m + 1 \in 0 .. Len(s)
    BY <1>1
  <2> QED BY ONLY <1>5, <2>2, <2>6, <2>7
<1>8. NotifiedTo(f, g, s, Len(s))
  <2>1. 0 .. Len(s) \subseteq T
    BY <1>1, <1>6, <1>7, UpTo
  <2>2. Len(s) \in 0 .. Len(s)
    BY <1>1
  <2> QED BY ONLY <1>4, <1>5, <2>1, <2>2
<1>9. Len(s) + 1 .. Len(s) = {}
  BY <1>1
<1> QED BY <1>8, <1>9 DEF NotifiedTo
LEMMA CompleteChain ==
  ASSUME NEW f, NEW e, Running(f, e), \A d \in Ids : Prompt(e, d) /\ Calm(e, d), NEW s, s = f.pending,
         NEW arg, \A i \in 1 .. Len(s) : arg[s[i]] \in {"running", "ok", "failed", "refused"},
         NEW g, g = CompleteAll(e, s, arg)
  PROVE  Rolling(f, g) /\ FetchInv(g)
<1>1. s \in Seq(Ids) /\ Len(s) \in Nat /\ DOMAIN s = 1 .. Len(s) /\ Injective(s)
  <2>1. f.pending \in Seq(Ids) /\ Injective(f.pending)
    BY DEF Running, Rolling, Sound, IsFetch
  <2> QED BY <2>1
<1>2. PICK st : /\ Chain(st, "complete", s, e, arg)
                /\ st[Len(s)] = CompleteAll(e, s, arg)
  BY <1>1, CompleteFold
<1>3. Chain(st, "complete", s, e, arg)
  BY <1>2
<1>4. g = st[Len(s)]
  <2>1. g = CompleteAll(e, s, arg)
    OBVIOUS
  <2> QED BY ONLY <1>2, <2>1, Zenon
<1>5. PICK T : T = {m \in 0 .. Len(s) : CompletedTo(f, st[m], s, m)}
  OBVIOUS
<1>6. 0 \in T
  <2>1. st[0] = e
    BY <1>3 DEF Chain
  <2>2. 0 \in 0 .. Len(s)
    BY <1>1
  <2>3. CompletedTo(f, e, s, 0)
    <3>1. \A j \in 0 + 1 .. Len(s) : In(e.pending, s[j])
      BY DEF In, Running
    <3> QED BY <3>1 DEF Running, CompletedTo
  <2> QED BY ONLY <1>5, <2>1, <2>2, <2>3
<1>7. ASSUME NEW m \in 0 .. Len(s) - 1, m \in T PROVE m + 1 \in T
  <2>1. CompletedTo(f, st[m], s, m) /\ m \in 0 .. Len(s) - 1
    BY <1>5, <1>7
  <2>2. PICK a, h : a = st[m] /\ h = st[m + 1]
    OBVIOUS
  <2>3. h = Apply("complete", a, s[m + 1], arg)
    BY <1>3, <2>2 DEF Chain
  <2>4. CompletedTo(f, a, s, m)
    BY <2>1, <2>2
  <2>5. s \in Seq(Ids) /\ Injective(s) /\ arg[s[m + 1]] \in Verdicts
    <3>1. m + 1 \in 1 .. Len(s)
      BY <1>1
    <3> QED BY <1>1, <3>1 DEF Verdicts
  <2>6. CompletedTo(f, h, s, m + 1)
    <3>1. m \in 0 .. Len(s) - 1
      BY ONLY <2>1
    <3>2. s \in Seq(Ids)
      BY ONLY <2>5
    <3>3. Injective(s)
      BY ONLY <2>5
    <3>4. arg[s[m + 1]] \in Verdicts
      BY ONLY <2>5
    <3> QED BY ONLY <2>3, <2>4, <3>1, <3>2, <3>3, <3>4, CompleteStep, ZenonT(60)
  <2>7. m + 1 \in 0 .. Len(s)
    BY <1>1
  <2> QED BY ONLY <1>5, <2>2, <2>6, <2>7
<1>8. CompletedTo(f, g, s, Len(s))
  <2>1. 0 .. Len(s) \subseteq T
    BY <1>1, <1>6, <1>7, UpTo
  <2>2. Len(s) \in 0 .. Len(s)
    BY <1>1
  <2> QED BY ONLY <1>4, <1>5, <2>1, <2>2
<1> QED BY <1>8, ParksIsParked DEF CompletedTo, FetchInv, Rolling
\* __brokit_fetch_tick keeps the invariant, and nobody who waits is forgotten.
LEMMA TickDoes ==
  ASSUME NEW f, FetchInv(f), NEW chunk, NEW result,
         \A d \in DOMAIN f.req : /\ chunk[d] \in Nat
                                 /\ result[d] \in {"running", "ok", "failed", "refused"},
         NEW g, g = FetchTick(f, chunk, result)
  PROVE  Rolling(f, g) /\ FetchInv(g)
<1>1. PICK s, settled : s = f.pending /\ settled = SettleLocalResponses(f)
  OBVIOUS
<1>2. /\ Rolling(f, settled) /\ Parks(settled) /\ settled.pending = f.pending
      /\ \A d \in Ids : Prompt(settled, d) /\ Calm(settled, d)
  BY <1>1, SettleChain
<1>3. CASE s = <<>>
  <2>1. g = settled
    <3>1. g = FetchTick(f, chunk, result)
      OBVIOUS
    <3> QED BY ONLY <1>1, <1>3, <3>1, Zenon DEF FetchTick
  <2> QED BY <1>2, <2>1, ParksIsParked DEF FetchInv, Rolling
<1>4. CASE s # <<>>
  <2>1. PICK performed : performed = ReceiveAll(settled, s, chunk)
    OBVIOUS
  <2>2. PICK resolved : resolved = FoldLeft(ResolveStreaming, performed, s)
    OBVIOUS
  <2>3. PICK notified : notified = FoldLeft(NotifyReader, resolved, SetToSeq(DOMAIN resolved.req))
    OBVIOUS
  <2>4. g = CompleteAll(notified, s, result)
    <3>1. g = FetchTick(f, chunk, result)
      OBVIOUS
    <3> QED BY ONLY <1>1, <1>4, <2>1, <2>2, <2>3, <3>1, Zenon DEF FetchTick, ReceiveAll, CompleteAll
  <2>5. s = f.pending /\ \A i \in 1 .. Len(s) :
          chunk[s[i]] \in Nat /\ result[s[i]] \in {"running", "ok", "failed", "refused"}
    <3>1. f.pending \in Seq(Ids) /\ Running(f, settled)
      BY <1>2 DEF FetchInv, Sound, IsFetch, Running
    <3> SUFFICES ASSUME NEW i \in 1 .. Len(s)
                 PROVE  chunk[s[i]] \in Nat /\ result[s[i]] \in {"running", "ok", "failed", "refused"}
      BY <1>1
    <3>2. f.pending[i] \in Ids /\ In(f.pending, f.pending[i])
      BY <1>1, <3>1 DEF In
    <3>3. Live(f, f.pending[i])
      BY <3>2, PendingIsLive DEF FetchInv, Sound
    <3> QED BY <1>1, <3>3 DEF Live
  <2>6. Running(f, settled) /\ \A d \in Ids : Prompt(settled, d)
    BY <1>2 DEF Running
  <2>7. ReceivedTo(f, performed, s)
    <3>1. \A i \in 1 .. Len(s) : chunk[s[i]] \in Nat
      BY <2>5
    <3>2. s = f.pending
      BY <1>1
    <3> QED BY ONLY <2>1, <2>6, <3>1, <3>2, ReceiveChain
  <2>8. Running(f, resolved) /\ \A d \in Ids : Prompt(resolved, d)
    <3>1. s = f.pending /\ Running(f, performed)
      BY <1>1, <2>7 DEF ReceivedTo
    <3>2. PICK arg : arg = <<>>
      OBVIOUS
    <3> QED BY ONLY <2>2, <2>7, <3>1, <3>2, ResolveChain
  <2>9. Running(f, notified) /\ \A d \in Ids : Prompt(notified, d) /\ Calm(notified, d)
    <3>1. PICK arg, ds : arg = <<>> /\ ds = SetToSeq(DOMAIN resolved.req)
      OBVIOUS
    <3>2. notified = FoldLeft(NotifyReader, resolved, ds)
      BY ONLY <2>3, <3>1, Zenon
    <3> QED BY ONLY <2>8, <3>1, <3>2, NotifyChain
  <2>10. s = f.pending /\ \A i \in 1 .. Len(s) : result[s[i]] \in {"running", "ok", "failed", "refused"}
    BY <2>5
  <2> QED BY ONLY <2>4, <2>9, <2>10, CompleteChain
<1> QED BY <1>3, <1>4

-------------------------------------------------------------------------------
(* The steps that the callers of fetch() are made of.                              *)

LEMMA InvAt ==
  ASSUME NEW f, FetchInv(f)
  PROVE  /\ IsFetch(f) /\ Once(f.jobs) /\ Injective(f.pending) /\ Injective(f.localPending)
         /\ f.next \in Nat
         /\ \A d \in Ids : Core(f, d) /\ Prompt(f, d) /\ Calm(f, d) /\ ParkedAt(f, d)
<1>1. f.next \in Nat
  <2>1. MaxRequests \in Nat
    BY FetchAssumption
  <2> QED BY <2>1 DEF FetchInv, Sound, IsFetch
<1> QED BY <1>1 DEF FetchInv, Sound, Parked, ParkedAt

\* Nobody has begun or stopped to wait, and what was told stays told.
Goes(f, g) == /\ FetchInv(g) /\ g.next = f.next
              /\ \A d \in Ids : /\ KeepsWaiting(f, g, d)
                                /\ f.told[d] # "nothing" => g.told[d] = f.told[d]

LEMMA AbortStep ==
  ASSUME NEW f, FetchInv(f), NEW id \in Ids, NEW revoked \in BOOLEAN,
         NEW g, g = AbortRequest(f, id, revoked)
  PROVE  Goes(f, g)
<1>1. /\ IsFetch(f) /\ Once(f.jobs) /\ Injective(f.pending) /\ Injective(f.localPending)
      /\ Core(f, id) /\ Prompt(f, id) /\ Calm(f, id) /\ ParkedAt(f, id)
  BY ONLY FetchInv(f), id \in Ids, InvAt
<1>2. id \in Ids /\ revoked \in BOOLEAN
  OBVIOUS
<1>3. /\ Moved(f, g, id) /\ KeepsWaiting(f, g, id) /\ g.next = f.next
      /\ Prompt(g, id) /\ Calm(g, id)
      /\ Injective(g.localPending) /\ ParkedAt(g, id) /\ ParkedElsewhere(f, g, id)
      /\ f.told[id] # "nothing" => g.told[id] = f.told[id]
  BY ONLY <1>1, <1>2, g = AbortRequest(f, id, revoked), AbortDoes
<1>4. FetchInv(g) /\ \A d \in Ids : d # id => KeepsWaiting(f, g, d)
  BY ONLY <1>2, <1>3, FetchInv(f), InvMoved
<1>5. \A d \in Ids : d # id => g.told[d] = f.told[d]
  BY <1>3 DEF Moved, Elsewhere, Same
<1> QED BY <1>3, <1>4, <1>5 DEF Goes

\* A call of fetch(): one more that waits.
Begins(f, g, id) == /\ FetchInv(g) /\ g.next = f.next + 1
                    /\ Connecting(g, id) /\ ~Reading(g, id)
                    /\ \A d \in Ids : d # id => KeepsWaiting(f, g, d) /\ g.told[d] = f.told[d]

LEMMA BornBegins ==
  ASSUME NEW f, FetchInv(f), NEW id \in Ids, NEW g, Born(f, g, id)
  PROVE  Begins(f, g, id)
<1>1. /\ Moved(f, g, id) /\ Prompt(g, id) /\ Calm(g, id)
      /\ Injective(g.localPending) /\ ParkedAt(g, id) /\ ParkedElsewhere(f, g, id)
  BY DEF Born
<1>2. FetchInv(g) /\ \A d \in Ids : d # id => KeepsWaiting(f, g, d)
  BY ONLY <1>1, FetchInv(f), id \in Ids, InvMoved
<1>3. \A d \in Ids : d # id => g.told[d] = f.told[d]
  BY <1>1 DEF Moved, Elsewhere, Same
<1> QED BY <1>2, <1>3 DEF Begins, Born

LEMMA StartStep ==
  ASSUME NEW f, FetchInv(f), NEW id \in Ids, id = f.next,
         NEW g, \/ g = StartTransfer(f)
                \/ g = QueueLocalResponse(f)
                \/ \E outcome \in {"denied", "network", "aborted"} : g = RejectAtOnce(f, outcome)
  PROVE  Begins(f, g, id)
<1>1. /\ IsFetch(f) /\ Once(f.jobs) /\ Injective(f.pending) /\ Injective(f.localPending)
      /\ Core(f, id) /\ ParkedAt(f, id)
  BY ONLY FetchInv(f), id \in Ids, InvAt
<1>2. id \in Ids /\ id = f.next
  OBVIOUS
<1>3. Born(f, g, id)
  <2>1. CASE g = StartTransfer(f)
    BY ONLY <1>1, <1>2, <2>1, StartDoes
  <2>2. CASE g = QueueLocalResponse(f)
    BY ONLY <1>1, <1>2, <2>2, LocalDoes
  <2>3. CASE \E outcome \in {"denied", "network", "aborted"} : g = RejectAtOnce(f, outcome)
    <3>1. PICK outcome \in {"denied", "network", "aborted"} : g = RejectAtOnce(f, outcome)
      BY <2>3
    <3> QED BY ONLY <1>1, <1>2, <3>1, RejectDoes
  <2> QED BY <2>1, <2>2, <2>3
<1> QED BY ONLY <1>2, <1>3, FetchInv(f), BornBegins

\* A read of a response that nobody reads.
Reads(f, g, id) == /\ FetchInv(g) /\ g.next = f.next /\ g.told = f.told /\ g.end = f.end
                   /\ Reading(g, id) /\ ~Connecting(g, id)
                   /\ \A d \in Ids : d # id => KeepsWaiting(f, g, d)

LEMMA RestIsParked ==
  ASSUME NEW f, FetchInv(f), NEW id \in Ids, NEW g, Moved(f, g, id), KeepsRest(f, g)
  PROVE  Injective(g.localPending) /\ ParkedAt(g, id) /\ ParkedElsewhere(f, g, id)
<1>1. f.next \in Nat /\ Core(f, id) /\ ParkedAt(f, id) /\ Injective(f.localPending)
  BY ONLY FetchInv(f), id \in Ids, InvAt
<1>2. /\ Live(f, id) /\ ~f.req[id].easy /\ f.req[id].promise
           <=> id < f.next /\ f.told[id] = "nothing" /\ ~In(f.pending, id)
  BY ONLY <1>1, id \in Ids, ParkedByCore
<1>3. g.next \in Nat /\ Core(g, id)
  BY <1>1 DEF Moved, KeepsRest
<1>4. /\ Live(g, id) /\ ~g.req[id].easy /\ g.req[id].promise
           <=> id < g.next /\ g.told[id] = "nothing" /\ ~In(g.pending, id)
  BY ONLY <1>3, id \in Ids, ParkedByCore
<1> QED BY <1>1, <1>2, <1>4 DEF ParkedAt, ParkedElsewhere, KeepsRest

LEMMA ReadStep ==
  ASSUME NEW f, FetchInv(f), NEW id \in Ids, f.told[id] = "response",
         ~Connecting(f, id), ~Reading(f, id), NEW g, g = ReadBody(f, id)
  PROVE  Reads(f, g, id)
<1>1. /\ IsFetch(f) /\ Once(f.jobs) /\ Injective(f.pending)
      /\ Core(f, id) /\ Prompt(f, id) /\ Calm(f, id)
  BY ONLY FetchInv(f), id \in Ids, InvAt
<1>2. id < f.next
  <2>1. f.told[id] # "nothing"
    OBVIOUS
  <2> QED BY ONLY <1>1, <2>1, id \in Ids, LiveIsBorn
<1>3. /\ Moved(f, g, id) /\ KeepsRest(f, g) /\ Prompt(g, id) /\ Calm(g, id)
      /\ Reading(g, id) /\ ~Connecting(g, id)
  <2>1. f.told[id] = "response" /\ ~Connecting(f, id) /\ ~Reading(f, id)
    OBVIOUS
  <2> QED BY ONLY <1>1, <1>2, <2>1, id \in Ids, g = ReadBody(f, id), ReadBodyDoes
<1>4. Injective(g.localPending) /\ ParkedAt(g, id) /\ ParkedElsewhere(f, g, id)
  BY ONLY <1>3, FetchInv(f), id \in Ids, RestIsParked
<1>5. FetchInv(g) /\ \A d \in Ids : d # id => KeepsWaiting(f, g, d)
  BY ONLY <1>3, <1>4, FetchInv(f), id \in Ids, InvMoved
<1> QED BY <1>3, <1>5 DEF Reads, KeepsRest

-------------------------------------------------------------------------------
(* The first microtask is taken.                                                   *)

Popped(f) == [f EXCEPT !.jobs = Tail(f.jobs)]

Taken(f, e, j) == /\ IsFetch(e) /\ KeepsRest(f, e) /\ e.req = f.req /\ e.body = f.body
                  /\ FirstTaken(f.jobs, j, e.jobs)

LEMMA PoppedIs ==
  ASSUME NEW f, FetchInv(f), f.jobs # <<>>, NEW j, j = Head(f.jobs), NEW e, e = Popped(f)
  PROVE  Taken(f, e, j)
<1>1. IsFetch(f) /\ Once(f.jobs) /\ f = [k \in Fields |-> f[k]]
  BY DEF FetchInv, Sound, IsFetch
<1>2. f.jobs \in Seq(Jobs)
  BY <1>1 DEF IsFetch
<1>3. /\ e.req = f.req /\ e.pending = f.pending /\ e.localPending = f.localPending
      /\ e.end = f.end /\ e.next = f.next /\ e.body = f.body /\ e.jobs = Tail(f.jobs)
      /\ e.told = f.told /\ e.sent = f.sent /\ e = [k \in Fields |-> e[k]]
  BY <1>1 DEF Popped, Fields
<1>4. PICK js : js = f.jobs
  OBVIOUS
<1>5. js \in Seq(Jobs) /\ js # <<>> /\ Once(js) /\ j = Head(js)
  BY <1>1, <1>2, <1>4
<1>6. FirstTaken(js, j, Tail(js))
  BY <1>5, JobPopped
<1>7. IsFetch(e)
  BY <1>1, <1>3, <1>4, <1>6 DEF IsFetch, FirstTaken
<1> QED BY <1>3, <1>4, <1>6, <1>7 DEF KeepsRest, Taken

\* The reaction to fetch() or to a read: nobody waits any more.
Settled(f, e, j) == /\ FetchInv(e) /\ KeepsRest(f, e)
                    /\ ~Connecting(e, j.id) /\ ~Reading(e, j.id)
                    /\ \A d \in Ids : d # j.id => KeepsWaiting(f, e, d)
                    /\ j.on = "fetched" => /\ Connecting(f, j.id) /\ e.told[j.id] # "nothing"
                                           /\ (j.ok <=> e.told[j.id] = "response")
                    /\ j.on = "read" => Reading(f, j.id) /\ e.told[j.id] = "response"
                    /\ j.on = "read" /\ j.ok /\ j.chunk = 0
                         => e.end[j.id] \notin {"running", "denied"}

LEMMA SettledPopped ==
  ASSUME NEW f, FetchInv(f), f.jobs # <<>>, NEW j, j = Head(f.jobs), NEW e, e = Popped(f),
         j.on \in {"fetched", "read"}
  PROVE  Settled(f, e, j) /\ j.id \in Ids /\ j \in Jobs
<1>1. /\ j \in Jobs /\ IsFetch(e) /\ Once(e.jobs)
      /\ KeepsRest(f, e) /\ e.req = f.req /\ e.body = f.body
      /\ j \in Of(f.jobs, j.id)
      /\ \A a \in Of(f.jobs, j.id) : SameLane(a, j) => a = j
      /\ Of(e.jobs, j.id) = Of(f.jobs, j.id) \ {j}
      /\ \A d : d # j.id => Of(e.jobs, d) = Of(f.jobs, d)
  <2>1. Taken(f, e, j)
    BY ONLY FetchInv(f), f.jobs # <<>>, j = Head(f.jobs), e = Popped(f), PoppedIs
  <2>2. j.on # "threw" /\ Key(j) = j.id
    BY DEF Key
  <2> QED BY <2>1, <2>2 DEF Taken, FirstTaken
<1>2. PICK id \in Ids : id = j.id
  BY <1>1 DEF Jobs
<1>3. Core(f, id) /\ f.next \in Nat /\ Prompt(f, id) /\ Calm(f, id) /\ Injective(f.pending)
  BY ONLY FetchInv(f), <1>2, InvAt
<1>4. JobOn(f, j.on, id)
  BY <1>1, <1>2 DEF JobOn
<1>5. /\ ~JobOn(e, "fetched", id) /\ ~JobOn(e, "read", id)
      /\ JobOn(e, "pull", id) <=> JobOn(f, "pull", id)
  <2>1. \A a \in Of(f.jobs, id) : a.on # "threw" /\ a.id = id
    <3>1. f.jobs \in Seq(Jobs)
      BY DEF FetchInv, Sound, IsFetch
    <3> QED BY <3>1, OfRequest
  <2>2. \A a \in Of(f.jobs, id) : a.on # "pull" => a = j
    BY <1>1, <1>2, <2>1 DEF SameLane
  <2> QED BY <1>1, <1>2, <2>2 DEF JobOn
<1>6. Live(e, id) <=> Live(f, id)
  BY <1>1 DEF Live
<1>7. Streaming(e, id) <=> Streaming(f, id)
  BY <1>1 DEF Streaming
<1>8. /\ id < f.next /\ f.told[id] # "nothing" /\ JobsAt(f, id)
      /\ j.on = "read" => f.told[id] = "response"
      /\ j.on = "fetched" => (j.ok <=> f.told[id] = "response")
      /\ j.on = "read" /\ j.ok /\ j.chunk = 0 => f.end[id] \notin {"running", "denied"}
  <2>1. JobsAt(f, id)
    BY <1>3 DEF Core
  <2>2. Of(f.jobs, id) # {} /\ IsFetch(f)
    BY <1>1, <1>2 DEF FetchInv, Sound
  <2>3. id < f.next
    BY ONLY <1>2, <1>3, <2>2, LiveIsBorn
  <2>4. JobAt(f, id, j)
    BY <1>1, <1>2, <2>1 DEF JobsAt
  <2> QED BY <1>4, <2>1, <2>3, <2>4 DEF JobsAt, JobAt
<1>9. ~Connecting(e, id) /\ ~Reading(e, id)
  <2>1. ~Connecting(e, id)
    BY <1>1, <1>5, <1>8 DEF Connecting, KeepsRest
  <2>2. ~(Streaming(f, id) /\ f.body[id].pendingReads = 1)
    <3>1. CASE j.on = "read"
      BY <1>3, <1>4, <3>1 DEF Core, BodyAt, PullAt
    <3>2. CASE j.on = "fetched"
      BY <1>4, <1>8, <3>2 DEF JobsAt, Connecting, Reading
    <3> QED BY <3>1, <3>2
  <2> QED BY <1>1, <1>5, <1>7, <2>1, <2>2 DEF Reading
<1>10. Core(e, id)
  <2>1. id >= e.next => Unborn(e, id)
    BY <1>2, <1>3, <1>8, <1>1 DEF KeepsRest, Ids
  <2>2. Live(e, id) => ReqAt(e, id)
    BY <1>1, <1>3, <1>6, <1>7 DEF Core, ReqAt, KeepsRest
  <2>3. ~Live(e, id) => GoneAt(e, id)
    BY <1>1, <1>3, <1>6 DEF Core, GoneAt, KeepsRest
  <2>4. Streaming(e, id) => BodyAt(e, id)
    <3>1. Waits(e, id) <=> Waits(f, id)
      BY <1>1, <1>6 DEF Waits
    <3>2. Streaming(f, id) => PullAt(e, id)
      BY <1>1, <1>3, <1>5, <3>1 DEF Core, BodyAt, PullAt
    <3> QED BY <1>1, <1>3, <1>6, <1>7, <3>2 DEF Core, BodyAt, KeepsRest
  <2>5. JobsAt(e, id)
    <3>1. \A a \in Of(e.jobs, id) : JobAt(e, id, a)
      BY <1>1, <1>2, <1>8 DEF JobsAt, JobAt, KeepsRest
    <3> QED BY <1>1, <1>5, <1>7, <1>8, <1>9, <3>1 DEF JobsAt, KeepsRest
  <2> QED BY <2>1, <2>2, <2>3, <2>4, <2>5 DEF Core
<1>11. Elsewhere(f, e, id)
  <2>1. \A d \in Ids : Of(e.jobs, -d) = Of(f.jobs, -d)
    BY <1>1, <1>2, Apart
  <2> QED BY <1>1, <1>2, <2>1 DEF Elsewhere, Same, KeepsRest, Live, Streaming
<1>12. Moved(f, e, id)
  BY <1>1, <1>3, <1>10, <1>11 DEF Moved, KeepsRest
<1>13. Prompt(e, id) /\ Calm(e, id)
  BY <1>1, <1>3 DEF Prompt, Calm, Waits, Live
<1>14. Injective(e.localPending) /\ ParkedAt(e, id) /\ ParkedElsewhere(f, e, id)
  <2>1. KeepsRest(f, e)
    BY <1>1
  <2> QED BY ONLY <1>2, <1>12, <2>1, FetchInv(f), RestIsParked
<1>15. FetchInv(e) /\ \A d \in Ids : d # id => KeepsWaiting(f, e, d)
  BY ONLY <1>2, <1>12, <1>13, <1>14, FetchInv(f), InvMoved
<1>16. /\ j.on = "fetched" => Connecting(f, id)
       /\ j.on = "read" => Reading(f, id)
  BY <1>4 DEF Connecting, Reading
<1>17. e.told = f.told /\ e.end = f.end
  BY <1>1 DEF KeepsRest
<1> QED BY <1>1, <1>2, <1>8, <1>9, <1>15, <1>16, <1>17 DEF Settled

LEMMA ThrewPopped ==
  ASSUME NEW f, FetchInv(f), f.jobs # <<>>, NEW j, j = Head(f.jobs), NEW e, e = Popped(f),
         j.on = "threw"
  PROVE  Goes(f, e) /\ j \in Jobs /\ j.id \in Ids /\ j.id < e.next
<1>1. /\ j \in Jobs /\ IsFetch(e) /\ Once(e.jobs)
      /\ KeepsRest(f, e) /\ e.req = f.req /\ e.body = f.body
      /\ \A d : d # -j.id => Of(e.jobs, d) = Of(f.jobs, d)
      /\ j \in Of(f.jobs, -j.id) /\ Of(e.jobs, -j.id) \subseteq Of(f.jobs, -j.id)
  <2>1. Taken(f, e, j)
    BY ONLY FetchInv(f), f.jobs # <<>>, j = Head(f.jobs), e = Popped(f), PoppedIs
  <2>2. Key(j) = -j.id
    BY DEF Key
  <2> QED BY <2>1, <2>2 DEF Taken, FirstTaken
<1>2. PICK id \in Ids : id = j.id
  BY <1>1 DEF Jobs
<1>3. \A d \in Ids : Same(f, e, d)
  <2>1. \A d \in Ids : Of(e.jobs, d) = Of(f.jobs, d) /\ Of(e.jobs, -d) \subseteq Of(f.jobs, -d)
    BY <1>1, <1>2, Apart
  <2> QED BY <1>1, <2>1 DEF Same, KeepsRest, Live, Streaming
<1>4. f.next \in Nat /\ e.next \in Nat /\ Injective(f.pending)
      /\ \A d \in Ids : Core(f, d) /\ Prompt(f, d) /\ Calm(f, d)
  <2>1. f.next \in Nat /\ Injective(f.pending)
        /\ \A d \in Ids : Core(f, d) /\ Prompt(f, d) /\ Calm(f, d)
    BY ONLY FetchInv(f), InvAt
  <2> QED BY <1>1, <2>1 DEF KeepsRest
<1>5. \A d \in Ids : Core(e, d) /\ Prompt(e, d) /\ Calm(e, d) /\ KeepsWaiting(f, e, d)
  BY <1>3, <1>4, CoreSame DEF KeepsWaiting, Same
<1>6. Parked(e)
  BY <1>1 DEF FetchInv, Parked, KeepsRest, Live
<1>7. Sound(e)
  BY <1>1, <1>4, <1>5 DEF Sound, KeepsRest
<1>8. id < e.next
  <2>1. Core(f, id) /\ Of(f.jobs, -id) # {} /\ id \in Nat
    BY <1>1, <1>2, <1>4, FetchAssumption DEF Ids
  <2>2. ~(id >= f.next)
    BY <2>1 DEF Core, Unborn
  <2> QED BY <1>1, <1>4, <2>1, <2>2 DEF KeepsRest
<1> QED BY <1>1, <1>2, <1>5, <1>6, <1>7, <1>8 DEF Goes, FetchInv, KeepsRest

LEMMA PullStep ==
  ASSUME NEW f, FetchInv(f), f.jobs # <<>>, NEW j, j = Head(f.jobs), NEW e, e = Popped(f),
         j.on = "pull", NEW g, g = BodyPulled(e, j.id)
  PROVE  Goes(f, g)
<1>1. /\ j \in Jobs /\ IsFetch(e) /\ Once(e.jobs)
      /\ KeepsRest(f, e) /\ e.req = f.req /\ e.body = f.body
      /\ j \in Of(f.jobs, j.id)
      /\ \A a \in Of(f.jobs, j.id) : SameLane(a, j) => a = j
      /\ Of(e.jobs, j.id) = Of(f.jobs, j.id) \ {j}
      /\ \A d : d # j.id => Of(e.jobs, d) = Of(f.jobs, d)
  <2>1. Taken(f, e, j)
    BY ONLY FetchInv(f), f.jobs # <<>>, j = Head(f.jobs), e = Popped(f), PoppedIs
  <2>2. j.on # "threw" /\ Key(j) = j.id
    BY DEF Key
  <2> QED BY <2>1, <2>2 DEF Taken, FirstTaken
<1>2. PICK id \in Ids : id = j.id
  BY <1>1 DEF Jobs
<1>3. Core(f, id) /\ f.next \in Nat /\ Prompt(f, id) /\ Calm(f, id) /\ Injective(f.pending)
  BY ONLY FetchInv(f), <1>2, InvAt
<1>4. JobOn(f, "pull", id)
  BY <1>1, <1>2 DEF JobOn
<1>5. /\ ~JobOn(e, "pull", id)
      /\ JobOn(e, "fetched", id) <=> JobOn(f, "fetched", id)
      /\ JobOn(e, "read", id) <=> JobOn(f, "read", id)
  <2>1. \A a \in Of(f.jobs, id) : a.on # "threw" /\ a.id = id
    <3>1. f.jobs \in Seq(Jobs)
      BY DEF FetchInv, Sound, IsFetch
    <3> QED BY <3>1, OfRequest
  <2>2. \A a \in Of(f.jobs, id) : a.on = "pull" => a = j
    BY <1>1, <1>2, <2>1 DEF SameLane
  <2> QED BY <1>1, <1>2, <2>2 DEF JobOn
<1>6. (Live(e, id) <=> Live(f, id)) /\ (Streaming(e, id) <=> Streaming(f, id))
  BY <1>1 DEF Live, Streaming
<1>7. JobsAt(f, id) /\ Streaming(f, id) /\ BodyAt(f, id)
  BY <1>3, <1>4 DEF Core, JobsAt
<1>8. KeepsWaiting(f, e, id)
  BY <1>1, <1>5, <1>6 DEF KeepsWaiting, Connecting, Reading, KeepsRest
<1>9. AfterPull(e, id)
  <2>1. id < f.next
    <3>1. Of(f.jobs, id) # {} /\ IsFetch(f)
      BY <1>1, <1>2 DEF FetchInv, Sound
    <3> QED BY ONLY <1>2, <1>3, <3>1, LiveIsBorn
  <2>2. JobsAt(e, id)
    <3>1. \A a \in Of(e.jobs, id) : JobAt(e, id, a)
      <4>1. \A a \in Of(f.jobs, id) : JobAt(f, id, a)
        BY <1>7 DEF JobsAt
      <4>2. \A a \in Of(e.jobs, id) : a \in Of(f.jobs, id)
        BY <1>1, <1>2
      <4>3. e.told = f.told /\ e.end = f.end
        BY <1>1 DEF KeepsRest
      <4> QED BY ONLY <4>1, <4>2, <4>3 DEF JobAt
    <3> QED BY <1>1, <1>5, <1>6, <1>7, <1>8, <3>1 DEF JobsAt, KeepsRest, KeepsWaiting
  <2>3. Live(e, id) => ReqAt(e, id)
    BY <1>1, <1>3, <1>6 DEF Core, ReqAt, KeepsRest
  <2>4. ~Live(e, id) => GoneAt(e, id)
    BY <1>1, <1>3, <1>6 DEF Core, GoneAt, KeepsRest
  <2>5. StreamAt(e, id)
    BY <1>1, <1>6, <1>7 DEF BodyAt, StreamAt, KeepsRest
  <2>6. ~Waits(e, id) /\ e.body[id].pullInProgress
    BY <1>1, <1>4, <1>6, <1>7 DEF BodyAt, PullAt, Waits
  <2>7. e.body[id].pendingReads = 1 => /\ ~JobOn(e, "read", id) /\ e.body[id].queue = <<>>
                                       /\ e.body[id].state = "readable" /\ e.body[id].pullAgain
    BY <1>1, <1>4, <1>5, <1>7 DEF BodyAt, PullAt
  <2> QED BY <1>1, <1>5, <1>6, <1>7, <2>1, <2>2, <2>3, <2>4, <2>5, <2>6, <2>7
          DEF AfterPull, KeepsRest
<1>10. Elsewhere(f, e, id)
  <2>1. \A d \in Ids : Of(e.jobs, -d) = Of(f.jobs, -d)
    BY <1>1, <1>2, Apart
  <2> QED BY <1>1, <1>2, <2>1 DEF Elsewhere, Same, KeepsRest, Live, Streaming
<1>11. /\ Moved(e, g, id) /\ KeepsRest(e, g) /\ Prompt(g, id) /\ Calm(g, id)
       /\ KeepsWaiting(e, g, id)
  <2>1. Injective(e.pending) /\ Prompt(e, id) /\ IsFetch(e) /\ Once(e.jobs)
    BY <1>1, <1>3 DEF KeepsRest, Prompt, Live
  <2>2. g = BodyPulled(e, id)
    BY <1>2
  <2> QED BY ONLY <1>2, <1>9, <2>1, <2>2, BodyPulledDoes
<1>12. KeepsRest(f, g) /\ KeepsWaiting(f, g, id)
  BY <1>1, <1>8, <1>11 DEF KeepsRest, KeepsWaiting
<1>13. Moved(f, g, id)
  <2>1. Elsewhere(f, g, id)
    BY ONLY <1>10, <1>11, ElsewhereTwice DEF Moved
  <2> QED BY <1>11, <2>1 DEF Moved
<1>14. Injective(g.localPending) /\ ParkedAt(g, id) /\ ParkedElsewhere(f, g, id)
  BY ONLY <1>2, <1>12, <1>13, FetchInv(f), RestIsParked
<1>15. FetchInv(g) /\ \A d \in Ids : d # id => KeepsWaiting(f, g, d)
  BY ONLY <1>2, <1>11, <1>13, <1>14, FetchInv(f), InvMoved
<1> QED BY <1>12, <1>15 DEF Goes, KeepsRest

LEMMA TickStep ==
  ASSUME NEW f, FetchInv(f), NEW chunk, NEW result,
         \A d \in DOMAIN f.req : /\ chunk[d] \in Nat
                                 /\ result[d] \in {"running", "ok", "failed", "refused"},
         NEW g, g = FetchTick(f, chunk, result)
  PROVE  FetchInv(g) /\ g.next = f.next /\ \A d \in Ids : KeepsWaiting(f, g, d)
BY TickDoes DEF Rolling

LEMMA InitFetch ==
  /\ FetchInv(NewFetchState) /\ NewFetchState.next = 1 /\ NewFetchState.jobs = <<>>
  /\ \A d \in Ids : ~Connecting(NewFetchState, d) /\ ~Reading(NewFetchState, d)
<1>1. PICK f : f = NewFetchState
  OBVIOUS
<1>2. /\ f.req = <<>> /\ f.pending = <<>> /\ f.localPending = <<>> /\ f.next = 1
      /\ f.body = <<>> /\ f.jobs = <<>> /\ f.told = [i \in Ids |-> "nothing"]
      /\ f.sent = [i \in Ids |-> 0] /\ f.end = [i \in Ids |-> "running"]
      /\ f = [k \in Fields |-> f[k]]
  BY <1>1 DEF NewFetchState, Fields
<1>3. MaxRequests \in Nat /\ MaxRequests # 0
  BY FetchAssumption
<1>4. IsFetch(f)
  <2>1. \A S : IsTable(<<>>, S)
    BY DEF IsTable
  <2>2. <<>> \in Seq(Ids) /\ <<>> \in Seq(Jobs)
    OBVIOUS
  <2>3. f.next \in 1 .. MaxRequests + 1
    BY <1>2, <1>3
  <2>4. f.told \in [Ids -> Told] /\ f.sent \in [Ids -> Nat] /\ f.end \in [Ids -> Ends]
    BY <1>2 DEF Told, Ends
  <2> QED BY <1>2, <2>1, <2>2, <2>3, <2>4 DEF IsFetch
<1>5. Once(f.jobs) /\ Injective(f.pending) /\ Injective(f.localPending)
  BY <1>2 DEF Once, Injective
<1>6. ASSUME NEW d \in Ids
      PROVE  /\ Core(f, d) /\ Prompt(f, d) /\ Calm(f, d) /\ ParkedAt(f, d)
             /\ ~Connecting(f, d) /\ ~Reading(f, d)
  <2>1. d \in Nat /\ d >= 1 /\ f.told[d] = "nothing" /\ f.end[d] = "running" /\ f.sent[d] = 0
    BY <1>2, <1>3 DEF Ids
  <2>2. ~Live(f, d) /\ ~Streaming(f, d) /\ ~In(f.pending, d) /\ ~In(f.localPending, d)
    BY <1>2 DEF Live, Streaming, In
  <2>3. Of(f.jobs, d) = {} /\ Of(f.jobs, -d) = {}
    BY <1>2 DEF Of
  <2>4. ~(d < f.next)
    BY <1>2, <2>1
  <2>5. \A on : ~JobOn(f, on, d)
    BY <2>3 DEF JobOn
  <2>6. ~Connecting(f, d) /\ ~Reading(f, d)
    BY <2>2, <2>4, <2>5 DEF Connecting, Reading
  <2>7. Core(f, d)
    BY <2>1, <2>2, <2>3, <2>4, <2>5, <2>6 DEF Core, Unborn, GoneAt, JobsAt
  <2> QED BY <2>2, <2>6, <2>7 DEF Prompt, Calm, Waits, ParkedAt
<1>7. Parked(f) /\ Sound(f)
  BY <1>4, <1>5, <1>6 DEF Parked, ParkedAt, Sound
<1> QED BY <1>1, <1>2, <1>6, <1>7 DEF FetchInv

===============================================================================
