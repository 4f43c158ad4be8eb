---------------------------- MODULE Threads_proof -----------------------------
(***************************************************************************)
(* Proofs about the three parts whose threads meet in a mutex, a flag or a *)
(* wake: NetWait, for any number of wakers and whatever becomes of the     *)
(* attempts to make the pipe; FsAsync, for any number of JS threads, pool  *)
(* threads, calls and writes, ids of ended threads given again: a promise  *)
(* is settled by the result of its own call, or by one left behind under   *)
(* the same thread id and number; and ChildPipe, for every size of pipe    *)
(* and buffer and any number of bytes: no buffer grows past its high-water *)
(* mark, and what the child wrote before its exit is delivered before      *)
(* 'close', but for what an exit listener that outlasts the grace leaves   *)
(* in the pipe.                                                            *)
(***************************************************************************)
EXTENDS NetWait, FsAsync, ChildPipe, TLAPS

(* The wait and its wakes.                                                   *)

LEMMA InitTypeOK == WaitInit => WaitTypeOK
<1> SUFFICES ASSUME WaitInit PROVE WaitTypeOK
  OBVIOUS
<1> USE DEF WaitInit
<1>1. waker \in [Wakers -> {"idle", "won"}]
  OBVIOUS
<1>2. pc \in [Waiters -> {"run", "check", "events", "select", "after",
                         "clear", "read", "return"}]
  OBVIOUS
<1>3. /\ watch \in [Waiters -> BOOLEAN] /\ result \in [Waiters -> BOOLEAN]
      /\ owed \in [Waiters -> {"none", "awake", "asleep"}]
  OBVIOUS
<1> QED BY <1>1, <1>2, <1>3 DEF WaitTypeOK

LEMMA NextTypeOK == WaitTypeOK /\ [WaitNext]_waitVars => WaitTypeOK'
<1> SUFFICES ASSUME WaitTypeOK, [WaitNext]_waitVars
             PROVE  WaitTypeOK'
  OBVIOUS
<1> USE DEF WaitTypeOK, Goto, Answer, waiterVars
<1>1. ASSUME NEW w \in Wakers, Waker(w)
      PROVE  WaitTypeOK'
  <2>1. CASE Exchange(w)
    BY <2>1 DEF Exchange
  <2>2. CASE WriteByte(w)
    BY <2>2 DEF WriteByte
  <2> QED BY <1>1, <2>1, <2>2 DEF Waker
<1>2. ASSUME NEW t \in Waiters, Waiter(t)
      PROVE  WaitTypeOK'
  <2>1. CASE EnsurePipe(t)
    BY <2>1, PipeAssumption DEF EnsurePipe
  <2>2. CASE CheckFlag(t) \/ DontSleep(t) \/ BeginSelect(t)
    BY <2>2 DEF CheckFlag, DontSleep, BeginSelect
  <2>3. CASE PipeReadable(t) \/ SocketReady(t) \/ TimesOut(t) \/ Interrupted(t)
    BY <2>3 DEF PipeReadable, SocketReady, TimesOut, Interrupted
  <2>4. CASE CheckFlagAgain(t) \/ ClearFlag(t)
    BY <2>4 DEF CheckFlagAgain, ClearFlag
  <2>5. CASE ReadBytes(t) \/ ReadNothing(t) \/ Return(t)
    BY <2>5 DEF ReadBytes, ReadNothing, Return
  <2> QED BY <1>2, <2>1, <2>2, <2>3, <2>4, <2>5 DEF Waiter
<1>3. CASE UNCHANGED waitVars
  BY <1>3 DEF waitVars
<1> QED BY <1>1, <1>2, <1>3 DEF WaitNext

\* The flag, the pipe and the program counters keep their types.
THEOREM WaitTypeCorrect == WaitSpec => []WaitTypeOK
<1> QED BY InitTypeOK, NextTypeOK, PTL DEF WaitSpec

-------------------------------------------------------------------------------
(* One JS thread: a wake raises the flag until the thread lowers it, and a   *)
(* raised flag met after the first look at it comes with a byte.             *)

Raised(t) == owed[t] # "none" /\ pc[t] \notin {"read", "return"} => flag

ByteComing == bytes > 0 \/ \E w \in Wakers : waker[w] = "won"

Backed(t) == pc[t] \in {"events", "select"} /\ flag /\ pipe # "none" => ByteComing

Watching(t) == pc[t] = "select" /\ watch[t] => pipe = "ok"

WakeInv(t) == Raised(t) /\ Backed(t) /\ Watching(t)

LEMMA NextWakeInv ==
  ASSUME NEW t, Waiters = {t}
  PROVE  WaitTypeOK /\ WakeInv(t) /\ [WaitNext]_waitVars => WakeInv(t)'
<1> SUFFICES ASSUME WaitTypeOK, WakeInv(t), [WaitNext]_waitVars
             PROVE  WakeInv(t)'
  OBVIOUS
<1> USE DEF WakeInv, Raised, Backed, Watching, ByteComing, WaitTypeOK, Goto, Answer, waiterVars
<1>1. ASSUME NEW w \in Wakers, Exchange(w)
      PROVE  WakeInv(t)'
  <2>1. flag' /\ UNCHANGED <<pipe, bytes, pc, watch>>
    BY <1>1 DEF Exchange
  <2>2. CASE flag
    BY <1>1, <2>1, <2>2 DEF Exchange
  <2>3. CASE ~flag
    <3>1. waker'[w] = "won"
      BY <1>1, <2>3 DEF Exchange
    <3> QED BY <2>1, <3>1
  <2> QED BY <2>2, <2>3
<1>2. ASSUME NEW w \in Wakers, WriteByte(w)
      PROVE  WakeInv(t)'
  <2>1. pipe # "none" => bytes' > 0
    BY <1>2 DEF WriteByte
  <2> QED BY <1>2, <2>1 DEF WriteByte
<1>3. ASSUME NEW u \in Waiters, Waiter(u)
      PROVE  WakeInv(t)'
  <2>1. u = t
    OBVIOUS
  <2>2. CASE EnsurePipe(t)
    BY <2>2 DEF EnsurePipe
  <2>3. CASE CheckFlag(t) \/ DontSleep(t)
    BY <2>3 DEF CheckFlag, DontSleep
  <2>4. CASE BeginSelect(t)
    <3>1. pc[t] = "events" /\ pc'[t] = "select" /\ UNCHANGED <<flag, pipe, bytes, waker, owed>>
      BY <2>4 DEF BeginSelect
    <3>2. watch'[t] <=> pipe = "ok"
      BY <2>4 DEF BeginSelect
    <3> QED BY <3>1, <3>2
  <2>5. CASE PipeReadable(t) \/ SocketReady(t) \/ TimesOut(t) \/ Interrupted(t)
    BY <2>5 DEF PipeReadable, SocketReady, TimesOut, Interrupted
  <2>6. CASE CheckFlagAgain(t)
    BY <2>6 DEF CheckFlagAgain
  <2>7. CASE ClearFlag(t)
    <3>1. pc'[t] \in {"return", "read"}
      BY <2>7 DEF ClearFlag
    <3> QED BY <3>1
  <2>8. CASE ReadBytes(t) \/ ReadNothing(t) \/ Return(t)
    BY <2>8 DEF ReadBytes, ReadNothing, Return
  <2> QED BY <1>3, <2>1, <2>2, <2>3, <2>4, <2>5, <2>6, <2>7, <2>8 DEF Waiter
<1>4. CASE UNCHANGED waitVars
  BY <1>4 DEF waitVars
<1> QED BY <1>1, <1>2, <1>3, <1>4 DEF WaitNext, Waker

\* With one thread waiting, a thread asleep on the pipe never sleeps on a wake,
\* for any number of wakers.  (Two threads may share a wake that only one of
\* them answers.)
THEOREM SingleWaiterNeverSleepsOnAWake ==
  ASSUME NEW t, Waiters = {t}
  PROVE  WaitSpec => []NoLostWake
<1>1. WaitInit => WakeInv(t)
  BY DEF WaitInit, WakeInv, Raised, Backed, Watching
<1>2. WaitTypeOK /\ WakeInv(t) /\ [WaitNext]_waitVars => WakeInv(t)'
  BY NextWakeInv
<1>3. WakeInv(t) => NoLostWake
  BY DEF WakeInv, Raised, Backed, Watching, ByteComing, NoLostWake
<1> QED BY <1>1, <1>2, <1>3, WaitTypeCorrect, PTL DEF WaitSpec

-------------------------------------------------------------------------------
(* Asynchronous files.                                                       *)

Typed == /\ life \in [Threads -> {"new", "running", "ended"}]
         /\ tid \in [Threads -> Ids \union {None}]
         /\ next \in [Threads -> Nat]
         /\ promises \in [Threads -> SUBSET JobIds]
         /\ queue \in Seq(Jobs)
         /\ stage \in [Workers -> {"looks", "sleeps", "works", "reports"}]
         /\ job \in [Workers -> Jobs \union {None}]
         /\ \A w \in Workers : job[w] \in Jobs <=> stage[w] \in {"works", "reports"}
         /\ done \in [Ids -> Seq(Jobs)]
         /\ settledBy \in [Jobs -> Jobs \union {None}]

\* A thread has an id from its start on, and none that runs has the same: only
\* those that have ended may share theirs.
Named == \A t \in Threads : tid[t] \in Ids <=> life[t] # "new"

Distinct == \A t, u \in Threads :
               tid[t] = tid[u] /\ life[t] = "running" => t = u \/ life[u] \in {"new", "ended"}

\* Jobs are of threads that have an id, and a completed one is on its thread's list.
Owned == /\ \A n \in 1 .. Len(queue) : tid[queue[n].by] \in Ids
         /\ \A w \in Workers : job[w] \in Jobs => tid[job[w].by] \in Ids
         /\ \A i \in Ids : \A n \in 1 .. Len(done[i]) : tid[done[i][n].by] = i

OwnInv == Typed /\ Named /\ Distinct /\ Owned /\ OwnResult

\* The variables that OwnInv reads.
core == <<life, tid, next, promises, queue, stage, job, done, settledBy>>

\* Jobs are told apart by their thread and their number.
LEMMA JobEquality ==
  ASSUME NEW j \in Jobs, NEW k \in Jobs, j.by = k.by, j.id = k.id
  PROVE  j = k
<1> QED BY DEF Jobs

\* A job in a list is a job, of some thread.
LEMMA ListedJob ==
  ASSUME NEW q \in Seq(Jobs), NEW n \in 1 .. Len(q)
  PROVE  q[n] \in Jobs /\ q[n].by \in Threads
<1>1. q[n] \in Jobs
  OBVIOUS
<1> QED BY <1>1 DEF Jobs

LEMMA CoreUnchanged == OwnInv /\ UNCHANGED core => OwnInv'
<1> SUFFICES ASSUME OwnInv, UNCHANGED core PROVE OwnInv'
  OBVIOUS
<1>1. Typed' BY DEF OwnInv, Typed, core
<1>2. Named' /\ Distinct' BY DEF OwnInv, Named, Distinct, core
<1>3. Owned' BY DEF OwnInv, Owned, core
<1>4. OwnResult' BY DEF OwnInv, OwnResult, Namesake, core
<1> QED BY <1>1, <1>2, <1>3, <1>4 DEF OwnInv

\* A namesake stays one: an ended thread stays ended, and a given id is kept.
LEMMA OwnResultKept ==
  ASSUME OwnInv, settledBy' = settledBy,
         \A u \in Threads : life[u] = "ended" => life'[u] = "ended",
         \A u \in Threads : tid[u] \in Ids => tid'[u] = tid[u]
  PROVE  OwnResult'
<1> SUFFICES ASSUME NEW j \in Jobs, settledBy[j] \notin {None, j}
             PROVE  Namesake(settledBy[j], j)'
  BY DEF OwnResult
<1>1. Namesake(settledBy[j], j) /\ settledBy[j] \in Jobs
  BY DEF OwnInv, OwnResult, Typed
<1>2. settledBy[j].by \in Threads /\ j.by \in Threads
  BY <1>1 DEF Jobs
<1>3. tid[settledBy[j].by] \in Ids /\ tid[j.by] \in Ids
  BY <1>1, <1>2 DEF OwnInv, Named, Namesake
<1> QED BY <1>1, <1>2, <1>3 DEF Namesake

LEMMA InitOwnInv == FsInit => OwnInv
<1> SUFFICES ASSUME FsInit PROVE OwnInv
  OBVIOUS
<1> USE DEF FsInit
<1>1. (CHOOSE i \in Ids : TRUE) \in Ids
  BY BoundsAssumption
<1>2. Typed
  BY <1>1, NoneAssumption DEF Typed
<1>3. Named /\ Distinct
  BY <1>1, NoneAssumption DEF Named, Distinct
<1>4. Owned
  BY NoneAssumption DEF Owned
<1>5. OwnResult
  BY DEF OwnResult
<1> QED BY <1>2, <1>3, <1>4, <1>5 DEF OwnInv

LEMMA StartOwnInv ==
  ASSUME OwnInv, NEW t \in Threads, Start(t)
  PROVE  OwnInv'
<1> USE DEF OwnInv, Start, callerVars, poolVars
<1>1. PICK i \in Ids : /\ \A u \in Running : tid[u] # i
                       /\ tid' = [tid EXCEPT ![t] = i]
  OBVIOUS
<1>2. tid[t] \notin Ids
  BY DEF Named
<1>3. Typed'
  BY <1>1 DEF Typed
<1>4. Named'
  BY <1>1 DEF Named, Typed
<1>5. Distinct'
  BY <1>1 DEF Distinct, Named, Typed, Running
<1>6. \A u \in Threads : tid[u] \in Ids => tid'[u] = tid[u]
  BY <1>1, <1>2 DEF Typed
<1>7. Owned'
  <2>1. \A n \in 1 .. Len(queue) : queue[n].by \in Threads
    BY ListedJob DEF Typed
  <2>2. \A w \in Workers : job[w] \in Jobs => job[w].by \in Threads
    BY DEF Jobs
  <2>3. \A k \in Ids : \A n \in 1 .. Len(done[k]) : done[k][n].by \in Threads
    <3> TAKE k \in Ids
    <3>1. done[k] \in Seq(Jobs)
      BY DEF Typed
    <3> QED BY <3>1, ListedJob
  <2> QED BY <1>6, <2>1, <2>2, <2>3 DEF Owned
<1>8. OwnResult'
  <2>1. settledBy' = settledBy /\ \A u \in Threads : life[u] = "ended" => life'[u] = "ended"
    BY DEF Typed
  <2> QED BY ONLY <1>6, <2>1, OwnInv, OwnResultKept
<1> QED BY <1>3, <1>4, <1>5, <1>7, <1>8

LEMMA SubmitOwnInv ==
  ASSUME OwnInv, NEW t \in Threads, NEW op, Submit(t, op)
  PROVE  OwnInv'
<1> DEFINE j == [by |-> t, id |-> next[t]]
<1> USE DEF OwnInv, Submit
<1>1. j \in Jobs /\ j.by = t /\ tid[t] \in Ids
  BY DEF Jobs, JsRuns, Running, Named
<1>2. queue' = Append(queue, j)
  OBVIOUS
<1>3. Typed'
  <2>1. queue' \in Seq(Jobs)
    BY <1>1, <1>2 DEF Typed
  <2>2. promises' \in [Threads -> SUBSET JobIds] /\ next' \in [Threads -> Nat]
    BY DEF Typed, JobIds
  <2> QED BY <2>1, <2>2 DEF Typed
<1>4. Named' /\ Distinct'
  BY DEF Named, Distinct
<1>5. Owned'
  <2> HIDE DEF j
  <2>1. \A n \in 1 .. Len(queue') : (n \in 1 .. Len(queue) /\ queue'[n] = queue[n]) \/ queue'[n] = j
    <3>1. queue \in Seq(Jobs)
      BY DEF Typed
    <3> QED BY <1>1, <1>2, <3>1
  <2> QED BY <1>1, <2>1 DEF Owned
<1>6. OwnResult'
  BY DEF OwnResult, Namesake
<1> QED BY <1>3, <1>4, <1>5, <1>6

LEMMA TickOwnInv ==
  ASSUME OwnInv, NEW t \in Threads, Tick(t)
  PROVE  OwnInv'
<1> DEFINE take == done[tid[t]]
           settled == {i \in promises[t] : \E n \in 1 .. Len(take) : take[n].id = i}
<1> USE DEF OwnInv
<1>1. tid[t] \in Ids
  BY DEF Tick, JsRuns, Running, Named
<1>2. take \in Seq(Jobs)
  BY <1>1 DEF Typed
<1>3. \A n \in 1 .. Len(take) :
          take[n] \in Jobs /\ (take[n].by = t \/ (/\ take[n].by # t
                                                 /\ life[take[n].by] = "ended"
                                                 /\ tid[take[n].by] = tid[t]))
  <2> TAKE n \in 1 .. Len(take)
  <2>1. take[n] \in Jobs
    BY <1>2
  <2>2. take[n].by \in Threads
    BY <2>1 DEF Jobs
  <2>3. tid[take[n].by] = tid[t]
    BY <1>1 DEF Owned
  <2>4. life[t] = "running"
    BY DEF Tick, JsRuns, Running
  <2>5. take[n].by = t \/ life[take[n].by] \in {"new", "ended"}
    BY <2>2, <2>3, <2>4 DEF Distinct
  <2>6. life[take[n].by] # "new"
    BY <1>1, <2>2, <2>3 DEF Named
  <2> QED BY <2>1, <2>3, <2>5, <2>6
<1>4. PICK first \in [settled -> 1 .. Len(take)] :
         /\ \A i \in settled : take[first[i]].id = i
         /\ settledBy' = [j \in Jobs |-> IF j.by = t /\ j.id \in settled
                                         THEN take[first[j.id]] ELSE settledBy[j]]
  BY ZenonT(60) DEF Tick
<1>5. \A j \in Jobs : j.by = t /\ j.id \in settled =>
          LET k == take[first[j.id]]
          IN  k \in Jobs /\ (k = j \/ Namesake(k, j))
  <2> SUFFICES ASSUME NEW j \in Jobs, j.by = t, j.id \in settled
               PROVE  LET k == take[first[j.id]]
                      IN  k \in Jobs /\ (k = j \/ Namesake(k, j))
    OBVIOUS
  <2>1. first[j.id] \in 1 .. Len(take) /\ take[first[j.id]].id = j.id
    BY <1>4
  <2>2. PICK k \in Jobs : /\ k = take[first[j.id]] /\ k.id = j.id
                          /\ \/ k.by = t
                             \/ k.by # t /\ life[k.by] = "ended" /\ tid[k.by] = tid[t]
    BY <2>1, <1>3
  <2>3. CASE k.by = t
    BY <2>2, <2>3, JobEquality
  <2>4. CASE k.by # t
    BY <2>2, <2>4 DEF Namesake
  <2> QED BY <2>2, <2>3, <2>4
<1>6. \A j \in Jobs : \/ settledBy'[j] = settledBy[j]
                      \/ settledBy'[j] \in Jobs /\ (settledBy'[j] = j \/ Namesake(settledBy'[j], j))
  BY <1>4, <1>5
<1>7. promises' = [promises EXCEPT ![t] = @ \ settled]
  BY DEF Tick
<1>8. done' = [done EXCEPT ![tid[t]] = <<>>]
  BY DEF Tick, Taken
<1>9. UNCHANGED <<life, tid, next, queue, stage, job>>
  BY DEF Tick
<1> HIDE DEF take, settled
<1>10. settledBy' \in [Jobs -> Jobs \union {None}]
  <2>1. \A j \in Jobs : settledBy'[j] \in Jobs \union {None}
    BY <1>6 DEF Typed
  <2>2. settledBy' = [j \in Jobs |-> settledBy'[j]]
    BY <1>4
  <2> QED BY <2>1, <2>2
<1>11. Typed'
  <2>1. promises' \in [Threads -> SUBSET JobIds]
    BY <1>7 DEF Typed
  <2>2. done' \in [Ids -> Seq(Jobs)]
    <3>1. <<>> \in Seq(Jobs) /\ done \in [Ids -> Seq(Jobs)]
      BY DEF Typed
    <3> QED BY <1>8, <3>1
  <2> QED BY <1>9, <1>10, <2>1, <2>2 DEF Typed
<1>12. Named' /\ Distinct'
  BY <1>9 DEF Named, Distinct
<1>13. Owned'
  BY <1>8, <1>9 DEF Owned, Typed
<1>14. OwnResult'
  <2> SUFFICES ASSUME NEW j \in Jobs
               PROVE  (settledBy[j] \in {None, j} \/ Namesake(settledBy[j], j))'
    BY DEF OwnResult
  <2>1. settledBy[j] \in {None, j} \/ Namesake(settledBy[j], j)
    BY DEF OwnResult
  <2>2. settledBy'[j] \in {None, j} \/ Namesake(settledBy'[j], j)
    BY <1>6, <2>1
  <2>3. life' = life /\ tid' = tid
    BY <1>9
  <2> QED BY <2>2, <2>3 DEF Namesake
<1> QED BY <1>11, <1>12, <1>13, <1>14

LEMMA PoolOwnInv ==
  ASSUME OwnInv, NEW w \in Workers, Pool(w)
  PROVE  OwnInv'
<1> USE DEF OwnInv, callerVars, poolVars
<1>1. CASE Look(w)
  <2>1. CASE queue = <<>>
    <3>1. UNCHANGED <<life, tid, next, promises, queue, job, done, settledBy>>
          /\ stage' = [stage EXCEPT ![w] = "sleeps"] /\ stage[w] = "looks"
      BY <1>1, <2>1 DEF Look
    <3>2. Typed'
      BY <3>1 DEF Typed
    <3> QED BY <3>1, <3>2 DEF Named, Distinct, Owned, OwnResult, Namesake
  <2>2. CASE queue # <<>>
    <3>1. /\ UNCHANGED <<life, tid, next, promises, done, settledBy>>
          /\ stage' = [stage EXCEPT ![w] = "works"]
          /\ job' = [job EXCEPT ![w] = Head(queue)]
          /\ queue' = Tail(queue)
      BY <1>1, <2>2 DEF Look
    <3>2. Head(queue) \in Jobs /\ tid[Head(queue).by] \in Ids
      <4>1. queue \in Seq(Jobs) /\ 1 \in 1 .. Len(queue) /\ Head(queue) = queue[1]
        BY <2>2 DEF Typed
      <4> QED BY <4>1, ListedJob DEF Owned
    <3>3. Tail(queue) \in Seq(Jobs)
          /\ \A n \in 1 .. Len(Tail(queue)) : n + 1 \in 1 .. Len(queue)
                                              /\ Tail(queue)[n] = queue[n + 1]
      BY <2>2 DEF Typed
    <3>4. Typed'
      BY <3>1, <3>2, <3>3 DEF Typed
    <3>5. Owned'
      BY <3>1, <3>2, <3>3 DEF Owned, Typed
    <3> QED BY <3>1, <3>4, <3>5 DEF Named, Distinct, OwnResult, Namesake
  <2> QED BY <2>1, <2>2
<1>2. CASE Work(w)
  <2>1. /\ UNCHANGED <<life, tid, next, promises, queue, job, done, settledBy>>
        /\ stage[w] = "works" /\ stage' = [stage EXCEPT ![w] = "reports"]
    BY <1>2 DEF Work
  <2>2. Typed'
    BY <2>1 DEF Typed
  <2> QED BY <2>1, <2>2 DEF Named, Distinct, Owned, OwnResult, Namesake
<1>3. CASE Report(w)
  <2> DEFINE i == tid[job[w].by]
  <2>1. /\ UNCHANGED <<life, tid, next, promises, queue, settledBy>>
        /\ stage[w] = "reports" /\ stage' = [stage EXCEPT ![w] = "looks"]
        /\ job' = [job EXCEPT ![w] = None]
        /\ done' = [done EXCEPT ![i] = Append(@, job[w])]
    BY <1>3 DEF Report, Reports
  <2>2. job[w] \in Jobs /\ i \in Ids
    BY <2>1 DEF Typed, Owned
  <2>3. Typed'
    BY <2>1, <2>2, NoneAssumption DEF Typed
  <2>4. \A k \in Ids : \A n \in 1 .. Len(done'[k]) :
           \/ n \in 1 .. Len(done[k]) /\ done'[k][n] = done[k][n]
           \/ k = i /\ done'[k][n] = job[w]
    BY <2>1, <2>2 DEF Typed
  <2>5. Owned'
    <3>1. \A k \in Ids : \A n \in 1 .. Len(done'[k]) : tid[done'[k][n].by] = k
      BY <2>4 DEF Owned
    <3>2. \A v \in Workers : job'[v] \in Jobs => tid[job'[v].by] \in Ids
      BY <2>1, NoneAssumption DEF Owned, Typed
    <3> QED BY <2>1, <3>1, <3>2 DEF Owned
  <2> QED BY <2>1, <2>3, <2>5 DEF Named, Distinct, OwnResult, Namesake
<1> QED BY <1>1, <1>2, <1>3 DEF Pool

LEMMA NextOwnInv ==
  ASSUME OwnInv, [FsNext]_fsVars
  PROVE  OwnInv'
<1>1. ASSUME NEW t \in Threads, Js(t)
      PROVE  OwnInv'
  <2>1. CASE Start(t)
    BY <2>1, StartOwnInv
  <2>2. CASE Finish(t)
    <3>1. Typed'
      BY <2>2 DEF Finish, OwnInv, Typed, poolVars
    <3>2. Named' /\ Distinct'
      BY <2>2 DEF Finish, OwnInv, Named, Distinct, Typed, JsRuns, Running, poolVars
    <3>3. Owned'
      BY <2>2 DEF Finish, OwnInv, Owned, poolVars
    <3>4. settledBy' = settledBy /\ \A u \in Threads : life[u] = "ended" => life'[u] = "ended"
      BY <2>2 DEF Finish, OwnInv, Typed
    <3>5. \A u \in Threads : tid[u] \in Ids => tid'[u] = tid[u]
      BY <2>2 DEF Finish
    <3>6. OwnResult'
      BY ONLY <3>4, <3>5, OwnInv, OwnResultKept
    <3> QED BY <3>1, <3>2, <3>3, <3>6 DEF OwnInv
  <2>3. CASE WriteSync(t) \/ CloseSync(t)
    BY <2>3, CoreUnchanged DEF WriteSync, CloseSync, core, callerVars, poolVars
  <2>4. CASE SubmitPath(t) \/ SubmitSync(t)
    BY <2>4, SubmitOwnInv DEF SubmitPath, SubmitSync
  <2>5. CASE NotifyWorker(t)
    <3>1. UNCHANGED <<life, tid, next, promises, queue, job, done, settledBy>>
      BY <2>5 DEF NotifyWorker
    <3>2. stage' = stage \/ \E w \in Workers : /\ stage[w] = "sleeps"
                                              /\ stage' = [stage EXCEPT ![w] = "looks"]
      BY <2>5 DEF NotifyWorker
    <3>3. Typed'
      BY <3>1, <3>2 DEF OwnInv, Typed
    <3> QED BY <3>1, <3>3 DEF OwnInv, Named, Distinct, Owned, OwnResult, Namesake
  <2>6. CASE Tick(t)
    BY <2>6, TickOwnInv
  <2> QED BY <1>1, <2>1, <2>2, <2>3, <2>4, <2>5, <2>6 DEF Js
<1>2. ASSUME NEW w \in Workers, Pool(w)
      PROVE  OwnInv'
  BY <1>2, PoolOwnInv
<1>3. CASE UNCHANGED fsVars
  BY <1>3, CoreUnchanged DEF fsVars, core, callerVars, poolVars
<1> QED BY <1>1, <1>2, <1>3 DEF FsNext

\* Whatever ids the threads get, a promise is settled by the result of its own call,
\* or else by one that an ended thread of the same id left behind under the same
\* number: never by a call of another running thread, nor by another of its own.
THEOREM ResultsReachTheirCalls == FsSpec => []OwnResult
<1>1. OwnInv /\ [FsNext]_fsVars => OwnInv'
  BY NextOwnInv
<1>2. OwnInv => OwnResult
  BY DEF OwnInv
<1> QED BY <1>1, <1>2, InitOwnInv, PTL DEF FsSpec

-------------------------------------------------------------------------------
(* What an fsync that resolves has done. *)

Files == [open : BOOLEAN, named : BOOLEAN, lost : BOOLEAN,
          written : Nat, inOs : Nat, onDisk : Nat]

\* The disk is behind the OS, which is behind the program.
Sound(f) == f \in Files /\ f.onDisk <= f.inOs /\ f.inOs <= f.written

\* What a file becomes: bytes move on only, a loss and a missing name stay.
Grows(f, g) == /\ Sound(g)
               /\ f.inOs <= g.inOs /\ f.onDisk <= g.onDisk
               /\ f.lost => g.lost
               /\ g.named => f.named

Calls == [op : Ops, due : Nat]

\* A job that was submitted.
Known(j) == j.id < next[j.by]

JobsTyped == /\ next \in [Threads -> Nat]
             /\ queue \in Seq(Jobs)
             /\ stage \in [Workers -> {"looks", "sleeps", "works", "reports"}]
             /\ job \in [Workers -> Jobs \union {None}]
             /\ \A w \in Workers : stage[w] \in {"works", "reports"} => job[w] \in Jobs
             /\ call \in [Jobs -> Calls]
             /\ synced \in [Jobs -> BOOLEAN]

AllKnown == /\ \A n \in 1 .. Len(queue) : Known(queue[n])
            /\ \A w \in Workers : job[w] \in Jobs => Known(job[w])
            /\ \A j \in Jobs : synced[j] => Known(j)

\* The flush of fsync has put what is due with the OS, the pool's fsync on the disk.
Due(j) == ~file.lost =>
            /\ call[j].op = "sync" => call[j].due <= file.inOs
            /\ synced[j] => call[j].due <= file.inOs
            /\ synced[j] /\ file.named => call[j].due <= file.onDisk

DurableInv == JobsTyped /\ AllKnown /\ Sound(file) /\ \A j \in Jobs : Due(j)

LEMMA FlushGrows ==
  ASSUME NEW f, Sound(f), NEW g \in Flushes(f)
  PROVE  Grows(f, g) /\ (~g.lost => g.inOs = f.written) /\ g.written = f.written
<1>1. CASE g = [f EXCEPT !.inOs = f.written]
  BY <1>1 DEF Sound, Grows, Files
<1>2. CASE g = [f EXCEPT !.lost = TRUE]
  <2>1. g \in Files
    BY <1>2 DEF Sound, Files
  <2>2. g.lost
    BY <1>2 DEF Sound, Files
  <2>3. /\ g.inOs = f.inOs /\ g.onDisk = f.onDisk /\ g.written = f.written
        /\ g.named = f.named
    BY <1>2 DEF Sound, Files
  <2>4. f.inOs \in Nat /\ f.onDisk \in Nat
    BY DEF Sound, Files
  <2>5. Sound(g) /\ f.inOs <= g.inOs /\ f.onDisk <= g.onDisk
    BY <2>1, <2>3, <2>4 DEF Sound
  <2> QED BY <2>2, <2>3, <2>5 DEF Grows
<1> QED BY <1>1, <1>2 DEF Flushes

LEMMA CloseGrows ==
  ASSUME NEW f, NEW g, Grows(f, g)
  PROVE  Grows(f, [g EXCEPT !.open = FALSE])
<1> QED BY DEF Grows, Sound, Files

LEMMA SelfGrows ==
  ASSUME NEW f, Sound(f)
  PROVE  Grows(f, f)
<1> QED BY DEF Sound, Grows, Files

LEMMA EffectGrows ==
  ASSUME NEW f, Sound(f), NEW op \in Ops, NEW e \in Effects(op, f)
  PROVE  /\ Grows(f, e[1])
         /\ e[2] \in BOOLEAN
         /\ e[2] => op = "sync" /\ (e[1].named => f.inOs <= e[1].onDisk)
<1>1. CASE op = "path"
  <2>1. e = <<f, FALSE>> \/ e = <<[f EXCEPT !.named = FALSE], FALSE>>
    BY <1>1 DEF Effects
  <2>2. CASE e = <<f, FALSE>>
    BY <1>1, <2>2, SelfGrows
  <2>3. CASE e = <<[f EXCEPT !.named = FALSE], FALSE>>
    <3>1. PICK g : g = [f EXCEPT !.named = FALSE]
      OBVIOUS
    <3>2. g \in Files
      BY <3>1 DEF Sound, Files
    <3>3. ~g.named
      BY <3>1 DEF Sound, Files
    <3>4. /\ g.inOs = f.inOs /\ g.onDisk = f.onDisk /\ g.written = f.written
          /\ g.lost = f.lost
      BY <3>1 DEF Sound, Files
    <3>5. f.inOs \in Nat /\ f.onDisk \in Nat
      BY DEF Sound, Files
    <3>6. Sound(g) /\ f.inOs <= g.inOs /\ f.onDisk <= g.onDisk
      BY <3>2, <3>4, <3>5 DEF Sound
    <3>7. Grows(f, g)
      BY <3>3, <3>4, <3>6 DEF Grows
    <3>8. e[1] = g /\ e[2] = FALSE
      BY <2>3, <3>1
    <3> QED BY <3>7, <3>8
  <2> QED BY <2>1, <2>2, <2>3
<1>2. CASE op = "bad"
  <2>1. e = <<f, FALSE>>
    BY <1>2 DEF Effects
  <2> QED BY <2>1 DEF Grows, Sound, Files
<1>3. CASE op = "sync"
  <2>1. CASE f.named
    <3>1. e = <<[f EXCEPT !.onDisk = f.inOs], TRUE>> \/ e = <<f, FALSE>>
      BY <1>3, <2>1 DEF Effects
    <3>2. CASE e = <<f, FALSE>>
      BY <1>3, <3>2, SelfGrows
    <3>3. CASE e = <<[f EXCEPT !.onDisk = f.inOs], TRUE>>
      <4>1. PICK g : g = [f EXCEPT !.onDisk = f.inOs]
        OBVIOUS
      <4>2. g \in Files
        BY <4>1 DEF Sound, Files
      <4>3. /\ g.inOs = f.inOs /\ g.onDisk = f.inOs /\ g.written = f.written
            /\ g.lost = f.lost /\ g.named = f.named
        BY <4>1 DEF Sound, Files
      <4>4. f.inOs \in Nat /\ f.onDisk \in Nat /\ f.onDisk <= f.inOs /\ f.inOs <= f.written
        BY DEF Sound, Files
      <4>5. Grows(f, g)
        BY <4>2, <4>3, <4>4 DEF Grows, Sound
      <4>6. e[1] = g /\ e[2] = TRUE
        BY <3>3, <4>1
      <4>7. f.inOs <= g.onDisk
        BY <4>3, <4>4
      <4> QED BY <1>3, <4>5, <4>6, <4>7
    <3> QED BY <3>1, <3>2, <3>3
  <2>2. CASE ~f.named
    <3>1. e = <<f, TRUE>>
      BY <1>3, <2>2 DEF Effects
    <3> QED BY <1>3, <2>2, <3>1 DEF Grows, Sound, Files
  <2> QED BY <2>1, <2>2
<1>4. CASE op = "truncate"
  <2>1. PICK g \in (IF f.open THEN Flushes(f) ELSE {f}) : e = <<g, FALSE>>
    BY <1>4 DEF Effects
  <2>2. Grows(f, f)
    BY DEF Grows, Sound, Files
  <2>3. Grows(f, g)
    BY <2>1, <2>2, FlushGrows
  <2> QED BY <2>1, <2>3
<1> QED BY <1>1, <1>2, <1>3, <1>4 DEF Ops

\* A job whose call and whose fsync do not change, while the file grows.
LEMMA DueFrame ==
  ASSUME NEW j \in Jobs, JobsTyped, Sound(file), Due(j), Grows(file, file'),
         call'[j] = call[j], synced'[j] = synced[j]
  PROVE  Due(j)'
<1>1. call[j].due \in Nat
  BY DEF JobsTyped, Calls
<1> QED BY <1>1 DEF Due, Grows, Sound, Files

LEMMA KnownFrame ==
  ASSUME AllKnown, UNCHANGED <<next, queue, job, synced>>
  PROVE  AllKnown'
<1> QED BY DEF AllKnown, Known

\* A step that leaves the calls alone.
LEMMA DurableFrame ==
  ASSUME DurableInv, Grows(file, file'), JobsTyped', AllKnown', UNCHANGED <<call, synced>>
  PROVE  DurableInv'
<1>1. \A j \in Jobs : Due(j)'
  BY DueFrame DEF DurableInv
<1> QED BY <1>1 DEF DurableInv, Grows

LEMMA SameFileGrows == Sound(file) /\ UNCHANGED file => Grows(file, file')
<1> QED BY DEF Sound, Grows, Files

LEMMA InitDurable == FsInit => DurableInv
<1> SUFFICES ASSUME FsInit PROVE DurableInv
  OBVIOUS
<1> USE DEF FsInit
<1>1. JobsTyped
  <2>1. call \in [Jobs -> Calls]
    BY DEF Calls, NoCall, Ops
  <2>2. synced \in [Jobs -> BOOLEAN]
    OBVIOUS
  <2> QED BY <2>1, <2>2 DEF JobsTyped
<1>2. AllKnown
  BY NoneAssumption DEF AllKnown
<1>3. Sound(file)
  BY DEF Sound, Files
<1>4. ASSUME NEW j \in Jobs PROVE Due(j)
  BY DEF Due, NoCall
<1> QED BY <1>1, <1>2, <1>3, <1>4 DEF DurableInv

\* The flush comes before the job: what is due is with the OS, or lost.
LEMMA SubmitDurable ==
  ASSUME DurableInv, NEW t \in Threads, SubmitPath(t) \/ SubmitSync(t)
  PROVE  DurableInv'
<1>0. PICK j : j = [by |-> t, id |-> next[t]]
  OBVIOUS
<1> USE DEF DurableInv
<1>1. PICK op \in Ops : /\ Submit(t, op)
                        /\ op # "sync" => UNCHANGED file
                        /\ op = "sync" => file' \in Flushes(file)
  BY DEF SubmitPath, SubmitSync, Ops
<1>2. j \in Jobs /\ j.by = t /\ j.id = next[t] /\ next[t] \in Nat
  BY <1>0, <1>1, BoundsAssumption DEF Submit, Jobs, JobIds
<1>3. /\ queue' = Append(queue, j)
      /\ call' = [call EXCEPT ![j] = [op |-> op, due |-> IF op = "sync" THEN file.written ELSE 0]]
      /\ next' = [next EXCEPT ![t] = next[t] + 1]
      /\ UNCHANGED <<stage, job, synced>>
  BY <1>0, <1>1 DEF Submit
<1>4. ~synced[j] /\ ~Known(j)
  BY <1>2 DEF AllKnown, Known
<1>5. Grows(file, file')
  BY <1>1, FlushGrows, SameFileGrows
<1>6. JobsTyped'
  <2>1. [op |-> op, due |-> IF op = "sync" THEN file.written ELSE 0] \in Calls
    BY DEF Calls, Sound, Files
  <2>2. call' \in [Jobs -> Calls]
    BY <1>2, <1>3, <2>1 DEF JobsTyped
  <2>3. queue' \in Seq(Jobs) /\ next' \in [Threads -> Nat]
    BY <1>2, <1>3 DEF JobsTyped
  <2> QED BY <1>3, <2>2, <2>3 DEF JobsTyped
<1>7. AllKnown'
  <2>1. ASSUME NEW k \in Jobs, Known(k) PROVE k.id < next'[k.by]
    <3>1. k.id \in Nat /\ k.by \in Threads
      BY BoundsAssumption DEF Jobs, JobIds
    <3>2. next[k.by] \in Nat
      BY <3>1 DEF JobsTyped
    <3>3. next'[k.by] = next[k.by] \/ next'[k.by] = next[k.by] + 1
      BY <1>3, <3>1 DEF JobsTyped
    <3> QED BY <2>1, <3>1, <3>2, <3>3 DEF Known
  <2>2. j.id < next'[j.by]
    <3>1. next'[t] = next[t] + 1
      BY <1>3 DEF JobsTyped
    <3> QED BY <1>2, <3>1
  <2>3. \A n \in 1 .. Len(queue') : (n \in 1 .. Len(queue) /\ queue'[n] = queue[n]) \/ queue'[n] = j
    BY <1>2, <1>3 DEF JobsTyped
  <2>4. \A n \in 1 .. Len(queue) : queue[n] \in Jobs
    BY DEF JobsTyped
  <2>5. ASSUME NEW n \in 1 .. Len(queue') PROVE queue'[n].id < next'[queue'[n].by]
    BY <2>1, <2>2, <2>3, <2>4, <2>5 DEF AllKnown
  <2>6. \A w \in Workers : job'[w] \in Jobs => job'[w].id < next'[job'[w].by]
    BY <1>3, <2>1 DEF AllKnown
  <2>7. \A k \in Jobs : synced'[k] => k.id < next'[k.by]
    BY <1>3, <2>1 DEF AllKnown
  <2> QED BY <2>5, <2>6, <2>7 DEF AllKnown, Known
<1>8. ASSUME NEW k \in Jobs PROVE Due(k)'
  <2>1. CASE k # j
    BY <1>2, <1>3, <1>5, <2>1, DueFrame DEF JobsTyped
  <2>2. CASE k = j
    <3>1. call'[j].op = op /\ call'[j].due = IF op = "sync" THEN file.written ELSE 0
      BY <1>2, <1>3 DEF JobsTyped
    <3>2. ~synced'[j]
      BY <1>3, <1>4
    <3>3. op = "sync" /\ ~file'.lost => file'.inOs = file.written
      BY <1>1, FlushGrows
    <3>4. file.written <= file.written
      BY DEF Sound, Files
    <3> QED BY <2>2, <3>1, <3>2, <3>3, <3>4 DEF Due
  <2> QED BY <2>1, <2>2
<1>9. Sound(file)'
  BY <1>5 DEF Grows
<1> QED BY <1>6, <1>7, <1>8, <1>9

\* What is settled is no longer synced, and forgotten if by its own result.
LEMMA TickDurable ==
  ASSUME DurableInv, NEW t \in Threads, Tick(t)
  PROVE  DurableInv'
<1> USE DEF DurableInv
<1>1. /\ UNCHANGED <<next, queue, stage, job, file>>
      /\ call' = [j \in Jobs |-> IF settledBy'[j] = j THEN NoCall ELSE call[j]]
  BY DEF Tick
<1>2. PICK settled :
         synced' = [j \in Jobs |-> synced[j] /\ ~(j.by = t /\ j.id \in settled)]
  BY ZenonT(60) DEF Tick
<1>3. ASSUME NEW j \in Jobs
      PROVE  call'[j] \in {NoCall, call[j]} /\ (synced'[j] => synced[j])
  BY <1>1, <1>2 DEF JobsTyped
<1>4. JobsTyped'
  <2>1. NoCall \in Calls
    BY DEF NoCall, Calls, Ops
  <2>2. call' \in [Jobs -> Calls]
    BY <1>1, <2>1 DEF JobsTyped
  <2>3. synced' \in [Jobs -> BOOLEAN]
    BY <1>2 DEF JobsTyped
  <2> QED BY <1>1, <2>2, <2>3 DEF JobsTyped
<1>5. AllKnown'
  BY <1>1, <1>3 DEF AllKnown, Known
<1>6. Grows(file, file')
  BY <1>1, SameFileGrows
<1>7. ASSUME NEW j \in Jobs PROVE Due(j)'
  <2>1. CASE call'[j] = NoCall
    <3>1. file.inOs \in Nat /\ file.onDisk \in Nat
      BY DEF Sound, Files
    <3> QED BY <1>1, <2>1, <3>1 DEF Due, NoCall
  <2>2. CASE call'[j] = call[j]
    <3>1. Due(j) /\ (synced'[j] => synced[j]) /\ file' = file
      BY <1>1, <1>3
    <3> QED BY <2>2, <3>1 DEF Due
  <2> QED BY <1>3, <2>1, <2>2
<1>8. Sound(file)'
  BY <1>1
<1> QED BY <1>4, <1>5, <1>7, <1>8

\* The pool's thread syncs what is with the OS.
LEMMA PoolDurable ==
  ASSUME DurableInv, NEW w \in Workers, Pool(w)
  PROVE  DurableInv'
<1> USE DEF DurableInv, callerVars
<1>1. CASE Look(w)
  <2>1. CASE queue = <<>>
    <3>1. UNCHANGED <<next, queue, job, call, synced, file>>
          /\ stage' = [stage EXCEPT ![w] = "sleeps"]
      BY <1>1, <2>1 DEF Look
    <3>2. JobsTyped'
      BY <3>1 DEF JobsTyped
    <3> QED BY <3>1, <3>2, KnownFrame, SameFileGrows, DurableFrame
  <2>2. CASE queue # <<>>
    <3>1. /\ UNCHANGED <<next, call, synced, file>>
          /\ stage' = [stage EXCEPT ![w] = "works"]
          /\ job' = [job EXCEPT ![w] = Head(queue)]
          /\ queue' = Tail(queue)
      BY <1>1, <2>2 DEF Look
    <3>2. Head(queue) \in Jobs /\ Known(Head(queue))
      BY <2>2 DEF AllKnown, JobsTyped
    <3>3. Tail(queue) \in Seq(Jobs)
          /\ \A n \in 1 .. Len(Tail(queue)) : n + 1 \in 1 .. Len(queue)
                                              /\ Tail(queue)[n] = queue[n + 1]
      BY <2>2 DEF JobsTyped
    <3>4. JobsTyped'
      BY <3>1, <3>2, <3>3 DEF JobsTyped
    <3>5. AllKnown'
      <4>1. \A k : Known(k)' <=> Known(k)
        BY <3>1 DEF Known
      <4> QED BY <3>1, <3>2, <3>3, <4>1 DEF AllKnown, JobsTyped
    <3> QED BY <3>1, <3>4, <3>5, SameFileGrows, DurableFrame
  <2> QED BY <2>1, <2>2
<1>2. CASE Work(w)
  <2>1. /\ stage[w] = "works" /\ stage' = [stage EXCEPT ![w] = "reports"]
        /\ UNCHANGED <<next, queue, job, call>>
        /\ \E e \in Effects(call[job[w]].op, file) :
              file' = e[1] /\ synced' = [synced EXCEPT ![job[w]] = e[2]]
    BY <1>2 DEF Work
  <2>2. PICK j \in Jobs : j = job[w] /\ Known(j) /\ call[j].op \in Ops
    BY <2>1 DEF AllKnown, JobsTyped, Calls
  <2>3. PICK e \in Effects(call[j].op, file) :
           file' = e[1] /\ synced' = [synced EXCEPT ![j] = e[2]]
    BY <2>1, <2>2
  <2>4. /\ Grows(file, file')
        /\ e[2] \in BOOLEAN
        /\ e[2] => call[j].op = "sync" /\ (file'.named => file.inOs <= file'.onDisk)
    BY <2>2, <2>3, EffectGrows
  <2>5. synced'[j] = e[2] /\ \A k \in Jobs \ {j} : synced'[k] = synced[k]
    BY <2>3 DEF JobsTyped
  <2>6. JobsTyped'
    <3>1. synced' \in [Jobs -> BOOLEAN]
      BY <2>3, <2>4 DEF JobsTyped
    <3> QED BY <2>1, <3>1 DEF JobsTyped
  <2>7. AllKnown'
    <3>1. \A k : Known(k)' <=> Known(k)
      BY <2>1 DEF Known
    <3> QED BY <2>1, <2>2, <2>5, <3>1 DEF AllKnown
  <2>8. ASSUME NEW k \in Jobs PROVE Due(k)'
    <3>1. CASE k # j
      BY <2>1, <2>4, <2>5, <3>1, DueFrame
    <3>2. CASE k = j
      <4>1. call'[j] = call[j] /\ call[j].due \in Nat
        BY <2>1 DEF JobsTyped, Calls
      <4>2. ~file'.lost /\ call[j].op = "sync" =>
               call[j].due <= file.inOs /\ call[j].due <= file'.inOs
        <5>1. file.inOs \in Nat /\ file'.inOs \in Nat /\ file.inOs <= file'.inOs
          BY <2>4 DEF Grows, Sound, Files
        <5> QED BY <2>4, <4>1, <5>1 DEF Due, Grows
      <4>3. ~file'.lost /\ synced'[j] /\ file'.named => call[j].due <= file'.onDisk
        <5>1. file.inOs \in Nat /\ file'.onDisk \in Nat
          BY <2>4 DEF Grows, Sound, Files
        <5> QED BY <2>4, <2>5, <4>1, <4>2, <5>1
      <4> QED BY <2>4, <2>5, <3>2, <4>1, <4>2, <4>3 DEF Due
    <3> QED BY <3>1, <3>2
  <2>9. Sound(file)'
    BY <2>4 DEF Grows
  <2> QED BY <2>6, <2>7, <2>8, <2>9
<1>3. CASE Report(w)
  <2>1. /\ UNCHANGED <<next, queue, call, synced, file>>
        /\ stage' = [stage EXCEPT ![w] = "looks"]
        /\ job' = [job EXCEPT ![w] = None]
    BY <1>3 DEF Report, Reports
  <2>2. JobsTyped'
    BY <2>1 DEF JobsTyped
  <2>3. AllKnown'
    <3>1. \A k : Known(k)' <=> Known(k)
      BY <2>1 DEF Known
    <3> QED BY <2>1, <3>1, NoneAssumption DEF AllKnown, JobsTyped
  <2> QED BY <2>1, <2>2, <2>3, SameFileGrows, DurableFrame
<1> QED BY <1>1, <1>2, <1>3 DEF Pool

LEMMA NextDurable == DurableInv /\ [FsNext]_fsVars => DurableInv'
<1> SUFFICES ASSUME DurableInv, [FsNext]_fsVars PROVE DurableInv'
  OBVIOUS
<1> USE DEF DurableInv, callerVars, poolVars
<1>1. ASSUME NEW t \in Threads, Js(t) PROVE DurableInv'
  <2>1. CASE Start(t) \/ Finish(t)
    <3>1. UNCHANGED <<next, queue, stage, job, call, synced, file>>
      BY <2>1 DEF Start, Finish
    <3>2. JobsTyped'
      BY <3>1 DEF JobsTyped
    <3> QED BY <3>1, <3>2, KnownFrame, SameFileGrows, DurableFrame
  <2>2. CASE WriteSync(t) \/ CloseSync(t)
    <3>1. UNCHANGED <<next, queue, stage, job, call, synced>>
      BY <2>2 DEF WriteSync, CloseSync
    <3>2. JobsTyped'
      BY <3>1 DEF JobsTyped
    <3>3. Grows(file, file')
      <4>1. CASE WriteSync(t)
        <5> DEFINE f == [file EXCEPT !.written = @ + 1]
        <5>1. Sound(f) /\ Grows(file, f)
          BY DEF Sound, Grows, Files
        <5>2. file' = f \/ file' \in Flushes(f)
          BY <4>1 DEF WriteSync
        <5>3. f.inOs = file.inOs /\ f.onDisk = file.onDisk /\ f.lost = file.lost
              /\ f.named = file.named
          BY DEF Sound, Files
        <5> HIDE DEF f
        <5> QED BY <5>1, <5>2, <5>3, FlushGrows DEF Grows
      <4>2. CASE CloseSync(t)
        <5>1. PICK f \in Flushes(file) : file' = [f EXCEPT !.open = FALSE]
          BY <4>2 DEF CloseSync
        <5> QED BY <5>1, FlushGrows, CloseGrows
      <4> QED BY <2>2, <4>1, <4>2
    <3> QED BY <3>1, <3>2, <3>3, KnownFrame, DurableFrame
  <2>3. CASE SubmitPath(t) \/ SubmitSync(t)
    BY <2>3, SubmitDurable
  <2>4. CASE NotifyWorker(t)
    <3>1. UNCHANGED <<next, queue, job, call, synced, file>>
      BY <2>4 DEF NotifyWorker
    <3>2. stage' = stage \/ \E w \in Workers : /\ stage[w] = "sleeps"
                                              /\ stage' = [stage EXCEPT ![w] = "looks"]
      BY <2>4 DEF NotifyWorker
    <3>3. JobsTyped'
      BY <3>1, <3>2 DEF JobsTyped
    <3> QED BY <3>1, <3>3, KnownFrame, SameFileGrows, DurableFrame
  <2>5. CASE Tick(t)
    BY <2>5, TickDurable
  <2> QED BY <1>1, <2>1, <2>2, <2>3, <2>4, <2>5 DEF Js
<1>2. ASSUME NEW w \in Workers, Pool(w) PROVE DurableInv'
  BY <1>2, PoolDurable
<1>3. CASE UNCHANGED fsVars
  <2>1. UNCHANGED <<next, queue, stage, job, call, synced, file>>
    BY <1>3 DEF fsVars
  <2>2. JobsTyped'
    BY <2>1 DEF JobsTyped
  <2> QED BY <2>1, <2>2, KnownFrame, SameFileGrows, DurableFrame
<1> QED BY <1>1, <1>2, <1>3 DEF FsNext

\* An fsync that resolves has put on the disk what was written before the call
\* (fsyncSync and the pool's job, fs_async.h:46-60), whatever other calls, closes and
\* renames run between its flush and its job: unless a flush failed, or the name is
\* gone, and then the bytes are with the OS.
THEOREM FsyncIsDurable == FsSpec => Durable
<1>1. DurableInv /\ [FsNext]_fsVars
        => [\A j \in Jobs :
              /\ synced[j] /\ settledBy[j] # j /\ settledBy'[j] = j
              /\ ~file.lost
              => /\ call[j].due <= file.inOs
                 /\ file.named => call[j].due <= file.onDisk]_fsVars
  BY DEF DurableInv, Due
<1> QED BY <1>1, InitDurable, NextDurable, PTL DEF FsSpec, Durable

-------------------------------------------------------------------------------
(* The pipes of a child. *)

(* TypeOK in three parts, by kind of value. *)

Counts == /\ written \in [Stream -> Nat]
          /\ kernel \in [Stream -> 0 .. PipeSize]
          /\ atExit \in [Stream -> Nat]
          /\ chunk \in [Stream -> 0 .. HighWater]
          /\ buf \in [Stream -> Nat]
          /\ delivered \in [Stream -> Nat]

Places == /\ child \in {"running", "zombie", "reaped"}
          /\ reader \in [Stream -> {"check", "poll", "lock", "full", "waiting", "read",
                                    "append", "end", "done"}]
          /\ js \in {"idle", "take out", "take err", "poll", "listen", "decide", "store",
                     "notify out", "notify err", "join", "closed"}

Flags == /\ grand \in BOOLEAN
         /\ eof \in [Stream -> BOOLEAN]
         /\ closing \in BOOLEAN
         /\ seenEof \in [Stream -> BOOLEAN]
         /\ gotData \in BOOLEAN
         /\ exited \in BOOLEAN
         /\ quiet \in BOOLEAN
         /\ outlasted \in BOOLEAN
         /\ hostExit \in BOOLEAN

PipeTyped == Counts /\ Places /\ Flags

LEMMA TypedIsTypeOK == PipeTyped => TypeOK
<1> QED BY Zenon DEF PipeTyped, Counts, Places, Flags, TypeOK, Count

(* Bytes: none lost, no buffer over its mark. *)

Room(s) == buf[s] + (IF reader[s] \in {"read", "append"} THEN chunk[s] ELSE 0) <= HighWater

\* Every byte written is in the pipe, in the reader's hands, in the buffer or told.
Conserved(s) == written[s] = kernel[s] + (IF reader[s] = "append" THEN chunk[s] ELSE 0)
                               + buf[s] + delivered[s]

BytesInv == PipeTyped /\ \A s \in Stream : Room(s) /\ Conserved(s)

LEMMA StreamTypes ==
  ASSUME PipeTyped, NEW s \in Stream
  PROVE  /\ written[s] \in Nat /\ kernel[s] \in Nat /\ atExit[s] \in Nat
         /\ chunk[s] \in Nat /\ buf[s] \in Nat /\ delivered[s] \in Nat
         /\ chunk[s] <= HighWater
<1> QED BY SizesAssumption DEF PipeTyped, Counts

\* A stream whose counts and reader do not change.
LEMMA StreamUnchanged ==
  ASSUME NEW s \in Stream, Room(s), Conserved(s),
         written'[s] = written[s], kernel'[s] = kernel[s], reader'[s] = reader[s],
         chunk'[s] = chunk[s], buf'[s] = buf[s], delivered'[s] = delivered[s]
  PROVE  Room(s)' /\ Conserved(s)'
<1> QED BY DEF Room, Conserved

\* A reader that only moves on, to where its chunk is not counted.
LEMMA ReaderMoves ==
  ASSUME PipeTyped, NEW s \in Stream, Room(s), Conserved(s),
         reader[s] \notin {"read", "append"}, reader'[s] \notin {"read", "append"},
         written'[s] = written[s], kernel'[s] = kernel[s],
         buf'[s] = buf[s], delivered'[s] = delivered[s]
  PROVE  Room(s)' /\ Conserved(s)'
<1> QED BY StreamTypes DEF Room, Conserved

LEMMA InitBytes == Init => BytesInv
<1> SUFFICES ASSUME Init PROVE BytesInv
  OBVIOUS
<1> USE DEF Init
<1>1. PipeTyped
  <2>1. Counts
    BY SizesAssumption DEF Counts
  <2>2. Places
    BY DEF Places
  <2>3. Flags
    BY DEF Flags
  <2> QED BY <2>1, <2>2, <2>3 DEF PipeTyped
<1>2. ASSUME NEW s \in Stream PROVE Room(s) /\ Conserved(s)
  BY SizesAssumption DEF Room, Conserved
<1> QED BY <1>1, <1>2 DEF BytesInv

\* The steps of the child and of its grandchild.
LEMMA EnvironmentBytes ==
  ASSUME BytesInv, (\E s \in Stream : Write(s)) \/ ChildExits \/ GrandchildExits
  PROVE  BytesInv'
<1> USE DEF BytesInv
<1>1. ASSUME NEW s \in Stream, Write(s) PROVE BytesInv'
  <2> USE <1>1 DEF Write, pipeVars, jsVars
  <2>1. PipeTyped'
    <3>1. Counts'
      BY SizesAssumption DEF PipeTyped, Counts
    <3>2. Places'
      BY DEF PipeTyped, Places
    <3>3. Flags'
      BY DEF PipeTyped, Flags
    <3> QED BY <3>1, <3>2, <3>3 DEF PipeTyped
  <2>2. ASSUME NEW u \in Stream PROVE Room(u)' /\ Conserved(u)'
    <3>1. CASE u # s
      BY <3>1, StreamUnchanged DEF PipeTyped, Counts
    <3>2. CASE u = s
      <4>1. written'[s] = written[s] + 1 /\ kernel'[s] = kernel[s] + 1
        BY DEF PipeTyped, Counts
      <4> QED BY <3>2, <4>1, StreamTypes DEF Room, Conserved
    <3> QED BY <3>1, <3>2
  <2> QED BY <2>1, <2>2
<1>2. ASSUME ChildExits \/ GrandchildExits PROVE BytesInv'
  <2> USE <1>2 DEF ChildExits, GrandchildExits, pipeVars, jsVars
  <2>1. Counts' /\ Places'
    BY DEF PipeTyped, Counts, Places
  <2>2. Flags'
    BY DEF PipeTyped, Flags
  <2>3. ASSUME NEW u \in Stream PROVE Room(u)' /\ Conserved(u)'
    BY StreamUnchanged
  <2> QED BY <2>1, <2>2, <2>3 DEF PipeTyped
<1> QED BY <1>1, <1>2

\* A reader reads no more than the room it saw, and only a poll changes the room.
LEMMA ReaderBytes ==
  ASSUME BytesInv, NEW s \in Stream, Reader(s)
  PROVE  BytesInv'
<1> USE DEF BytesInv, envVars, jsVars, ReaderGoto
<1>1. CASE CheckClosing(s) \/ Poll(s) \/ Wait(s) \/ SetEof(s)
  <2> USE <1>1 DEF CheckClosing, Poll, Wait, SetEof
  <2>1. PipeTyped'
    <3>1. Counts'
      BY SizesAssumption DEF PipeTyped, Counts
    <3>2. Places'
      BY DEF PipeTyped, Places
    <3>3. Flags'
      BY DEF PipeTyped, Flags
    <3> QED BY <3>1, <3>2, <3>3 DEF PipeTyped
  <2>2. ASSUME NEW u \in Stream PROVE Room(u)' /\ Conserved(u)'
    <3>1. CASE u # s
      BY <3>1, StreamUnchanged DEF PipeTyped, Places
    <3>2. CASE u = s
      BY <3>2, ReaderMoves DEF PipeTyped, Places
    <3> QED BY <3>1, <3>2
  <2> QED BY <2>1, <2>2
<1>2. CASE EvaluatePredicate(s)
  <2> USE <1>2 DEF EvaluatePredicate
  <2>1. PipeTyped'
    <3>1. Counts'
      BY SizesAssumption DEF PipeTyped, Counts
    <3>2. Places'
      BY DEF PipeTyped, Places
    <3>3. Flags'
      BY DEF PipeTyped, Flags
    <3> QED BY <3>1, <3>2, <3>3 DEF PipeTyped
  <2>2. ASSUME NEW u \in Stream PROVE Room(u)' /\ Conserved(u)'
    <3>1. CASE u # s
      BY <3>1, StreamUnchanged DEF PipeTyped, Counts, Places
    <3>2. CASE u = s /\ reader'[s] # "read"
      BY <3>2, ReaderMoves DEF PipeTyped, Places
    <3>3. CASE u = s /\ reader'[s] = "read"
      <4>1. reader[s] = "lock" /\ chunk'[s] = HighWater - buf[s]
        BY <3>3 DEF PipeTyped, Counts, Places
      <4> QED BY <3>3, <4>1, StreamTypes, SizesAssumption DEF Room, Conserved
    <3> QED BY <3>1, <3>2, <3>3
  <2> QED BY <2>1, <2>2
<1>3. CASE Read(s)
  <2> USE <1>3 DEF Read
  <2>1. PipeTyped'
    <3>1. chunk'[s] \in 0 .. HighWater /\ kernel'[s] \in 0 .. PipeSize
      BY SizesAssumption DEF PipeTyped, Counts
    <3>2. Counts'
      BY <3>1, SizesAssumption DEF PipeTyped, Counts
    <3>3. Places'
      BY DEF PipeTyped, Places
    <3>4. Flags'
      BY DEF PipeTyped, Flags
    <3> QED BY <3>2, <3>3, <3>4 DEF PipeTyped
  <2>2. ASSUME NEW u \in Stream PROVE Room(u)' /\ Conserved(u)'
    <3>1. CASE u # s
      BY <3>1, StreamUnchanged DEF PipeTyped, Counts, Places
    <3>2. CASE u = s /\ kernel[s] > 0
      <4> DEFINE got == IF kernel[s] < chunk[s] THEN kernel[s] ELSE chunk[s]
      <4>1. /\ kernel' = [kernel EXCEPT ![s] = @ - got]
            /\ chunk' = [chunk EXCEPT ![s] = got]
            /\ reader' = [reader EXCEPT ![s] = "append"]
        BY <3>2
      <4>2. /\ kernel'[s] = kernel[s] - got
            /\ chunk'[s] = got
            /\ reader'[s] = "append"
        BY <4>1 DEF PipeTyped, Counts, Places
      <4>3. /\ got \in Nat /\ got <= chunk[s]
            /\ reader[s] = "read"
        BY StreamTypes
      <4> HIDE DEF got
      <4> QED BY <3>2, <4>2, <4>3, StreamTypes, SizesAssumption DEF Room, Conserved
    <3>3. CASE u = s /\ kernel[s] = 0
      <4>1. /\ reader' = [reader EXCEPT ![s] = "end"]
            /\ UNCHANGED <<kernel, chunk>>
        BY <3>3
      <4>2. reader[s] = "read" /\ reader'[s] = "end"
        BY <4>1 DEF PipeTyped, Places
      <4> QED BY <3>3, <4>1, <4>2, StreamTypes, SizesAssumption DEF Room, Conserved
    <3> QED BY <3>1, <3>2, <3>3, StreamTypes
  <2> QED BY <2>1, <2>2
<1>4. CASE AppendChunk(s)
  <2> USE <1>4 DEF AppendChunk
  <2>1. PipeTyped'
    <3>1. Counts'
      BY SizesAssumption DEF PipeTyped, Counts
    <3>2. Places'
      BY DEF PipeTyped, Places
    <3>3. Flags'
      BY DEF PipeTyped, Flags
    <3> QED BY <3>1, <3>2, <3>3 DEF PipeTyped
  <2>2. ASSUME NEW u \in Stream PROVE Room(u)' /\ Conserved(u)'
    <3>1. CASE u # s
      BY <3>1, StreamUnchanged DEF PipeTyped, Counts, Places
    <3>2. CASE u = s
      <4>1. /\ buf'[s] = buf[s] + chunk[s] /\ chunk'[s] = 0
            /\ reader[s] = "append" /\ reader'[s] = "check"
        BY DEF PipeTyped, Counts, Places
      <4> QED BY <3>2, <4>1, StreamTypes, SizesAssumption DEF Room, Conserved
    <3> QED BY <3>1, <3>2
  <2> QED BY <2>1, <2>2
<1> QED BY <1>1, <1>2, <1>3, <1>4 DEF Reader

\* What a Take does to the bytes and to the reader.
Takes(s) == /\ buf' = [buf EXCEPT ![s] = 0]
            /\ delivered' = [delivered EXCEPT ![s] = @ + buf[s]]
            /\ UNCHANGED <<child, written, kernel, atExit, chunk>>
            /\ js' \in {"take err", "poll"}
            /\ \/ UNCHANGED reader
               \/ reader[s] = "waiting" /\ reader' = [reader EXCEPT ![s] = "lock"]

LEMMA TakeTakes ==
  ASSUME Flags, TakeOut \/ TakeErr
  PROVE  Flags' /\ \E s \in Stream : Takes(s)
<1> USE DEF TakeOut, TakeErr, Take, Notify, ReaderGoto, envVars
<1>1. Flags'
  BY DEF Flags
<1>2. \E s \in Stream : Takes(s)
  <2>1. CASE TakeOut
    BY <2>1 DEF Takes, Stream
  <2>2. CASE TakeErr
    BY <2>2 DEF Takes, Stream
  <2> QED BY <2>1, <2>2
<1> QED BY <1>1, <1>2

LEMMA TakeBytes ==
  ASSUME BytesInv, NEW s \in Stream, Takes(s), Flags'
  PROVE  BytesInv'
<1>1. Counts /\ Places /\ \A u \in Stream : Room(u) /\ Conserved(u)
  BY DEF BytesInv, PipeTyped
<1>2. /\ buf' = [buf EXCEPT ![s] = 0]
      /\ delivered' = [delivered EXCEPT ![s] = delivered[s] + buf[s]]
      /\ UNCHANGED <<written, kernel, atExit, chunk>>
  BY DEF Takes
<1>3. /\ js' \in {"take err", "poll"}
      /\ UNCHANGED child
      /\ \/ UNCHANGED reader
         \/ reader[s] = "waiting" /\ reader' = [reader EXCEPT ![s] = "lock"]
  BY DEF Takes
<1>4. Counts'
  BY <1>1, <1>2 DEF Counts
<1>5. Places'
  BY <1>1, <1>3 DEF Places
<1>6. ASSUME NEW u \in Stream PROVE Room(u)' /\ Conserved(u)'
  <2>1. CASE u # s
    BY <1>1, <1>2, <1>3, <2>1, StreamUnchanged DEF Counts, Places
  <2>2. CASE u = s
    <3>1. /\ buf'[s] = 0 /\ delivered'[s] = delivered[s] + buf[s]
          /\ written'[s] = written[s] /\ kernel'[s] = kernel[s]
          /\ chunk'[s] = chunk[s]
      BY <1>1, <1>2 DEF Counts
    <3>2. \/ reader'[s] = reader[s]
          \/ reader[s] = "waiting" /\ reader'[s] = "lock"
      BY <1>1, <1>3 DEF Places
    <3>3. PipeTyped
      BY DEF BytesInv
    <3> QED BY <1>1, <2>2, <3>1, <3>2, <3>3, StreamTypes, SizesAssumption DEF Room, Conserved
  <2> QED BY <2>1, <2>2
<1> QED BY <1>4, <1>5, <1>6 DEF BytesInv, PipeTyped

LEMMA NotifyBytes ==
  ASSUME BytesInv, NEW s \in Stream, Notify(s), js' \in {"notify err", "join"},
         UNCHANGED <<envVars, chunk, buf, eof, closing, seenEof, gotData, exited, quiet,
                     outlasted, hostExit, delivered>>
  PROVE  BytesInv'
<1> USE DEF BytesInv, Notify, ReaderGoto, envVars
<1>1. PipeTyped'
  <2>1. Counts'
    BY SizesAssumption DEF PipeTyped, Counts
  <2>2. Places'
    BY DEF PipeTyped, Places
  <2>3. Flags'
    BY DEF PipeTyped, Flags
  <2> QED BY <2>1, <2>2, <2>3 DEF PipeTyped
<1>2. ASSUME NEW u \in Stream PROVE Room(u)' /\ Conserved(u)'
  <2>1. CASE reader'[u] = reader[u]
    BY <2>1, StreamUnchanged
  <2>2. CASE reader'[u] # reader[u]
    <3>1. reader[u] = "waiting" /\ reader'[u] = "lock"
      BY <2>2 DEF PipeTyped, Places
    <3> QED BY <3>1, ReaderMoves
  <2> QED BY <2>1, <2>2
<1> QED BY <1>1, <1>2

\* The JS thread's other steps move no bytes.
LEMMA ControlBytes ==
  ASSUME BytesInv,
         BeginPoll \/ AskExit \/ RunExitListeners \/ Decide \/ GracePasses \/ HostExits
           \/ StoreClosing \/ Join
  PROVE  BytesInv'
<1> USE DEF BytesInv, BeginPoll, AskExit, RunExitListeners, Decide, GracePasses, HostExits,
            StoreClosing, Join, envVars, pipeVars
<1>1. PipeTyped'
  <2>1. Counts'
    BY SizesAssumption DEF PipeTyped, Counts
  <2>2. Places'
    BY DEF PipeTyped, Places
  <2>3. Flags'
    BY DEF PipeTyped, Flags
  <2> QED BY <2>1, <2>2, <2>3 DEF PipeTyped
<1>2. ASSUME NEW u \in Stream PROVE Room(u)' /\ Conserved(u)'
  <2>1. UNCHANGED <<written, kernel, reader, chunk, buf, delivered>>
    OBVIOUS
  <2> QED BY <2>1, StreamUnchanged
<1> QED BY <1>1, <1>2

LEMMA NextBytes == BytesInv /\ [Next]_vars => BytesInv'
<1> SUFFICES ASSUME BytesInv, [Next]_vars PROVE BytesInv'
  OBVIOUS
<1>1. CASE (\E s \in Stream : Write(s)) \/ ChildExits \/ GrandchildExits
  BY <1>1, EnvironmentBytes
<1>2. CASE \E s \in Stream : Reader(s)
  BY <1>2, ReaderBytes
<1>3. CASE TakeOut \/ TakeErr
  BY <1>3, TakeTakes, TakeBytes DEF BytesInv, PipeTyped
<1>4. CASE NotifyOut \/ NotifyErr
  BY <1>4, NotifyBytes DEF NotifyOut, NotifyErr, Stream
<1>5. CASE BeginPoll \/ AskExit \/ RunExitListeners \/ Decide \/ GracePasses \/ HostExits
             \/ StoreClosing \/ Join
  BY <1>5, ControlBytes
<1>6. CASE UNCHANGED vars
  <2> USE <1>6 DEF vars, envVars, pipeVars, jsVars, BytesInv
  <2>1. PipeTyped'
    <3>1. Counts'
      BY DEF PipeTyped, Counts
    <3>2. Places'
      BY DEF PipeTyped, Places
    <3>3. Flags'
      BY DEF PipeTyped, Flags
    <3> QED BY <3>1, <3>2, <3>3 DEF PipeTyped
  <2>2. ASSUME NEW u \in Stream PROVE Room(u)' /\ Conserved(u)'
    BY StreamUnchanged
  <2> QED BY <2>1, <2>2
<1> QED BY <1>1, <1>2, <1>3, <1>4, <1>5, <1>6 DEF Next, PollOnce, StopReaders

LEMMA BytesAlways == Spec => []BytesInv
<1> QED BY InitBytes, NextBytes, PTL DEF Spec

\* Every variable keeps its type (child_process_spawn.cpp, child_process.js).
THEOREM PipeTypeCorrect == Spec => []TypeOK
<1>1. BytesInv => TypeOK
  BY TypedIsTypeOK DEF BytesInv
<1> QED BY <1>1, BytesAlways, PTL

\* No PipeBuf ever holds more than its high-water mark, although its reader reads
\* after it gave up the mutex under which it saw the room (pipeReader).
THEOREM BufferNeverOverflows == Spec => []BufferBounded
<1>1. BytesInv => BufferBounded
  BY DEF BytesInv, Room, BufferBounded
<1> QED BY <1>1, BytesAlways, PTL

(* Teardown: what 'close' waits for. *)

Tearing == {"notify out", "notify err", "join", "closed"}

\* A reader that waits for room has a full buffer in front of it.
Parked(s) == reader[s] \in {"full", "waiting"} => buf[s] >= HighWater

\* A reader is past poll() for bytes or for the end of them, and only it takes any.
Fed(s) == reader[s] \in {"lock", "full", "waiting", "read"} => kernel[s] > 0 \/ ~WriteEndOpen

\* Until it is told to close, a reader ends at the end of the bytes only.
Ended(s) == reader[s] \in {"end", "done"} /\ ~closing => kernel[s] = 0 /\ ~WriteEndOpen

EofIsEnd(s) == eof[s] => reader[s] = "done"

Drained(s) == reader[s] = "done" /\ kernel[s] = 0 /\ buf[s] = 0 /\ ~WriteEndOpen

SeenIsDrained(s) == seenEof[s] => Drained(s)

ExitIsPast(s) == atExit[s] <= written[s]

StreamInv(s) == /\ Parked(s) /\ Fed(s) /\ Ended(s)
                /\ EofIsEnd(s) /\ SeenIsDrained(s) /\ ExitIsPast(s)

Told(s) == atExit[s] <= delivered[s]

\* The 'exit' listeners outlasted the grace, or all is told.
AllTold == outlasted \/ \A s \in Stream : Told(s)

ExitInv == /\ exited => child = "reaped"
           /\ js = "listen" => exited
           /\ closing => js \in Tearing
           /\ quiet => exited /\ (AllTold \/ (js = "decide" /\ gotData))
           /\ js \in Tearing \union {"store"} /\ ~hostExit => exited /\ AllTold

TeardownInv == BytesInv /\ (\A s \in Stream : StreamInv(s)) /\ ExitInv

\* A stream that a step leaves alone, while write ends close and teardown begins.
LEMMA StreamFrame ==
  ASSUME NEW s \in Stream, StreamInv(s),
         reader'[s] = reader[s], kernel'[s] = kernel[s], buf'[s] = buf[s],
         eof'[s] = eof[s], seenEof'[s] = seenEof[s],
         written'[s] = written[s], atExit'[s] = atExit[s],
         WriteEndOpen' => WriteEndOpen, closing => closing'
  PROVE  StreamInv(s)'
<1> USE DEF StreamInv
<1>1. Parked(s)' /\ Fed(s)'
  BY DEF Parked, Fed
<1>2. Ended(s)'
  BY DEF Ended
<1>3. EofIsEnd(s)'
  BY DEF EofIsEnd
<1>4. SeenIsDrained(s)'
  BY DEF SeenIsDrained, Drained
<1>5. ExitIsPast(s)'
  BY DEF ExitIsPast
<1> QED BY <1>1, <1>2, <1>3, <1>4, <1>5

\* A step that takes no part in the end of the child.
LEMMA ExitFrame ==
  ASSUME ExitInv, UNCHANGED <<child, atExit, closing, js, gotData, exited, quiet, outlasted,
                              hostExit, delivered>>
  PROVE  ExitInv'
<1> QED BY DEF ExitInv, AllTold, Told

\* A stream with nothing in the pipe, in the reader's hands or in the buffer.
LEMMA EmptyIsTold ==
  ASSUME PipeTyped, NEW s \in Stream, Conserved(s), ExitIsPast(s),
         kernel[s] = 0, buf[s] = 0, reader[s] # "append"
  PROVE  Told(s)
<1> QED BY StreamTypes DEF Conserved, ExitIsPast, Told

LEMMA InitTeardown == Init => TeardownInv
<1> SUFFICES ASSUME Init PROVE TeardownInv
  OBVIOUS
<1>1. BytesInv
  BY InitBytes
<1>2. ASSUME NEW s \in Stream PROVE StreamInv(s)
  <2> USE DEF Init
  <2>1. Parked(s) /\ Fed(s) /\ Ended(s)
    BY DEF Parked, Fed, Ended
  <2>2. EofIsEnd(s) /\ SeenIsDrained(s)
    BY DEF EofIsEnd, SeenIsDrained
  <2>3. ExitIsPast(s)
    BY DEF ExitIsPast
  <2> QED BY <2>1, <2>2, <2>3 DEF StreamInv
<1>3. ExitInv
  BY DEF Init, ExitInv, Tearing
<1> QED BY <1>1, <1>2, <1>3 DEF TeardownInv

LEMMA EnvironmentTeardown ==
  ASSUME TeardownInv, BytesInv',
         (\E s \in Stream : Write(s)) \/ ChildExits \/ GrandchildExits
  PROVE  TeardownInv'
<1> USE DEF TeardownInv
<1>1. ASSUME NEW s \in Stream, Write(s) PROVE TeardownInv'
  <2> USE <1>1 DEF Write, pipeVars, jsVars
  <2>1. ExitInv'
    BY ExitFrame
  <2>2. WriteEndOpen /\ (WriteEndOpen' <=> WriteEndOpen)
    BY DEF WriteEndOpen
  <2>3. ASSUME NEW u \in Stream PROVE StreamInv(u)'
    <3>1. CASE u # s
      BY <2>2, <3>1, StreamFrame DEF BytesInv, PipeTyped, Counts
    <3>2. CASE u = s
      <4>1. /\ written'[s] = written[s] + 1
            /\ kernel'[s] = kernel[s] + 1
            /\ written[s] \in Nat /\ kernel[s] \in Nat /\ atExit[s] \in Nat
        BY DEF BytesInv, PipeTyped, Counts
      <4>2. kernel'[s] > 0 /\ written'[s] >= written[s]
        BY <4>1
      <4>3. Parked(s)' /\ Fed(s)'
        BY <4>2 DEF StreamInv, Parked, Fed
      <4>4. Ended(s)' /\ EofIsEnd(s)'
        BY <2>2 DEF StreamInv, Ended, EofIsEnd
      <4>5. SeenIsDrained(s)'
        BY <2>2 DEF StreamInv, SeenIsDrained, Drained
      <4>6. ExitIsPast(s)'
        BY <4>1 DEF StreamInv, ExitIsPast
      <4> QED BY <3>2, <4>3, <4>4, <4>5, <4>6 DEF StreamInv
    <3> QED BY <3>1, <3>2
  <2> QED BY <2>1, <2>3
<1>2. ASSUME ChildExits PROVE TeardownInv'
  <2> USE <1>2 DEF ChildExits, pipeVars, jsVars
  <2>1. ~exited
    BY DEF ExitInv
  <2>2. ExitInv'
    BY <2>1 DEF ExitInv
  <2>3. WriteEndOpen' => WriteEndOpen
    BY DEF WriteEndOpen
  <2>4. ASSUME NEW u \in Stream PROVE StreamInv(u)'
    <3>1. ExitIsPast(u)'
      BY StreamTypes DEF ExitIsPast, BytesInv
    <3>2. Parked(u)' /\ Fed(u)' /\ Ended(u)'
      BY <2>3 DEF StreamInv, Parked, Fed, Ended
    <3>3. EofIsEnd(u)' /\ SeenIsDrained(u)'
      BY <2>3 DEF StreamInv, EofIsEnd, SeenIsDrained, Drained
    <3> QED BY <3>1, <3>2, <3>3 DEF StreamInv
  <2> QED BY <2>2, <2>4
<1>3. ASSUME GrandchildExits PROVE TeardownInv'
  <2> USE <1>3 DEF GrandchildExits, pipeVars, jsVars
  <2>1. ExitInv'
    BY ExitFrame
  <2>2. WriteEndOpen' => WriteEndOpen
    BY DEF WriteEndOpen
  <2>3. ASSUME NEW u \in Stream PROVE StreamInv(u)'
    BY <2>2, StreamFrame
  <2> QED BY <2>1, <2>3
<1> QED BY <1>1, <1>2, <1>3

\* A reader ends at the end of the bytes, or because it is told to.
LEMMA ReaderTeardown ==
  ASSUME TeardownInv, BytesInv', NEW s \in Stream, Reader(s)
  PROVE  TeardownInv'
<1> USE DEF TeardownInv
<1>1. UNCHANGED <<child, grand, written, atExit, closing, js, seenEof, gotData, exited, quiet,
                  outlasted, hostExit, delivered>>
  BY DEF Reader, CheckClosing, Poll, EvaluatePredicate, Wait, Read, AppendChunk, SetEof,
         envVars, jsVars
<1>2. ExitInv'
  BY <1>1, ExitFrame
<1>3. WriteEndOpen' <=> WriteEndOpen
  BY <1>1 DEF WriteEndOpen
<1>4. ASSUME NEW u \in Stream, u # s PROVE StreamInv(u)'
  <2>1. /\ reader'[u] = reader[u]
        /\ kernel'[u] = kernel[u]
        /\ buf'[u] = buf[u]
    BY <1>4 DEF Reader, CheckClosing, Poll, EvaluatePredicate, Wait, Read, AppendChunk,
                SetEof, ReaderGoto, envVars, BytesInv, PipeTyped, Counts, Places
  <2>2. eof'[u] = eof[u]
    BY <1>4 DEF Reader, CheckClosing, Poll, EvaluatePredicate, Wait, Read, AppendChunk,
                SetEof, BytesInv, PipeTyped, Flags
  <2> QED BY <1>1, <1>3, <2>1, <2>2, StreamFrame
<1>5. StreamInv(s)'
  <2> USE DEF StreamInv
  <2>1. ~seenEof[s] \/ reader[s] = "done"
    BY DEF SeenIsDrained, Drained
  <2>2. reader[s] # "done"
    BY DEF Reader, CheckClosing, Poll, EvaluatePredicate, Wait, Read, AppendChunk, SetEof
  <2>3. SeenIsDrained(s)' /\ ExitIsPast(s)'
    BY <1>1, <2>1, <2>2 DEF SeenIsDrained, ExitIsPast
  <2>4. ~eof[s]
    BY <2>2 DEF EofIsEnd
  <2>5. CASE SetEof(s)
    <3>1. /\ reader[s] = "end" /\ reader'[s] = "done"
          /\ UNCHANGED <<kernel, buf>>
      BY <2>5 DEF SetEof, ReaderGoto, envVars, BytesInv, PipeTyped, Places
    <3>2. Parked(s)' /\ Fed(s)' /\ Ended(s)' /\ EofIsEnd(s)'
      BY <1>1, <1>3, <3>1 DEF Parked, Fed, Ended, EofIsEnd
    <3> QED BY <2>3, <3>2
  <2>6. ASSUME ~SetEof(s) PROVE EofIsEnd(s)'
    <3>1. UNCHANGED eof
      BY <2>6 DEF Reader, CheckClosing, Poll, EvaluatePredicate, Wait, Read, AppendChunk
    <3> QED BY <2>4, <3>1 DEF EofIsEnd
  <2>7. ASSUME Parked(s)' /\ Fed(s)' /\ Ended(s)', ~SetEof(s) PROVE StreamInv(s)'
    BY <2>3, <2>6, <2>7
  <2>8. CASE CheckClosing(s) \/ Poll(s)
    <3>1. /\ reader'[s] \in {"check", "poll", "lock", "end"}
          /\ reader'[s] = "lock" => kernel[s] > 0 \/ ~WriteEndOpen
          /\ reader'[s] = "end" => closing
          /\ UNCHANGED <<kernel, buf>>
      BY <2>8 DEF CheckClosing, Poll, ReaderGoto, envVars, BytesInv, PipeTyped, Places
    <3>2. Parked(s)' /\ Fed(s)' /\ Ended(s)'
      BY <1>1, <1>3, <3>1 DEF Parked, Fed, Ended
    <3> QED BY <2>5, <2>7, <3>2
  <2>9. CASE EvaluatePredicate(s) \/ Wait(s)
    <3>1. /\ reader[s] \in {"lock", "full"}
          /\ reader'[s] \in {"read", "full", "waiting", "end"}
          /\ reader'[s] = "end" => closing
          /\ reader'[s] = "full" => ~(buf[s] < HighWater)
          /\ reader'[s] = "waiting" => reader[s] = "full"
          /\ UNCHANGED <<kernel, buf>>
      BY <2>9 DEF EvaluatePredicate, Wait, ReaderGoto, envVars, BytesInv, PipeTyped, Places
    <3>2. buf[s] \in Nat /\ HighWater \in Nat
      BY StreamTypes, SizesAssumption DEF BytesInv
    <3>3. Parked(s)'
      BY <3>1, <3>2 DEF Parked
    <3>4. Fed(s)' /\ Ended(s)'
      BY <1>1, <1>3, <3>1 DEF Fed, Ended
    <3> QED BY <2>5, <2>7, <3>3, <3>4
  <2>10. CASE Read(s)
    <3>1. /\ reader[s] = "read"
          /\ reader'[s] \in {"append", "end"}
          /\ reader'[s] = "end" => kernel[s] = 0 /\ kernel'[s] = 0
      BY <2>10 DEF Read, ReaderGoto, BytesInv, PipeTyped, Places
    <3>2. reader'[s] = "end" => ~WriteEndOpen
      BY <3>1 DEF Fed
    <3>3. Parked(s)' /\ Fed(s)' /\ Ended(s)'
      BY <1>3, <3>1, <3>2 DEF Parked, Fed, Ended
    <3> QED BY <2>5, <2>7, <3>3
  <2>11. CASE AppendChunk(s)
    <3>1. reader'[s] = "check"
      BY <2>11 DEF AppendChunk, ReaderGoto, BytesInv, PipeTyped, Places
    <3>2. Parked(s)' /\ Fed(s)' /\ Ended(s)'
      BY <3>1 DEF Parked, Fed, Ended
    <3> QED BY <2>5, <2>7, <3>2
  <2> QED BY <2>5, <2>8, <2>9, <2>10, <2>11 DEF Reader
<1> QED BY <1>2, <1>4, <1>5

\* What a Take does to what the JS thread knows.
Sees(s) == /\ js \in {"take out", "take err"}
           /\ reader[s] # "full"
           /\ reader[s] = "waiting" /\ buf[s] > 0 => reader'[s] = "lock"
           /\ seenEof' = [seenEof EXCEPT ![s] = eof[s]]
           /\ UNCHANGED <<grand, eof, closing, exited, quiet, outlasted, hostExit>>

LEMMA TakeSees ==
  ASSUME PipeTyped, TakeOut \/ TakeErr
  PROVE  \E s \in Stream : Takes(s) /\ Sees(s)
<1> USE DEF Take, Notify, ReaderGoto, envVars, PipeTyped, Places
<1>1. CASE TakeOut
  <2> USE <1>1 DEF TakeOut
  <2>1. Takes("out")
    BY DEF Takes
  <2>2. Sees("out")
    BY DEF Sees, Stream
  <2> QED BY <2>1, <2>2 DEF Stream
<1>2. CASE TakeErr
  <2> USE <1>2 DEF TakeErr
  <2>1. Takes("err")
    BY DEF Takes
  <2>2. Sees("err")
    BY DEF Sees, Stream
  <2> QED BY <2>1, <2>2 DEF Stream
<1> QED BY <1>1, <1>2

\* A stream seen at its end has told all: a poll looks before teardown begins.
LEMMA TakeTeardown ==
  ASSUME TeardownInv, BytesInv', NEW s \in Stream, Takes(s), Sees(s)
  PROVE  TeardownInv'
<1> USE DEF TeardownInv
<1>1. ~closing /\ ~closing' /\ js \notin Tearing \union {"store"}
  BY DEF ExitInv, Sees, Tearing
<1>2. WriteEndOpen' <=> WriteEndOpen
  BY DEF WriteEndOpen, Takes, Sees
<1>3. \A u \in Stream : delivered'[u] >= delivered[u] /\ atExit'[u] = atExit[u]
  <2> TAKE u \in Stream
  <2>1. buf[s] \in Nat /\ delivered[u] \in Nat
    BY StreamTypes DEF BytesInv
  <2>2. delivered'[u] = IF u = s THEN delivered[u] + buf[s] ELSE delivered[u]
    BY DEF Takes, BytesInv, PipeTyped, Counts
  <2>3. atExit'[u] = atExit[u]
    BY DEF Takes, BytesInv, PipeTyped, Counts, Places
  <2> QED BY <2>1, <2>2, <2>3
<1>4. AllTold => AllTold'
  <2>1. outlasted' = outlasted
    BY DEF Takes, Sees
  <2>2. ASSUME NEW u \in Stream, Told(u) PROVE Told(u)'
    <3>1. atExit[u] <= delivered[u]
      BY <2>2 DEF Told
    <3>2. /\ atExit[u] \in Nat /\ delivered[u] \in Nat
          /\ delivered'[u] \in Nat
      BY StreamTypes DEF BytesInv, PipeTyped, Counts
    <3> QED BY <1>3, <3>1, <3>2 DEF Told
  <2> QED BY <2>1, <2>2 DEF AllTold
<1>5. ExitInv'
  <2>1. js' \notin Tearing \union {"store", "listen"}
    BY DEF Takes, Tearing
  <2>2. /\ UNCHANGED <<child, exited, quiet>>
        /\ js # "decide"
    BY DEF Takes, Sees
  <2> QED BY <1>1, <1>4, <2>1, <2>2 DEF ExitInv
<1>6. ASSUME NEW u \in Stream, u # s PROVE StreamInv(u)'
  <2>1. /\ reader'[u] = reader[u] /\ kernel'[u] = kernel[u] /\ buf'[u] = buf[u]
        /\ written'[u] = written[u] /\ atExit'[u] = atExit[u]
    BY <1>6 DEF Takes, BytesInv, PipeTyped, Counts, Places
  <2>2. eof'[u] = eof[u] /\ seenEof'[u] = seenEof[u]
    BY <1>6 DEF Sees, BytesInv, PipeTyped, Flags
  <2> QED BY <1>1, <1>2, <2>1, <2>2, StreamFrame
<1>7. StreamInv(s)'
  <2> USE DEF StreamInv
  <2>1. /\ buf'[s] = 0 /\ buf[s] \in Nat
        /\ UNCHANGED <<kernel, written, atExit>>
    BY DEF Takes, BytesInv, PipeTyped, Counts
  <2>2. eof'[s] = eof[s] /\ seenEof'[s] = eof[s]
    BY DEF Sees, BytesInv, PipeTyped, Flags
  <2>3. \/ reader'[s] = reader[s]
        \/ reader[s] = "waiting" /\ reader'[s] = "lock"
    BY DEF Takes, BytesInv, PipeTyped, Places
  <2>4. reader'[s] \notin {"full", "waiting"}
    <3>1. reader[s] = "waiting" => buf[s] > 0
      BY <2>1, SizesAssumption DEF Parked
    <3> QED BY <2>3, <3>1 DEF Sees
  <2>5. Parked(s)'
    BY <2>4 DEF Parked
  <2>6. Fed(s)' /\ Ended(s)'
    BY <1>1, <1>2, <2>1, <2>3 DEF Fed, Ended
  <2>7. EofIsEnd(s)'
    BY <2>2, <2>3 DEF EofIsEnd
  <2>8. SeenIsDrained(s)'
    BY <1>1, <1>2, <2>1, <2>2, <2>3 DEF EofIsEnd, Ended, SeenIsDrained, Drained
  <2>9. ExitIsPast(s)'
    BY <2>1 DEF ExitIsPast
  <2> QED BY <2>5, <2>6, <2>7, <2>8, <2>9
<1> QED BY <1>5, <1>6, <1>7

\* The steps of the JS thread that leave the streams alone.
LEMMA ControlStreams ==
  ASSUME TeardownInv,
         UNCHANGED <<grand, written, kernel, atExit, reader, buf, eof, seenEof>>,
         child' \in {child, "reaped"}, child = "running" => child' = child,
         closing => closing'
  PROVE  \A u \in Stream : StreamInv(u)'
<1>1. WriteEndOpen' => WriteEndOpen
  BY DEF WriteEndOpen
<1> QED BY <1>1, StreamFrame DEF TeardownInv

\* A poll that brings it to an end: of all the bytes, or of the grace period.
LEMMA DecideTeardown ==
  ASSUME TeardownInv, BytesInv', Decide
  PROVE  TeardownInv'
<1> USE DEF TeardownInv, Decide, envVars, pipeVars
<1>1. \A u \in Stream : StreamInv(u)'
  BY ControlStreams
<1>2. quiet' => quiet
  OBVIOUS
<1>3. (\A s \in Stream : seenEof[s]) => AllTold
  <2> SUFFICES ASSUME \A s \in Stream : seenEof[s], NEW s \in Stream PROVE Told(s)
    BY DEF AllTold
  <2>1. Drained(s)
    BY DEF StreamInv, SeenIsDrained
  <2> QED BY <2>1, EmptyIsTold DEF Drained, StreamInv, BytesInv
<1>4. AllTold' <=> AllTold
  BY DEF AllTold, Told
<1>5. ~closing
  BY DEF ExitInv, Tearing
<1>9. quiet' => ~gotData
  OBVIOUS
<1>6. js' = "store" => exited /\ AllTold
  BY <1>9, <1>2, <1>3 DEF ExitInv
<1>7. js' \in {"store", "idle"}
  OBVIOUS
<1>8. ExitInv'
  BY <1>2, <1>4, <1>5, <1>6, <1>7, <1>9 DEF ExitInv, Tearing
<1> QED BY <1>1, <1>8

\* A grace period that ends finds nothing to take: a reader that waits has a full
\* buffer in front of it, so none waits.
LEMMA GraceTeardown ==
  ASSUME TeardownInv, BytesInv', GracePasses
  PROVE  TeardownInv'
<1> USE DEF TeardownInv, GracePasses, envVars, pipeVars
<1>1. \A u \in Stream : StreamInv(u)'
  BY ControlStreams
<1>2. AllTold
  <2> SUFFICES ASSUME NEW s \in Stream PROVE Told(s)
    BY DEF AllTold
  <2>1. reader[s] # "waiting"
    BY SizesAssumption DEF StreamInv, Parked
  <2>2. kernel[s] = 0 /\ buf[s] = 0 /\ reader[s] # "append"
    BY <2>1 DEF ReadersSettled
  <2> QED BY <2>2, EmptyIsTold DEF StreamInv, BytesInv
<1>3. AllTold'
  BY <1>2 DEF AllTold, Told
<1>4. ExitInv'
  BY <1>3 DEF ExitInv, Tearing
<1> QED BY <1>1, <1>4

\* The other steps of the JS thread.
LEMMA ControlTeardown ==
  ASSUME TeardownInv, BytesInv',
         BeginPoll \/ AskExit \/ RunExitListeners \/ HostExits \/ StoreClosing \/ Join
  PROVE  TeardownInv'
<1> USE DEF TeardownInv
<1>1. /\ UNCHANGED <<grand, written, kernel, atExit, reader, buf, eof, seenEof, delivered>>
      /\ child' \in {child, "reaped"} /\ (child = "running" => child' = child)
      /\ closing => closing'
  <2>1. CASE AskExit
    BY <2>1 DEF AskExit, pipeVars
  <2>2. CASE BeginPoll
    BY <2>2 DEF BeginPoll, envVars, pipeVars
  <2>3. CASE HostExits
    BY <2>3 DEF HostExits, envVars, pipeVars
  <2>4. CASE Join
    BY <2>4 DEF Join, envVars, pipeVars
  <2>5. CASE RunExitListeners
    BY <2>5 DEF RunExitListeners, envVars, pipeVars
  <2>6. CASE StoreClosing
    BY <2>6 DEF StoreClosing, envVars
  <2> QED BY <2>1, <2>2, <2>3, <2>4, <2>5, <2>6
<1>2. \A u \in Stream : StreamInv(u)'
  BY <1>1, ControlStreams
<1>3. outlasted' = outlasted => (AllTold' <=> AllTold)
  BY <1>1 DEF AllTold, Told
<1> USE <1>3 DEF ExitInv, Tearing, envVars, pipeVars
<1>4. CASE BeginPoll
  BY <1>2, <1>4 DEF BeginPoll
<1>5. CASE AskExit
  <2>1. js = "poll" /\ UNCHANGED <<closing, outlasted, hostExit>>
    BY <1>5 DEF AskExit
  <2>2. ~closing /\ ~closing'
    BY <2>1
  <2>3. \/ child' = "reaped" /\ exited' /\ ~quiet' /\ js' = "listen"
        \/ js' = "decide" /\ UNCHANGED <<child, exited, quiet>>
    BY <1>5 DEF AskExit
  <2>4. CASE child' = "reaped" /\ exited' /\ ~quiet' /\ js' = "listen"
    BY <1>2, <2>2, <2>4
  <2>5. CASE js' = "decide" /\ UNCHANGED <<child, exited, quiet>>
    BY <1>2, <2>1, <2>2, <2>5
  <2> QED BY <2>3, <2>4, <2>5
<1>6. CASE RunExitListeners
  <2>1. js = "listen" /\ js' = "decide" /\ outlasted' = (quiet' /\ ~gotData)
        /\ UNCHANGED <<child, closing, gotData, exited, hostExit>>
    BY <1>6 DEF RunExitListeners
  <2>2. quiet' => outlasted' \/ gotData'
    BY <2>1
  <2> QED BY <1>2, <2>1, <2>2 DEF AllTold
<1>7. CASE HostExits
  BY <1>2, <1>7 DEF HostExits
<1>8. CASE StoreClosing
  BY <1>2, <1>8 DEF StoreClosing
<1>9. CASE Join
  BY <1>2, <1>9 DEF Join
<1> QED BY <1>2, <1>4, <1>5, <1>6, <1>7, <1>8, <1>9

LEMMA NotifyTeardown ==
  ASSUME TeardownInv, BytesInv', NotifyOut \/ NotifyErr
  PROVE  TeardownInv'
<1> USE DEF TeardownInv, NotifyOut, NotifyErr, envVars
<1>1. UNCHANGED <<child, grand, written, kernel, atExit, buf, eof, closing, seenEof, gotData, exited,
                  quiet, outlasted, hostExit, delivered>>
  OBVIOUS
<1>2. ExitInv'
  BY <1>1 DEF ExitInv, Tearing, AllTold, Told
<1>3. WriteEndOpen' <=> WriteEndOpen
  BY <1>1 DEF WriteEndOpen
<1>4. ASSUME NEW u \in Stream PROVE StreamInv(u)'
  <2>1. \/ reader'[u] = reader[u]
        \/ reader[u] = "waiting" /\ reader'[u] = "lock"
    BY DEF Notify, ReaderGoto, Stream, BytesInv, PipeTyped, Places
  <2>2. CASE reader'[u] = reader[u]
    BY <1>1, <1>3, <2>2, StreamFrame
  <2>3. CASE reader[u] = "waiting" /\ reader'[u] = "lock"
    <3>1. Parked(u)' /\ Fed(u)' /\ Ended(u)'
      BY <1>1, <1>3, <2>3 DEF StreamInv, Parked, Fed, Ended
    <3>2. EofIsEnd(u)' /\ SeenIsDrained(u)'
      BY <1>1, <2>3 DEF StreamInv, EofIsEnd, SeenIsDrained, Drained
    <3>3. ExitIsPast(u)'
      BY <1>1 DEF StreamInv, ExitIsPast
    <3> QED BY <3>1, <3>2, <3>3 DEF StreamInv
  <2> QED BY <2>1, <2>2, <2>3
<1> QED BY <1>2, <1>4

LEMMA NextTeardown ==
  ASSUME TeardownInv, [Next]_vars
  PROVE  TeardownInv'
<1>1. BytesInv'
  BY NextBytes DEF TeardownInv
<1>2. CASE (\E s \in Stream : Write(s)) \/ ChildExits \/ GrandchildExits
  BY <1>1, <1>2, EnvironmentTeardown
<1>3. CASE \E s \in Stream : Reader(s)
  BY <1>1, <1>3, ReaderTeardown
<1>4. CASE TakeOut \/ TakeErr
  BY <1>1, <1>4, TakeSees, TakeTeardown DEF TeardownInv, BytesInv
<1>5. CASE Decide
  BY <1>1, <1>5, DecideTeardown
<1>6. CASE GracePasses
  BY <1>1, <1>6, GraceTeardown
<1>7. CASE BeginPoll \/ AskExit \/ RunExitListeners \/ HostExits \/ StoreClosing \/ Join
  BY <1>1, <1>7, ControlTeardown
<1>8. CASE NotifyOut \/ NotifyErr
  BY <1>1, <1>8, NotifyTeardown
<1>9. CASE UNCHANGED vars
  <2> USE <1>9 DEF TeardownInv, vars, envVars, pipeVars, jsVars
  <2>1. \A u \in Stream : StreamInv(u)'
    BY ControlStreams
  <2>2. ExitInv'
    BY ExitFrame
  <2> QED BY <1>1, <2>1, <2>2
<1> QED BY <1>2, <1>3, <1>4, <1>5, <1>6, <1>7, <1>8, <1>9 DEF Next, PollOnce, StopReaders

\* Every byte the child wrote is delivered before 'close', whether both streams have
\* ended or a grandchild kept them open until the grace period was over, but for the
\* poll whose 'exit' listeners outlasted that period; no close costs more than a
\* buffer and a pipe of the output (child_process.js, _pollOnce).
THEOREM EveryByteDelivered == Spec => []EveryByteBeforeClose
<1>1. TeardownInv /\ [Next]_vars => TeardownInv'
  BY NextTeardown
<1>2. TeardownInv => EveryByteBeforeClose
  <2> SUFFICES ASSUME TeardownInv, js = "closed", ~hostExit, NEW s \in Stream
               PROVE  /\ delivered[s] >= atExit[s] \/ outlasted
                      /\ delivered[s] + HighWater + PipeSize >= atExit[s]
    BY DEF EveryByteBeforeClose
  <2>1. atExit[s] <= delivered[s] \/ outlasted
    BY DEF TeardownInv, ExitInv, Tearing, AllTold, Told
  <2>2. Room(s) /\ Conserved(s) /\ atExit[s] <= written[s]
    BY DEF TeardownInv, BytesInv, StreamInv, ExitIsPast
  <2>3. /\ {delivered[s], atExit[s], written[s], buf[s]} \subseteq Nat
        /\ kernel[s] \in 0 .. PipeSize /\ chunk[s] \in 0 .. HighWater
    BY StreamTypes DEF TeardownInv, BytesInv, PipeTyped, Counts
  <2>4. written[s] <= delivered[s] + HighWater + PipeSize
    BY <2>2, <2>3, SizesAssumption DEF Room, Conserved
  <2> QED BY <2>1, <2>2, <2>3, <2>4, SizesAssumption
<1> QED BY <1>1, <1>2, InitTeardown, PTL DEF Spec
===============================================================================
