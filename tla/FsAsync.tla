------------------------------- MODULE FsAsync --------------------------------
(***************************************************************************)
(* fs.promises and file descriptors (src/src/api/fs_async.cpp,             *)
(* src/src/api/fs_fd.cpp): a call on a JS thread queues a job for a small  *)
(* pool of threads and returns a promise; a pool thread does the job and   *)
(* puts its result on the completion list of the calling thread, found by  *)
(* its std::thread::id; that thread's next tick settles the promise.       *)
(*                                                                         *)
(* JS threads start and end.  One file is open, through one descriptor of  *)
(* the process's table: what was written to it is counted, and of that     *)
(* what has left the stream's buffer and what has reached the disk.  The   *)
(* wakeNetWait() that follows every result is NetWait's matter: here a     *)
(* host's ticks just go on.                                                *)
(***************************************************************************)
EXTENDS Naturals, Sequences, FiniteSets, SequencesExt

CONSTANTS Threads,     \* the JS threads, each of which runs once
          First,       \* the one that runs already
          Ids,         \* std::thread::id
          Workers,     \* the threads of the pool
          None,        \* no job, no thread id
          MaxJobs,     \* bound: calls of one thread
          MaxCalls,    \* bound: calls of all threads
          MaxWrites    \* bound: writes through the descriptor

ASSUME BoundsAssumption == /\ {MaxJobs, MaxCalls, MaxWrites} \subseteq Nat
                           /\ First \in Threads /\ Ids # {}

VARIABLES life,        \* a JS thread: new, running or ended
          tid,         \* its std::thread::id
          next,        \* its t_pending->next
          promises,    \* its t_pending->promises: the ids of the unsettled
          notifying,   \* it has queued a job and is about to notify a worker
          call,        \* history: what each job is, until its own result is taken
          queue,       \* the pool's queue_
          stage,       \* where each pool thread is in loop()
          job,         \* the job it has taken
          done,        \* the pool's done_
          synced,      \* history: the job is an unsettled fsync and succeeded
          settledBy,   \* history: the job whose result settled each promise
          file         \* the open file, its name and its bytes

callerVars == <<life, tid, next, promises, notifying, call, settledBy>>
poolVars == <<queue, stage, job, done, synced>>
fsVars == <<callerVars, poolVars, file>>

JobIds == 1 .. MaxJobs
Ops == {"path", "sync", "truncate", "bad"}

\* A job as the pool knows it: its owner is tid[by].
Jobs == [by : Threads, id : JobIds]

ASSUME NoneAssumption == None \notin Ids \union Jobs

Running == {t \in Threads : life[t] = "running"}

FsTypeOK == /\ life \in [Threads -> {"new", "running", "ended"}]
            /\ tid \in [Threads -> Ids \union {None}]
            /\ next \in [Threads -> 1 .. MaxJobs + 1]
            /\ promises \in [Threads -> SUBSET JobIds]
            /\ notifying \in [Threads -> BOOLEAN]
            /\ call \in [Jobs -> [op : Ops, due : Nat]]
            /\ queue \in Seq(Jobs)
            /\ stage \in [Workers -> {"looks", "sleeps", "works", "reports"}]
            /\ job \in [Workers -> Jobs \union {None}]
            /\ \A w \in Workers : job[w] \in Jobs <=> stage[w] \in {"works", "reports"}
            /\ done \in [Ids -> Seq(Jobs)]
            /\ synced \in [Jobs -> BOOLEAN]
            /\ settledBy \in [Jobs -> Jobs \union {None}]
            /\ file \in [open : BOOLEAN, named : BOOLEAN, lost : BOOLEAN,
                         written : Nat, inOs : Nat, onDisk : Nat]

NoCall == [op |-> "path", due |-> 0]

FsInit == /\ life = [t \in Threads |-> IF t = First THEN "running" ELSE "new"]
          /\ tid = [t \in Threads |-> IF t = First THEN CHOOSE i \in Ids : TRUE ELSE None]
          /\ next = [t \in Threads |-> 1]
          /\ promises = [t \in Threads |-> {}]
          /\ notifying = [t \in Threads |-> FALSE]
          /\ call = [j \in Jobs |-> NoCall]
          /\ queue = <<>>
          /\ stage = [w \in Workers |-> "looks"]
          /\ job = [w \in Workers |-> None]
          /\ done = [i \in Ids |-> <<>>]
          /\ synced = [j \in Jobs |-> FALSE]
          /\ settledBy = [j \in Jobs |-> None]
          /\ file = [open |-> TRUE, named |-> TRUE, lost |-> FALSE,
                     written |-> 0, inOs |-> 0, onDisk |-> 0]

-------------------------------------------------------------------------------
(* The file, under g_fdMutex.                                               *)

\* What a flush of the stream leaves: it is done, or fails, which nothing tells.
Flushes(f) == {[f EXCEPT !.inOs = f.written]}
              \union IF f.inOs < f.written THEN {[f EXCEPT !.lost = TRUE]} ELSE {}

JsRuns(t) == t \in Running /\ ~notifying[t]

\* The stream may flush its buffer by itself.
WriteSync(t) == /\ JsRuns(t)
                /\ file.open
                /\ file.written < MaxWrites
                /\ LET f == [file EXCEPT !.written = @ + 1]
                   IN  file' \in {f} \union Flushes(f)
                /\ UNCHANGED <<callerVars, poolVars>>

CloseSync(t) == /\ JsRuns(t)
                /\ file.open
                /\ \E f \in Flushes(file) : file' = [f EXCEPT !.open = FALSE]
                /\ UNCHANGED <<callerVars, poolVars>>

\* What a job does, and whether it is an fsync without an error.  One on paths, rm or
\* rename, may take the name away; fsync is content when the name is gone; ftruncate
\* flushes, and an fsync of a closed descriptor ("bad") does nothing.
Effects(op, f) ==
  CASE op = "path" -> {<<f, FALSE>>, <<[f EXCEPT !.named = FALSE], FALSE>>}
    [] op = "bad" -> {<<f, FALSE>>}
    [] op = "sync" -> IF f.named THEN {<<[f EXCEPT !.onDisk = f.inOs], TRUE>>, <<f, FALSE>>}
                      ELSE {<<f, TRUE>>}
    [] op = "truncate" -> {<<g, FALSE>> : g \in IF f.open THEN Flushes(f) ELSE {f}}

-------------------------------------------------------------------------------
(* The JS thread.                                                           *)

\* A thread's id is no running thread's, but it may be that of one that has ended.
Start(t) == /\ life[t] = "new"
            /\ life' = [life EXCEPT ![t] = "running"]
            /\ \E i \in Ids : /\ \A u \in Running : tid[u] # i
                              /\ tid' = [tid EXCEPT ![t] = i]
            /\ UNCHANGED <<next, promises, notifying, call, settledBy, poolVars, file>>

Finish(t) == /\ JsRuns(t)
             /\ life' = [life EXCEPT ![t] = "ended"]
             /\ UNCHANGED <<tid, next, promises, notifying, call, settledBy, poolVars, file>>

\* Bound: the calls of all threads.
MoreCalls == FoldFunction(+, 0, next) < Cardinality(Threads) + MaxCalls

\* A call that the access policy does not refuse.
Submit(t, op) ==
  /\ JsRuns(t)
  /\ next[t] \in JobIds
  /\ MoreCalls
  /\ LET j == [by |-> t, id |-> next[t]]
     IN  /\ queue' = Append(queue, j)
         /\ call' = [call EXCEPT ![j] = [op |-> op, due |-> IF op = "sync" THEN file.written ELSE 0]]
         /\ promises' = [promises EXCEPT ![t] = @ \union {j.id}]
  /\ next' = [next EXCEPT ![t] = @ + 1]
  /\ notifying' = [notifying EXCEPT ![t] = TRUE]
  /\ UNCHANGED <<life, tid, stage, job, done, synced, settledBy>>

SubmitPath(t) == /\ \E op \in {"path", "truncate"} : Submit(t, op)
                 /\ UNCHANGED file

\* Mutant: fsync leaves the stream's buffer to the pool.
SubmitSyncUnflushed(t) == /\ Submit(t, IF file.open THEN "sync" ELSE "bad")
                          /\ UNCHANGED file

\* fsync: the stream is flushed here, before the job is queued.  fstat and futimes
\* are, as far as is modelled, fsyncs that fail.
SubmitSync(t) == IF file.open THEN Submit(t, "sync") /\ file' \in Flushes(file)
                 ELSE Submit(t, "bad") /\ UNCHANGED file

\* Mutant: nobody is notified.
NotifyNobody(t) == /\ notifying[t]
                   /\ notifying' = [notifying EXCEPT ![t] = FALSE]
                   /\ UNCHANGED <<life, tid, next, promises, call, settledBy, poolVars, file>>

\* notify_one, after the queue's mutex is released.
NotifyWorker(t) == /\ notifying[t]
                   /\ notifying' = [notifying EXCEPT ![t] = FALSE]
                   /\ LET sleepers == {w \in Workers : stage[w] = "sleeps"}
                      IN  IF sleepers = {} THEN UNCHANGED stage
                          ELSE \E w \in sleepers : stage' = [stage EXCEPT ![w] = "looks"]
                   /\ UNCHANGED <<life, tid, next, promises, call, settledBy,
                                  queue, job, done, synced, file>>

\* Pool::take: the whole list of a thread id.
Taken(i) == done' = [done EXCEPT ![i] = <<>>]

\* The promise of each result taken is settled; a result of no promise is dropped.
Tick(t) == /\ JsRuns(t)
           /\ promises[t] # {}
           /\ Taken(tid[t])
           /\ LET take == done[tid[t]]
                  settled == {i \in promises[t] : \E n \in 1 .. Len(take) : take[n].id = i}
                  firsts == {f \in [settled -> 1 .. Len(take)] :
                               \A i \in settled : /\ take[f[i]].id = i
                                                  /\ \A n \in 1 .. f[i] - 1 : take[n].id # i}
              IN  /\ promises' = [promises EXCEPT ![t] = @ \ settled]
                  /\ \E first \in firsts :
                        settledBy' = [j \in Jobs |-> IF j.by = t /\ j.id \in settled
                                                     THEN take[first[j.id]] ELSE settledBy[j]]
                  /\ call' = [j \in Jobs |-> IF settledBy'[j] = j THEN NoCall ELSE call[j]]
                  /\ synced' = [j \in Jobs |-> synced[j] /\ ~(j.by = t /\ j.id \in settled)]
           /\ UNCHANGED <<life, tid, next, notifying, queue, stage, job, file>>

-------------------------------------------------------------------------------
(* The pool thread.                                                         *)

\* Under the queue's mutex: the oldest job, or to sleep.
Look(w) == /\ stage[w] = "looks"
           /\ IF queue = <<>>
              THEN stage' = [stage EXCEPT ![w] = "sleeps"] /\ UNCHANGED <<queue, job>>
              ELSE /\ stage' = [stage EXCEPT ![w] = "works"]
                   /\ job' = [job EXCEPT ![w] = Head(queue)]
                   /\ queue' = Tail(queue)
           /\ UNCHANGED <<callerVars, done, synced, file>>

Work(w) == /\ stage[w] = "works"
           /\ \E e \in Effects(call[job[w]].op, file) :
                 file' = e[1] /\ synced' = [synced EXCEPT ![job[w]] = e[2]]
           /\ stage' = [stage EXCEPT ![w] = "reports"]
           /\ UNCHANGED <<callerVars, queue, job, done>>

Reports(w) == /\ stage[w] = "reports"
              /\ stage' = [stage EXCEPT ![w] = "looks"]
              /\ job' = [job EXCEPT ![w] = None]
              /\ UNCHANGED <<callerVars, queue, synced, file>>

\* Mutant: the result goes to any thread's list.
ReportAnywhere(w) == /\ Reports(w)
                     /\ \E i \in Ids : done' = [done EXCEPT ![i] = Append(@, job[w])]

\* Under the mutex of the completion lists; wakeNetWait() follows.
Report(w) == /\ Reports(w)
             /\ done' = [done EXCEPT ![tid[job[w].by]] = Append(@, job[w])]

Js(t) == \/ Start(t) \/ Finish(t) \/ WriteSync(t) \/ CloseSync(t)
         \/ SubmitPath(t) \/ SubmitSync(t) \/ NotifyWorker(t) \/ Tick(t)

Pool(w) == Look(w) \/ Work(w) \/ Report(w)

FsNext == (\E t \in Threads : Js(t)) \/ (\E w \in Workers : Pool(w))

\* A thread inside a function goes on, and the host of a running thread ticks.
FsFairness == /\ \A w \in Workers : WF_fsVars(Pool(w))
              /\ \A t \in Threads : WF_fsVars(NotifyWorker(t)) /\ WF_fsVars(Tick(t))

FsSpec == FsInit /\ [][FsNext]_fsVars /\ FsFairness

-------------------------------------------------------------------------------
(* Properties.                                                              *)

\* A call of an ended thread that had the thread id of j's, and numbered it as j is.
Namesake(k, j) == /\ k.by # j.by /\ k.id = j.id
                  /\ life[k.by] = "ended" /\ tid[k.by] = tid[j.by]

\* A promise is settled by the result of its own call, fs_async.cpp:4-7: the result
\* "waits in the calling thread's completion list until that thread's next
\* __brokit_fs_async_tick ... settles the promise".  The list is found by the thread's
\* id, so that a call an ended thread left behind may settle its namesake, and no
\* other call's result does.
OwnResult == \A j \in Jobs : \/ settledBy[j] \in {None, j}
                             \/ Namesake(settledBy[j], j)

\* fs_async.h:46-60: an fsync that resolves by its own result has what was written
\* through the descriptor before it on the disk, or with the OS if the name is gone;
\* unless a flush failed.
Durable == [][\A j \in Jobs :
                 /\ synced[j] /\ settledBy[j] # j /\ settledBy'[j] = j
                 /\ ~file.lost
                 => /\ call[j].due <= file.inOs
                    /\ file.named => call[j].due <= file.onDisk]_fsVars

\* A thread that goes on running sees all of its promises settled.
AllSettled == \A t \in Threads :
                 promises[t] # {} ~> promises[t] = {} \/ life[t] = "ended"
===============================================================================
