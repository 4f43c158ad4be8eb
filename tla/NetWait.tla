------------------------------- MODULE NetWait --------------------------------
(***************************************************************************)
(* The host's sleep and the wake that ends it (src/src/api/net_wait.cpp):  *)
(* waitForNetEvents blocks a JS thread in select(); wakeNetWait, called by *)
(* watcher and pool threads and by signal handlers, ends that.             *)
(*                                                                         *)
(* The flag and the self-pipe belong to the process; the sockets waited    *)
(* for belong to the calling thread and are outside this module: they may  *)
(* end any select, or none.  Every access to the flag and to the pipe is a *)
(* step.  g_wakeWriteFd is a plain variable written under a mutex and read *)
(* after an atomic exchange; the mutex's unlock and the exchange keep      *)
(* their order on the targets the build supports, so the read is not taken *)
(* to be stale.                                                            *)
(***************************************************************************)
EXTENDS Naturals, FiniteSets

CONSTANTS Waiters,    \* the threads that call waitForNetEvents
          Wakers,     \* the threads and signal handlers that call wakeNetWait
          PipeOutcomes \* what an attempt to make the wake pipe may lead to

ASSUME WakersAssumption == IsFiniteSet(Wakers)
ASSUME PipeAssumption == PipeOutcomes \subseteq {"none", "ok", "unselectable"}

VARIABLES flag,       \* g_wakeSignaled
          pipe,       \* the wake pipe: none yet, made, or made beyond FD_SETSIZE
          bytes,      \* bytes in the pipe
          waker,      \* where each waker is in wakeNetWait
          pc,         \* where each waiter is in waitForNetEvents
          watch,      \* the waiter's read set holds the pipe
          result,     \* what the waiter's call will return
          owed        \* history: what the waiter was doing when wakeNetWait was
                      \* called since its last return, "none" if it was not

waitVars == <<flag, pipe, bytes, waker, pc, watch, result, owed>>
waiterVars == <<pc, watch, result, owed>>

WaitTypeOK == /\ flag \in BOOLEAN
              /\ pipe \in {"none", "ok", "unselectable"}
              /\ bytes \in Nat
              /\ waker \in [Wakers -> {"idle", "won"}]
              /\ pc \in [Waiters -> {"run", "check", "events", "select", "after",
                                     "clear", "read", "return"}]
              /\ watch \in [Waiters -> BOOLEAN]
              /\ result \in [Waiters -> BOOLEAN]
              /\ owed \in [Waiters -> {"none", "awake", "asleep"}]

WaitInit == /\ flag = FALSE
            /\ pipe = "none"
            /\ bytes = 0
            /\ waker = [w \in Wakers |-> "idle"]
            /\ pc = [t \in Waiters |-> "run"]
            /\ watch = [t \in Waiters |-> FALSE]
            /\ result = [t \in Waiters |-> FALSE]
            /\ owed = [t \in Waiters |-> "none"]

-------------------------------------------------------------------------------
(* wakeNetWait.                                                             *)

\* The exchange: only the caller that raises the flag goes on to write.
Exchange(w) == /\ waker[w] = "idle"
               /\ waker' = IF flag THEN waker ELSE [waker EXCEPT ![w] = "won"]
               /\ flag' = TRUE
               /\ owed' = [t \in Waiters |->
                             IF pc[t] = "select" THEN "asleep"
                             ELSE IF owed[t] = "none" THEN "awake" ELSE owed[t]]
               /\ UNCHANGED <<pipe, bytes, pc, watch, result>>

\* One byte into the pipe, when there is one.
WriteByte(w) == /\ waker[w] = "won"
                /\ bytes' = IF pipe = "none" THEN bytes ELSE bytes + 1
                /\ waker' = [waker EXCEPT ![w] = "idle"]
                /\ UNCHANGED <<flag, pipe, waiterVars>>

-------------------------------------------------------------------------------
(* waitForNetEvents.                                                        *)

Goto(t, where) == pc' = [pc EXCEPT ![t] = where]

Answer(t, r) == result' = [result EXCEPT ![t] = r]

\* ensureWakePipe: made once for the process, under its mutex; making it may fail.
EnsurePipe(t) == /\ pc[t] = "run"
                 /\ \/ pipe = "none" /\ pipe' \in PipeOutcomes
                    \/ pipe # "none" /\ pipe' = pipe
                 /\ Goto(t, "check")
                 /\ UNCHANGED <<flag, bytes, waker, watch, result, owed>>

\* Mutant: the wait counts on the pipe alone and does not look at the flag.
CheckFlagNever(t) == /\ pc[t] = "check"
                     /\ Goto(t, "events")
                     /\ UNCHANGED <<flag, pipe, bytes, waker, watch, result, owed>>

\* A wake already raised ends the call before it sleeps.
CheckFlag(t) == /\ pc[t] = "check"
                /\ IF flag THEN Goto(t, "clear") /\ Answer(t, TRUE)
                           ELSE Goto(t, "events") /\ UNCHANGED result
                /\ UNCHANGED <<flag, pipe, bytes, waker, watch, owed>>

\* Some socket has events queued (TRUE), or the caller does not want to wait, or
\* there is nothing to wait on (FALSE).
DontSleep(t) == /\ pc[t] = "events"
                /\ \E r \in BOOLEAN : Answer(t, r)
                /\ Goto(t, "return")
                /\ UNCHANGED <<flag, pipe, bytes, waker, watch, owed>>

\* Mutant: the pipe is left out of the read set.
BeginSelectWithoutPipe(t) == /\ pc[t] = "events"
                             /\ watch' = [watch EXCEPT ![t] = FALSE]
                             /\ Goto(t, "select")
                             /\ UNCHANGED <<flag, pipe, bytes, waker, result, owed>>

\* The read set is built and select() entered; a thread without a usable pipe
\* sleeps only if it has a socket.
BeginSelect(t) == /\ pc[t] = "events"
                  /\ watch' = [watch EXCEPT ![t] = pipe = "ok"]
                  /\ Goto(t, "select")
                  /\ UNCHANGED <<flag, pipe, bytes, waker, result, owed>>

\* select() finds the pipe readable.
PipeReadable(t) == /\ pc[t] = "select"
                   /\ watch[t] /\ bytes > 0
                   /\ Goto(t, "clear")
                   /\ Answer(t, TRUE)
                   /\ UNCHANGED <<flag, pipe, bytes, waker, watch, owed>>

\* It finds sockets ready and not the pipe.
SocketReady(t) == /\ pc[t] = "select"
                  /\ watch[t] => bytes = 0
                  /\ Goto(t, "after")
                  /\ Answer(t, TRUE)
                  /\ UNCHANGED <<flag, pipe, bytes, waker, watch, owed>>

\* It times out with nothing ready (rc = 0).
TimesOut(t) == /\ pc[t] = "select"
               /\ watch[t] => bytes = 0
               /\ Goto(t, "after")
               /\ Answer(t, FALSE)
               /\ UNCHANGED <<flag, pipe, bytes, waker, watch, owed>>

\* A signal interrupts it (rc < 0), whatever is ready.
Interrupted(t) == /\ pc[t] = "select"
                  /\ Goto(t, "after")
                  /\ Answer(t, FALSE)
                  /\ UNCHANGED <<flag, pipe, bytes, waker, watch, owed>>

\* The flag is looked at once more: raised, it is cleared all the same.
CheckFlagAgain(t) == /\ pc[t] = "after"
                     /\ Goto(t, IF flag THEN "clear" ELSE "return")
                     /\ UNCHANGED <<flag, pipe, bytes, waker, watch, result, owed>>

\* drainWakePipe: first the flag is lowered ...
ClearFlag(t) == /\ pc[t] = "clear"
                /\ flag' = FALSE
                /\ Goto(t, IF pipe = "none" THEN "return" ELSE "read")
                /\ UNCHANGED <<pipe, bytes, waker, watch, result, owed>>

\* ... then the pipe is read (64 bytes at a time: here, all there is) ...
ReadBytes(t) == /\ pc[t] = "read"
                /\ bytes > 0
                /\ bytes' = 0
                /\ UNCHANGED <<flag, pipe, waker, waiterVars>>

\* ... until a read finds it empty.
ReadNothing(t) == /\ pc[t] = "read"
                  /\ bytes = 0
                  /\ Goto(t, "return")
                  /\ UNCHANGED <<flag, pipe, bytes, waker, watch, result, owed>>

\* Back in the host, which ticks everything.
Return(t) == /\ pc[t] = "return"
             /\ Goto(t, "run")
             /\ owed' = [owed EXCEPT ![t] = "none"]
             /\ UNCHANGED <<flag, pipe, bytes, waker, watch, result>>

Waker(w) == Exchange(w) \/ WriteByte(w)

Waiter(t) == \/ EnsurePipe(t) \/ CheckFlag(t) \/ DontSleep(t) \/ BeginSelect(t)
             \/ PipeReadable(t) \/ SocketReady(t) \/ TimesOut(t) \/ Interrupted(t)
             \/ CheckFlagAgain(t) \/ ClearFlag(t) \/ ReadBytes(t) \/ ReadNothing(t) \/ Return(t)

WaitNext == (\E w \in Wakers : Waker(w)) \/ (\E t \in Waiters : Waiter(t))

\* A running thread runs on and the host waits again after each return; nothing
\* makes a socket or a timeout end a select().
WaitFairness == /\ \A w \in Wakers : WF_waitVars(WriteByte(w))
                /\ \A t \in Waiters :
                      /\ WF_waitVars(EnsurePipe(t) \/ CheckFlag(t))
                      /\ WF_waitVars(DontSleep(t) \/ BeginSelect(t))
                      /\ WF_waitVars(PipeReadable(t))
                      /\ WF_waitVars(CheckFlagAgain(t) \/ ClearFlag(t))
                      /\ WF_waitVars(ReadBytes(t) \/ ReadNothing(t) \/ Return(t))

WaitSpec == WaitInit /\ [][WaitNext]_waitVars /\ WaitFairness

-------------------------------------------------------------------------------
(* Properties.                                                              *)

\* No thread is asleep on the wake pipe with a wake owed to it, unless the byte
\* that ends its sleep is in the pipe or about to be written.
NoLostWake == \A t \in Waiters :
                 pc[t] = "select" /\ watch[t] /\ owed[t] # "none"
                    => bytes > 0 \/ \E w \in Wakers : waker[w] = "won"

\* wakeNetWait ends the wait it finds, or the next one, without a timeout.
WakeAnswered == \A t \in Waiters :
                   owed[t] # "none" /\ pipe = "ok" ~> owed[t] = "none"

\* api.h:158-160: the call blocks "until ... wakeNetWait() is called", and is not
\* left blocked by another thread that answers the same wake.  It is, with two
\* waiters: no run checks this, the README says how to see it.
WakesEveryWaiter == \A t \in Waiters :
                       pc[t] = "select" /\ watch[t] /\ owed[t] = "asleep"
                          => bytes > 0 \/ \E w \in Wakers : waker[w] = "won"
===============================================================================
