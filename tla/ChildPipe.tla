------------------------------ MODULE ChildPipe -------------------------------
(***************************************************************************)
(* A child spawned with stdio: 'pipe'                                      *)
(* (src/src/api/child_process_spawn.cpp, child_process_internal.h,         *)
(* src/src/api/js/child_process.js), on POSIX.                             *)
(*                                                                         *)
(* Per stream, a reader thread (pipeReader) moves bytes from the kernel    *)
(* pipe into a PipeBuf and waits on its condition variable while that is   *)
(* full; the JS thread polls (_pollOnce): it takes both buffers, asks for  *)
(* the exit status, runs the listeners, and tears the readers down         *)
(* (stopReaders) once the child is done.                                   *)
(*                                                                         *)
(* Bytes are counted, not named.  The child and a grandchild that may have *)
(* inherited its write ends are the environment.  Time is one fact:        *)
(* `quiet`, that EOF_GRACE_MS went by since the grace clock was restarted. *)
(***************************************************************************)
EXTENDS Naturals

CONSTANTS HighWater,      \* PipeBuf::highWater
          PipeSize,       \* capacity of a kernel pipe
          MaxOut, MaxErr  \* bounds: bytes written to stdout, to stderr

ASSUME SizesAssumption == /\ HighWater \in Nat \ {0}
                          /\ PipeSize \in Nat \ {0}
                          /\ MaxOut \in Nat /\ MaxErr \in Nat

VARIABLES child,      \* the child process: running, a zombie, or reaped
          grand,      \* a grandchild holds both write ends
          written,    \* bytes written to each stream so far
          kernel,     \* bytes in each kernel pipe
          atExit,     \* history: `written` when the child exited
          reader,     \* where each reader thread is in pipeReader
          chunk,      \* bytes a reader may read, then bytes it has read
          buf,        \* size of each PipeBuf's data
          eof,        \* each PipeBuf's eof
          closing,    \* ChildHandle::closing
          js,         \* where the JS thread is
          seenEof,    \* _outEof and _errEof
          gotData,    \* this poll took bytes
          exited,     \* _exited: 'exit' has been emitted
          quiet,      \* EOF_GRACE_MS went by since _exitAt
          outlasted,  \* history: the poll of the exit took no bytes, and its listeners
                      \* ran longer than EOF_GRACE_MS
          hostExit,   \* the process is exiting: the handle is destroyed, not closed
          delivered   \* history: bytes handed to each stream's 'data'

envVars == <<child, grand, written, kernel, atExit>>
pipeVars == <<reader, chunk, buf, eof, closing>>
jsVars == <<js, seenEof, gotData, exited, quiet, outlasted, hostExit, delivered>>
vars == <<envVars, pipeVars, jsVars>>

Stream == {"out", "err"}

MaxBytes == [out |-> MaxOut, err |-> MaxErr]

\* A count of bytes of each stream.
Count == [Stream -> Nat]

TypeOK == /\ child \in {"running", "zombie", "reaped"}
          /\ grand \in BOOLEAN
          /\ written \in Count
          /\ kernel \in [Stream -> 0 .. PipeSize]
          /\ atExit \in Count
          /\ reader \in [Stream -> {"check", "poll", "lock", "full", "waiting", "read",
                                    "append", "end", "done"}]
          /\ chunk \in [Stream -> 0 .. HighWater]
          /\ buf \in [Stream -> Nat]
          /\ eof \in [Stream -> BOOLEAN]
          /\ closing \in BOOLEAN
          /\ js \in {"idle", "take out", "take err", "poll", "listen", "decide", "store",
                     "notify out", "notify err", "join", "closed"}
          /\ seenEof \in [Stream -> BOOLEAN]
          /\ gotData \in BOOLEAN
          /\ exited \in BOOLEAN
          /\ quiet \in BOOLEAN
          /\ outlasted \in BOOLEAN
          /\ hostExit \in BOOLEAN
          /\ delivered \in Count

Init == /\ child = "running"
        /\ grand \in BOOLEAN
        /\ written = [s \in Stream |-> 0]
        /\ kernel = [s \in Stream |-> 0]
        /\ atExit = [s \in Stream |-> 0]
        /\ reader = [s \in Stream |-> "check"]
        /\ chunk = [s \in Stream |-> 0]
        /\ buf = [s \in Stream |-> 0]
        /\ eof = [s \in Stream |-> FALSE]
        /\ closing = FALSE
        /\ js = "idle"
        /\ seenEof = [s \in Stream |-> FALSE]
        /\ gotData = FALSE
        /\ exited = FALSE
        /\ quiet = FALSE
        /\ outlasted = FALSE
        /\ hostExit = FALSE
        /\ delivered = [s \in Stream |-> 0]

-------------------------------------------------------------------------------
(* The environment: the child, its grandchild and the kernel.               *)

WriteEndOpen == child = "running" \/ grand

\* One of the two writes a byte; a full pipe blocks it.
Write(s) == /\ WriteEndOpen
            /\ kernel[s] < PipeSize
            /\ written[s] < MaxBytes[s]
            /\ written' = [written EXCEPT ![s] = @ + 1]
            /\ kernel' = [kernel EXCEPT ![s] = @ + 1]
            /\ UNCHANGED <<child, grand, atExit, pipeVars, jsVars>>

ChildExits == /\ child = "running"
              /\ child' = "zombie"
              /\ atExit' = written
              /\ UNCHANGED <<grand, written, kernel, pipeVars, jsVars>>

GrandchildExits == /\ grand
                   /\ grand' = FALSE
                   /\ UNCHANGED <<child, written, kernel, atExit, pipeVars, jsVars>>

-------------------------------------------------------------------------------
(* pipeReader, for the stream s.                                            *)

ReaderGoto(s, where) == reader' = [reader EXCEPT ![s] = where]

\* Mutant: a reader that has no bytes to move does not look at closing.
CheckClosingNever(s) == /\ reader[s] = "check"
                        /\ ReaderGoto(s, "poll")
                        /\ UNCHANGED <<envVars, chunk, buf, eof, closing, jsVars>>

CheckClosing(s) == /\ reader[s] = "check"
                   /\ ReaderGoto(s, IF closing THEN "end" ELSE "poll")
                   /\ UNCHANGED <<envVars, chunk, buf, eof, closing, jsVars>>

\* poll() reports bytes or the closing of every write end, or times out.
Poll(s) == /\ reader[s] = "poll"
           /\ ReaderGoto(s, IF kernel[s] > 0 \/ ~WriteEndOpen THEN "lock" ELSE "check")
           /\ UNCHANGED <<envVars, chunk, buf, eof, closing, jsVars>>

\* Under the mutex, the wait's predicate: room, or closing.  False, the thread
\* still holds the mutex and is about to wait.
EvaluatePredicate(s) ==
  /\ reader[s] = "lock"
  /\ IF closing THEN ReaderGoto(s, "end") /\ UNCHANGED chunk
     ELSE IF buf[s] < HighWater
          THEN ReaderGoto(s, "read") /\ chunk' = [chunk EXCEPT ![s] = HighWater - buf[s]]
          ELSE ReaderGoto(s, "full") /\ UNCHANGED chunk
  /\ UNCHANGED <<envVars, buf, eof, closing, jsVars>>

\* The wait proper: it gives the mutex up and sleeps until a notify.
Wait(s) == /\ reader[s] = "full"
           /\ ReaderGoto(s, "waiting")
           /\ UNCHANGED <<envVars, chunk, buf, eof, closing, jsVars>>

\* read(), no more than the room seen; with nothing left and no writer, EOF.
Read(s) == /\ reader[s] = "read"
           /\ \/ /\ kernel[s] > 0
                 /\ LET got == IF kernel[s] < chunk[s] THEN kernel[s] ELSE chunk[s]
                    IN  /\ kernel' = [kernel EXCEPT ![s] = @ - got]
                        /\ chunk' = [chunk EXCEPT ![s] = got]
                 /\ ReaderGoto(s, "append")
              \/ /\ kernel[s] = 0
                 /\ ReaderGoto(s, "end")
                 /\ UNCHANGED <<kernel, chunk>>
           /\ UNCHANGED <<child, grand, written, atExit, buf, eof, closing, jsVars>>

AppendChunk(s) == /\ reader[s] = "append"
                  /\ buf' = [buf EXCEPT ![s] = @ + chunk[s]]
                  /\ chunk' = [chunk EXCEPT ![s] = 0]
                  /\ ReaderGoto(s, "check")
                  /\ UNCHANGED <<envVars, eof, closing, jsVars>>

SetEof(s) == /\ reader[s] = "end"
             /\ eof' = [eof EXCEPT ![s] = TRUE]
             /\ ReaderGoto(s, "done")
             /\ UNCHANGED <<envVars, chunk, buf, closing, jsVars>>

Reader(s) == \/ CheckClosing(s) \/ Poll(s) \/ EvaluatePredicate(s) \/ Wait(s)
             \/ Read(s) \/ AppendChunk(s) \/ SetEof(s)

\* notify_all: whoever waits goes on to evaluate its predicate again.
Notify(s) == IF reader[s] = "waiting" THEN ReaderGoto(s, "lock") ELSE UNCHANGED reader

-------------------------------------------------------------------------------
(* The JS thread.                                                           *)

\* The poll timer fires: _pollOnce.
BeginPoll == /\ js = "idle"
             /\ js' = "take out"
             /\ gotData' = FALSE
             /\ UNCHANGED <<envVars, pipeVars, seenEof, exited, quiet, outlasted, hostExit,
                            delivered>>

\* Mutant: the reader is not told that there is room.
TakeSilently(s, next) == /\ reader[s] # "full"
                         /\ buf' = [buf EXCEPT ![s] = 0]
                         /\ seenEof' = [seenEof EXCEPT ![s] = eof[s]]
                         /\ gotData' = (gotData \/ buf[s] > 0)
                         /\ delivered' = [delivered EXCEPT ![s] = @ + buf[s]]
                         /\ js' = next
                         /\ UNCHANGED <<envVars, reader, chunk, eof, closing, exited, quiet,
                                        outlasted, hostExit>>

\* childRead, one stream: swaps the data out and reads eof under the mutex, which
\* a reader about to wait holds, and notifies if there was data.
Take(s, next) == /\ reader[s] # "full"
                 /\ buf' = [buf EXCEPT ![s] = 0]
                 /\ seenEof' = [seenEof EXCEPT ![s] = eof[s]]
                 /\ gotData' = (gotData \/ buf[s] > 0)
                 /\ delivered' = [delivered EXCEPT ![s] = @ + buf[s]]
                 /\ IF buf[s] > 0 THEN Notify(s) ELSE UNCHANGED reader
                 /\ js' = next
                 /\ UNCHANGED <<envVars, chunk, eof, closing, exited, quiet, outlasted, hostExit>>

TakeOut == js = "take out" /\ Take("out", "take err")
TakeErr == js = "take err" /\ Take("err", "poll")

\* childPoll: waitpid without waiting; a first status restarts the grace clock.
AskExit == /\ js = "poll"
           /\ IF child = "zombie"
              THEN child' = "reaped" /\ exited' = TRUE /\ quiet' = FALSE /\ js' = "listen"
              ELSE js' = "decide" /\ UNCHANGED <<child, exited, quiet>>
           /\ UNCHANGED <<grand, written, kernel, atExit, pipeVars, seenEof, gotData,
                          outlasted, hostExit, delivered>>

\* EOF_GRACE_MS is long: by its end the readers have moved what they could.
ReadersSettled == \A s \in Stream : \/ reader[s] = "waiting"
                                    \/ kernel[s] = 0 /\ reader[s] \in {"check", "poll", "done"}

\* The 'exit' listeners, which may take longer than the grace.
RunExitListeners == /\ js = "listen"
                    /\ quiet' \in {FALSE} \union (IF ReadersSettled THEN {TRUE} ELSE {})
                    /\ outlasted' = (quiet' /\ ~gotData)
                    /\ js' = "decide"
                    /\ UNCHANGED <<envVars, pipeVars, seenEof, gotData, exited, hostExit,
                                   delivered>>

\* Mutant: an exited child is done as soon as a poll brings no bytes.
DecideAtOnce == /\ js = "decide"
                /\ quiet' = (quiet /\ ~gotData)
                /\ js' = IF exited /\ ((\A s \in Stream : seenEof[s]) \/ ~gotData)
                         THEN "store" ELSE "idle"
                /\ UNCHANGED <<envVars, pipeVars, seenEof, gotData, exited, outlasted, hostExit,
                               delivered>>

\* Bytes restart the clock; the child is done when both streams are at EOF or the
\* grace is over, and polled again otherwise.
Decide == /\ js = "decide"
          /\ quiet' = (quiet /\ ~gotData)
          /\ js' = IF exited /\ ((\A s \in Stream : seenEof[s]) \/ quiet')
                   THEN "store" ELSE "idle"
          /\ UNCHANGED <<envVars, pipeVars, seenEof, gotData, exited, outlasted, hostExit,
                         delivered>>

\* Between two polls the grace may run out.  It is many polls long, so there is
\* nothing left to take either.
GracePasses == /\ js = "idle"
               /\ exited /\ ~quiet
               /\ ReadersSettled
               /\ \A s \in Stream : /\ buf[s] = 0
                                    /\ WriteEndOpen \/ eof[s] \/ reader[s] = "waiting"
               /\ quiet' = TRUE
               /\ UNCHANGED <<envVars, pipeVars, js, seenEof, gotData, exited, outlasted,
                              hostExit, delivered>>

\* The process exits under a running child: g_children is destroyed.
HostExits == /\ js = "idle"
             /\ hostExit' = TRUE
             /\ js' = "store"
             /\ UNCHANGED <<envVars, pipeVars, seenEof, gotData, exited, quiet, outlasted,
                            delivered>>

\* stopReaders: closing is stored without the mutexes ...
StoreClosing == /\ js = "store"
                /\ closing' = TRUE
                /\ js' = "notify out"
                /\ UNCHANGED <<envVars, reader, chunk, buf, eof, seenEof, gotData, exited,
                               quiet, outlasted, hostExit, delivered>>

\* ... both condition variables are notified ...
NotifyOut == /\ js = "notify out"
             /\ Notify("out")
             /\ js' = "notify err"
             /\ UNCHANGED <<envVars, chunk, buf, eof, closing, seenEof, gotData, exited,
                            quiet, outlasted, hostExit, delivered>>

NotifyErr == /\ js = "notify err"
             /\ Notify("err")
             /\ js' = "join"
             /\ UNCHANGED <<envVars, chunk, buf, eof, closing, seenEof, gotData, exited,
                            quiet, outlasted, hostExit, delivered>>

\* ... and both threads are joined; then 'close' is emitted.
Join == /\ js = "join"
        /\ \A s \in Stream : reader[s] = "done"
        /\ js' = "closed"
        /\ UNCHANGED <<envVars, pipeVars, seenEof, gotData, exited, quiet, outlasted, hostExit,
                       delivered>>

PollOnce == BeginPoll \/ TakeOut \/ TakeErr \/ AskExit \/ RunExitListeners \/ Decide

StopReaders == StoreClosing \/ NotifyOut \/ NotifyErr \/ Join

Next == \/ \E s \in Stream : Write(s) \/ Reader(s)
        \/ ChildExits \/ GrandchildExits
        \/ PollOnce \/ GracePasses \/ HostExits \/ StopReaders

\* Threads run, the event loop polls, and a quiet pipe's grace runs out.  The
\* child and the grandchild promise nothing.
Fairness == /\ \A s \in Stream : WF_vars(Reader(s))
            /\ WF_vars(PollOnce)
            /\ WF_vars(GracePasses)
            /\ WF_vars(StopReaders)

Spec == Init /\ [][Next]_vars /\ Fairness

-------------------------------------------------------------------------------
(* Properties.                                                              *)

\* A read bounded by room seen under the mutex, and made after it was released,
\* never carries a buffer over its high-water mark (child_process.js:235-239).
BufferBounded == \A s \in Stream :
                    buf[s] + (IF reader[s] \in {"read", "append"} THEN chunk[s] ELSE 0)
                       <= HighWater

\* child_process.js:255-257: "every byte the child wrote has been delivered before
\* 'close'", whether EOF or the grace period ended the wait: but for a poll that took
\* nothing and whose 'exit' listeners outlasted the grace, which is judged after them.
\* That one costs a buffer and a pipe of the child's output at the most.
EveryByteBeforeClose ==
  js = "closed" /\ ~hostExit =>
    \A s \in Stream : /\ delivered[s] >= atExit[s] \/ outlasted
                      /\ delivered[s] + HighWater + PipeSize >= atExit[s]

\* Backpressure is always released: a reader waiting for room gets it from a later
\* poll, so a child blocked in write() goes on.
FullReaderResumes == \A s \in Stream :
                        reader[s] = "waiting" ~> reader[s] # "waiting" \/ closing

\* A reader that goes to sleep between the store of closing and its own notify has
\* missed both: the two are made without the mutex its predicate was evaluated under.
MissedNotify(s) == js = "join" /\ reader[s] = "waiting"

\* child_process_internal.h:77-79: "teardown is deterministic even when a surviving
\* grandchild holds a write end open": it is, but for a reader that missed the notify,
\* which the join then waits for.
TeardownEnds == js = "store" ~> js = "closed" \/ \E s \in Stream : MissedNotify(s)
===============================================================================
