------------------------------ MODULE LossyQueue ------------------------------
(***************************************************************************)
(* What the ring of a file watcher promises the JavaScript thread          *)
(* (src/src/api/fs_watch.h:6-16): a first-in first-out queue that may drop *)
(* an event when it is short of room, but that remembers it did and says so*)
(* in the stream of events it hands out.                                   *)
(*                                                                         *)
(* The queue neither duplicates, invents nor reorders events; `missed` is  *)
(* the debt a drop leaves behind, and only a Report pays it.               *)
(***************************************************************************)
EXTENDS Sequences

CONSTANTS Event,          \* the events a producer may put
          OverflowMark    \* the synthetic event that stands for lost ones

VARIABLES queue,          \* events put and not yet handed out
          missed,         \* an event was dropped since the last Report
          received        \* everything handed out so far, oldest first

vars == <<queue, missed, received>>

Init == /\ queue = <<>>
        /\ missed = FALSE
        /\ received = <<>>

Put(e) == /\ queue' = Append(queue, e)
          /\ UNCHANGED <<missed, received>>

Drop == /\ missed' = TRUE
        /\ UNCHANGED <<queue, received>>

Get == /\ queue # <<>>
       /\ received' = Append(received, Head(queue))
       /\ queue' = Tail(queue)
       /\ UNCHANGED missed

Report == /\ missed
          /\ received' = Append(received, OverflowMark)
          /\ missed' = FALSE
          /\ UNCHANGED queue

Next == (\E e \in Event : Put(e)) \/ Drop \/ Get \/ Report

Spec == Init /\ [][Next]_vars
===============================================================================
