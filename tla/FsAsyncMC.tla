------------------------------ MODULE FsAsyncMC -------------------------------
(* Two JS threads, two pool threads, two calls of each thread and one write. *)
EXTENDS FsAsync
===============================================================================
