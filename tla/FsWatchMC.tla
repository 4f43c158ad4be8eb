------------------------------ MODULE FsWatchMC -------------------------------
(* Two watchers whose rings hold one event each, two events a watcher: enough  *)
(* to drop, to be revoked between two drains, and to close one watcher in the  *)
(* listener of the other.                                                      *)
EXTENDS FsWatch
===============================================================================
