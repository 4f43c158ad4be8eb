---------------------------- MODULE FsEventRingMC -----------------------------
(* Instance for TLC: a ring of three slots (two usable) and five events, so *)
(* that both indices wrap and the ring is found full more than once.        *)
EXTENDS FsEventRing
===============================================================================
