----------------------------- MODULE ChildPipeMC ------------------------------
(* The instance for TLC: a pipe and a buffer of two bytes over which the     *)
(* child sends four, so that both fill.                                      *)
EXTENDS ChildPipe
===============================================================================
