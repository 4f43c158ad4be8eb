------------------------------- MODULE PipeToMC -------------------------------
(* Two chunks: one in the sink's hands while the other waits in a queue.     *)
(* Each option concerns an exit of its own, but for the abort signal's, so   *)
(* none and all of them show both sides of every exit.                       *)
EXTENDS PipeTo

NoneOrAll == {{}, {"close", "abort", "cancel"}}
===============================================================================
