----------------------------- MODULE NetSocketMC ------------------------------
(* Two sockets of any kinds, a listener and the connection it accepts among  *)
(* them; one byte and one chunk or datagram each way, and a tick that can    *)
(* read the chunk and the FIN after it.                                      *)
EXTENDS NetSocket
===============================================================================
