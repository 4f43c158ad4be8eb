------------------------------ MODULE NetWaitMC -------------------------------
(* The instance for TLC: three wakers and one JS thread.                    *)
EXTENDS NetWait
===============================================================================
