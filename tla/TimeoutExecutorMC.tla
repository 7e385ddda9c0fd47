--------------------------- MODULE TimeoutExecutorMC ---------------------------
(* Small instances of TimeoutExecutor for TLC. *)
EXTENDS TimeoutExecutor
==============================================================================
