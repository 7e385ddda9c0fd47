---------------------------- MODULE PollExecutorMC ----------------------------
(* Small instances of PollExecutor for TLC. *)
EXTENDS PollExecutor
==============================================================================
