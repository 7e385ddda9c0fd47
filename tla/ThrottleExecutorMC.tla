-------------------------- MODULE ThrottleExecutorMC --------------------------
(* Small instances of ThrottleExecutor for TLC. *)
EXTENDS ThrottleExecutor, TLC

\* Futures are interchangeable: no action compares two of them.
FutureSymmetry == Permutations(Futures)
==============================================================================
