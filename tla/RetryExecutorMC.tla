--------------------------- MODULE RetryExecutorMC ---------------------------
(* Small instances of RetryExecutor for TLC. *)
EXTENDS RetryExecutor, TLC

\* Futures are interchangeable: no action compares two of them.
FutureSymmetry == Permutations(Futures)
==============================================================================
