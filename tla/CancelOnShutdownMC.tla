-------------------------- MODULE CancelOnShutdownMC --------------------------
(* Small instances of CancelOnShutdown for TLC. *)
EXTENDS CancelOnShutdown, TLC

\* Clients are interchangeable, and so are futures.
ClientAndFutureSymmetry == Permutations(Clients) \cup Permutations(Futures)
==============================================================================
