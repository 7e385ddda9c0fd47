----------------------------- MODULE CombinatorMC -----------------------------
(* Small instances of Combinator for TLC. *)
EXTENDS Combinator, TLC

CONSTANTS a, b, c

\* Three futures, and calls that name one of two twice, before the other or around it.
SmallCalls == {<<a, b, c>>, <<a, b, a>>, <<a, a, b>>}
==============================================================================
