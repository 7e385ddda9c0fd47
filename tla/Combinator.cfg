SPECIFICATION FairSpec
CONSTANTS
  a = a
  b = b
  c = c
  Inputs = {a, b, c}
  N = 3
  Calls <- SmallCalls
  Own = {a}
INVARIANTS
  OutcomeIsJustified
  LosersAreAsked
PROPERTIES
  OutSettles
\* An operation whose inputs and output have ended stops.
CHECK_DEADLOCK FALSE
