SPECIFICATION ChainSpec
CONSTANTS
  Futures = {f1}
  Flat = {f1}
  Rescue = {f1}
INVARIANT
  NeverNested
\* A chain of which everything has settled stops.
CHECK_DEADLOCK FALSE
