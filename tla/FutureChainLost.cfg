SPECIFICATION ChainSpec
CONSTANTS
  Futures = {f1}
  Flat = {f1}
  Rescue = {}
INVARIANT
  FollowsReturnedFuture
\* A chain of which everything has settled stops.
CHECK_DEADLOCK FALSE
