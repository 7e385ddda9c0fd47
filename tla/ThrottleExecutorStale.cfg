SPECIFICATION FairSpec
CONSTANTS
  Futures = {f1}
  Counts = {0, 1}
  Blocking = {TRUE}
  MaxChanges = 1
  ForeignCancel = FALSE
  MayShutdown = FALSE
  None = None
PROPERTY
  BlockingFollowsCount
\* An executor nobody calls stays idle.
CHECK_DEADLOCK FALSE
