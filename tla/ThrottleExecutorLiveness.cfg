SPECIFICATION FairSpec
CONSTANTS
  Futures = {f1, f2}
  Counts = {0, 1}
  Blocking = {FALSE, TRUE}
  MaxChanges = 0
  ForeignCancel = TRUE
  MayShutdown = TRUE
  None = None
PROPERTIES
  FuturesSettle
  SubmitReturns
  ShutdownReturns
\* Nothing is left to do once the submit thread has exited.
CHECK_DEADLOCK FALSE
