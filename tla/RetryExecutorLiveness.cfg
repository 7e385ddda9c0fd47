SPECIFICATION FairSpec
CONSTANTS
  Futures = {f1}
  MaxAttempts = 3
  Sleeps = {0, 1, 2}
  MaxCancels = 2
  RetryResults = FALSE
  ForeignCancel = TRUE
  MayShutdown = TRUE
  NoJob = NoJob
  Nobody = Nobody
PROPERTIES
  FuturesSettle
  ShutdownReturns
\* An executor nobody calls stays idle: its submit thread waits for ever.
CHECK_DEADLOCK FALSE
