SPECIFICATION Spec
CONSTANTS
  Futures = {f1}
  MaxAttempts = 2
  Sleeps = {1}
  MaxCancels = 2
  RetryResults = FALSE
  ForeignCancel = FALSE
  MayShutdown = FALSE
  NoJob = NoJob
  Nobody = Nobody
INVARIANT
  CallbackTakesJobAway
\* An executor nobody calls stays idle: its submit thread waits for ever.
CHECK_DEADLOCK FALSE
