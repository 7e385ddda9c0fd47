SPECIFICATION Spec
CONSTANTS
  Futures = {f1, f2}
  MaxAttempts = 2
  Sleeps = {1}
  MaxCancels = 2
  RetryResults = TRUE
  ForeignCancel = FALSE
  MayShutdown = FALSE
  NoJob = NoJob
  Nobody = Nobody
SYMMETRY FutureSymmetry
INVARIANTS
  TypeOK
  OneJobPerFuture
  CallbackFindsJob
  SettledMeansIdle
  OneAttemptAtATime
  NoOversleep
  PendingIsAccountedFor
PROPERTIES
  NoRetryAfterCancel
  KeepsPromise
\* An executor nobody calls stays idle: its submit thread waits for ever.
CHECK_DEADLOCK FALSE
