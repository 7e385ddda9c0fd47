SPECIFICATION Spec
CONSTANTS
  Futures = {f1, f2, f3}
  Counts = {1, None}
  Blocking = {FALSE, TRUE}
  MaxChanges = 1
  ForeignCancel = FALSE
  MayShutdown = FALSE
  None = None
SYMMETRY FutureSymmetry
INVARIANTS
  TypeOK
  CountIsExact
  ResolveFindsDelegate
  NoOversleep
  PendingIsAccountedFor
PROPERTIES
  NeverOverLimit
  KeepsPromise
\* An executor nobody calls stays idle.
CHECK_DEADLOCK FALSE
