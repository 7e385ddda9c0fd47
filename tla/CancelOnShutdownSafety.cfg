SPECIFICATION Spec
CONSTANTS
  Clients = {c1, c2}
  Futures = {f1, f2, f3}
SYMMETRY ClientAndFutureSymmetry
INVARIANTS
  TypeOK
  TrackedIsExact
  AllAreAskedToCancel
PROPERTY
  NoneAfterShutdown
\* submit() and shutdown() stop each other: see CancelOnShutdownDeadlock.cfg.
CHECK_DEADLOCK FALSE
