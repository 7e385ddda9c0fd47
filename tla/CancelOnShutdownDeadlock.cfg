SPECIFICATION Spec
CONSTANTS
  Clients = {c1}
  Futures = {f1}
INVARIANT
  NoDeadlock
\* The question is who waits for whom, not whether clients call again.
CHECK_DEADLOCK FALSE
