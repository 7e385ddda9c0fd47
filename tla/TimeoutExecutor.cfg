SPECIFICATION FairSpec
CONSTANTS
  Futures = {f1, f2}
  Flat = {f1}
  Rescue = {f2}
  Timeouts = {1}
  Foreign = {f2}
  Forever = Forever
INVARIANTS
  TypeOK
  ResolveFindsDelegate
  NoOversleep
  JobsAreExact
  OnlyCancelledAreLost
PROPERTIES
  CancelledIsNotMapped
  OverdueIsTried
\* An executor that was shut down, with nothing left to do, stops.
CHECK_DEADLOCK FALSE
