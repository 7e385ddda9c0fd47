SPECIFICATION FairSpec
CONSTANTS
  Futures = {f1, f2}
  Foreign = {f2}
  HasCancelFn = TRUE
INVARIANTS
  TypeOK
  DescriptorsArePending
  NoOversleep
PROPERTIES
  CancelIsAsked
  PolledFuturesSettle
