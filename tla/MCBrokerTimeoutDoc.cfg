SPECIFICATION FairSpec
CONSTANTS
  R = 3
  NilRoutes <- None
  FailRoutes <- None
  Timeouts <- Configured
  StuckRoutes <- None
INVARIANT
  TimeoutAfterCancel
