SPECIFICATION FairSpec
CONSTANTS
  R = 3
  NilRoutes <- Last
  FailRoutes <- FirstTwo
  Timeouts <- Either
  StuckRoutes <- Second
INVARIANTS
  FirstErrorReturned
  CleanReturn
PROPERTIES
  FailFastStops
  ShutdownReturns
  
