SPECIFICATION FairSpec
CONSTANTS
  VT = 14
  Margin = 10
  MaxVis = 25
  Limit = 1
  Models <- Either
  Delays <- MCDelays
  MaxBackoffs = 2
  MayCancel = TRUE
  MaxFaults = 1

  
PROPERTIES
  BackoffIsLast
  VMReturns
  
