SPECIFICATION FairSpec
CONSTANTS
  h1 = h1
  h2 = h2
  h3 = h3
  s1 = s1
  s2 = s2
  Handles <- MCHandles
  Senders <- MCSenders
  Capacity = 2
  MaxBatch = 2
INVARIANTS
  TypeOK
  
  DrainedOnExit
  FailuresReported
PROPERTIES
  EventuallyRequested
  Refinement
