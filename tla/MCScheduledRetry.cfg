SPECIFICATION FairSpec
CONSTANTS
  N = 1
  MaxRetryCount = 1
  MaxInt = 7
  Starts <- MCStarts
  SentAttributes <- TwoAttributes
  MaxAttributes = 3
  MaxCopies = 12
INVARIANTS
  NoLoss
  RetryBudget
  
  MetricsTruthful
PROPERTY
  Resolved
