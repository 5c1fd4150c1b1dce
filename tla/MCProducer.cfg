SPECIFICATION Spec
CONSTANTS
  N = 3
  Sep = Sep
  Tokens <- MCTokens
  Attributes <- MCAttributes
  GroupID <- MCGroupID
  DedupID <- MCDedupID
  Configs <- MCConfigs
  SuffixRange <- MCSuffixRange
  MaxBatch = 2
  Callers <- MCCallers
  MaxCalls = 3
  MaxFaults = 1
INVARIANTS
  AtMostOnce
  OutcomeTruthful
