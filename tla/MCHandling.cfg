SPECIFICATION FairSpec
CONSTANTS
  w1 = w1
  w2 = w2
  r1 = r1
  r2 = r2
  N = 2
  Policy = 2
  Workers <- MCWorkers
  Routes <- MCRoutes
  Configs <- MCConfigs
INVARIANTS
  ObserversTruthful
  RecoveryShields
  DLQSignals
  DLQExplained
PROPERTY
  Resolved
