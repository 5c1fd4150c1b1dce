SPECIFICATION FairSpec
CONSTANTS
  w1 = w1
  w2 = w2
  g1 = g1
  g2 = g2
  k1 = k1
  k2 = k2
  N = 3
  Groups <- MCGroups
  Keys <- MCKeys
  KeyOf <- MCKeyOf
  Workers <- MCWorkers
  WorkerOf <- Apart
  MaxBatch = 2
  MaxMessages = 3
  Settings <- RunSettings
INVARIANTS
  NoLoss
  NoSendOnClosed
  CleanReturn
  HandledAreDeleted
PROPERTIES
  Refinement
  AllDeleted
  ShutdownCompletes
