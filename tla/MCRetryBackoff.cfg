SPECIFICATION BackoffSpec
CONSTANTS
  Attempts <- MCAttempts
  Bases <- MCBases
  MaxDelays <- MCMaxDelays
  Clocks <- MCClocks
INVARIANTS
  Bounded
  MatchesReference
  
