SPECIFICATION Spec
CONSTANTS
  RetryModels <- NotScheduled
  ScheduledConfigs <- MCScheduledConfigs
  MaxReceiveCounts <- MCMaxReceiveCounts
  VisibilityTimeouts <- MCVisibilityTimeouts
  PoolSizes <- MCPoolSizes
  BatchSizes <- MCBatchSizes
  Limits <- MCLimits
  WaitTimes <- MCWaitTimes
  Modes <- MCModes
  Lists <- MCLists
  Timeouts <- MCTimeouts
  MaxOptions = 4
  MaxRunnerOptions = 2
  MaxUint = 3
  RetryCounts <- MCRetryCounts
  PingTimeouts <- MCPingTimeouts
  PingRetryLimits <- MCPingRetryLimits
  Plans <- MCPlans
  MaxConnOptions = 3
  MaxClientOptions = 2
INVARIANTS
  DLQExclusive
  RouteUsable
PROPERTY
  SetupEnds
