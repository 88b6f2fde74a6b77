\* A wall clock that steps back once ends the polling of a process for good.
SPECIFICATION RelaySpec
CONSTANTS
  NULL = NULL
  Delivery = {d1}
  Destination = {x}
  Home = x
  Worker = {w1, w2}
  Version = {v1}
  Status = status
  Outcomes <- MCOutcomes
  LeaseDuration = 2
  RenewInterval = 1
  ClaimBatchSize = 1
  RetryDelays <- MCRetryDelays
  ClockSkew = 0
  Completions <- MCNoCompletions
  MaxNow = 4
  MaxGeneration = 2
  MaxOrdinal = 3
  QueueCapacity = 1
  AdmissionLimit = 1
  ActiveLimit = 1
  AttemptLimit = 1
  MaxAttempts = 2
  Disruptions = {"clock"}
INVARIANTS
  NormalReconcilerPolls
CHECK_DEADLOCK FALSE
