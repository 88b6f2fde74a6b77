\* The fence also refuses the holder of a delivery that has just been finished.
SPECIFICATION RelaySpec
CONSTANTS
  NULL = NULL
  Delivery = {d1}
  Destination = {x}
  Home = x
  Worker = {w1, w2}
  Version = {v1}
  Status = status
  Outcomes <- MCOutcomes
  LeaseDuration = 2
  RenewInterval = 1
  ClaimBatchSize = 1
  RetryDelays <- MCRetryDelays
  ClockSkew = 0
  Completions <- MCNoCompletions
  MaxNow = 4
  MaxGeneration = 2
  MaxOrdinal = 3
  QueueCapacity = 1
  AdmissionLimit = 1
  ActiveLimit = 1
  AttemptLimit = 1
  MaxAttempts = 2
  Disruptions = {}
INVARIANTS
  RefusedMutationsAreStale
CHECK_DEADLOCK FALSE
