\* One delivery, two processes and every disruption, for ever.
SPECIFICATION ProgressSpec
CONSTANTS
  NULL = NULL
  Delivery = {d1}
  Destination = {x}
  Home = x
  Worker = {w1, w2}
  Version = {v1}
  Status = status
  Outcomes <- MCOutcomes
  LeaseDuration = 2
  RenewInterval = 1
  ClaimBatchSize = 1
  RetryDelays <- MCRetryDelays
  ClockSkew = 0
  Completions <- MCNoCompletions
  MaxNow = 0
  MaxGeneration = 2
  MaxOrdinal = 4
  QueueCapacity = 1
  AdmissionLimit = 1
  ActiveLimit = 1
  AttemptLimit = 1
  MaxAttempts = 2
  Disruptions = {"crash", "database", "interrupt", "operator"}
PROPERTIES
  EveryClaimMovesOn
  EveryJobEnds
