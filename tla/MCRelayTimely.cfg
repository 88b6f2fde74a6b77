\* Two deliveries compete for one slot; leases in use are renewed in time.
SPECIFICATION TimelySpec
CONSTANTS
  NULL = NULL
  Delivery = {d1, d2}
  Destination = {x}
  Home = x
  Worker = {w1, w2}
  Version = {v1}
  Status = status
  Outcomes = {"TimedOut"}
  LeaseDuration = 2
  RenewInterval = 1
  ClaimBatchSize = 2
  RetryDelays <- MCRetryDelays
  ClockSkew = 0
  Completions <- MCNoCompletions
  MaxNow = 3
  MaxGeneration = 2
  MaxOrdinal = 2
  QueueCapacity = 1
  AdmissionLimit = 1
  ActiveLimit = 1
  AttemptLimit = 1
  MaxAttempts = 2
  Disruptions = {"crash"}
INVARIANTS
  AttemptsUnderClaim
  NoOrphanClaims
SYMMETRY Symmetric
CHECK_DEADLOCK FALSE
