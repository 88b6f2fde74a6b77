\* Two deliveries, two workers, a clock that goes forth and back.
SPECIFICATION Spec
CONSTANTS
  NULL = NULL
  Delivery = {d1, d2}
  Destination = {x}
  Worker = {w1, w2}
  Status = status
  Outcomes <- MCOutcomes
  Completions <- MCCompletions
  LeaseDuration = 1
  ClaimBatchSize = 1
  RetryDelays <- MCRetryDelays
  MaxNow = 1
  MaxGeneration = 2
  MaxOrdinal = 2
INVARIANTS
  TypeOK
  MapsAgree
  ClaimsTraceMaps
PROPERTIES
  RefusalsStand
  ImplementsStore
SYMMETRY Symmetric
CHECK_DEADLOCK FALSE
