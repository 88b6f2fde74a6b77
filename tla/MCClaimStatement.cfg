\* Two deliveries claimed in batches by statements that overlap, under a skewed worker clock.
\* Routes do not matter to a claim, so none is stored.
SPECIFICATION StatementSpec
CONSTANTS
  NULL = NULL
  Delivery = {d1, d2}
  Destination = {x}
  Worker = {w1, w2}
  Version = {}
  Status = status
  Outcomes <- MCOutcomes
  LeaseDuration = 1
  ClaimBatchSize = 2
  RetryDelays <- MCRetryDelays
  ClockSkew = 1
  Completions <- MCNoCompletions
  MaxNow = 1
  MaxGeneration = 2
  MaxOrdinal = 1
INVARIANTS
  OneLiveClaim
  OrdinalsContiguous
  DueAsRecorded
PROPERTIES
  TakeoverInTime
  KeepsToRepository
  ImplementsStore
SYMMETRY Symmetric
CHECK_DEADLOCK FALSE
