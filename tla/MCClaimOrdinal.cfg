\* An operator reopens a dead letter between the snapshot and the locks of a statement.
SPECIFICATION StatementSpec
CONSTANTS
  NULL = NULL
  Delivery = {d1}
  Destination = {x}
  Worker = {w1, w2}
  Version = {v1}
  Status = status
  Outcomes <- MCOutcomes
  LeaseDuration = 1
  ClaimBatchSize = 1
  RetryDelays <- MCRetryDelays
  ClockSkew = 0
  Completions <- MCNoCompletions
  MaxNow = 1
  MaxGeneration = 3
  MaxOrdinal = 2
INVARIANTS
  HolderOrdinalIsFree
CHECK_DEADLOCK FALSE
