\* One delivery, two workers: every order of claims, attempts and dead letters.
SPECIFICATION Spec
CONSTANTS
  NULL = NULL
  Delivery = {d1}
  Destination = {x}
  Worker = {w1, w2}
  Version = {v1}
  Status = status
  Outcomes <- MCOutcomes
  LeaseDuration = 1
  ClaimBatchSize = 1
  RetryDelays <- MCRetryDelays
  ClockSkew = 0
  Completions <- MCCompletions
  MaxNow = 3
  MaxGeneration = 3
  MaxOrdinal = 3
INVARIANTS
  TypeOK
  RowsKeepTheirChecks
  ClaimsTraceRows
  AttemptsInOrder
PROPERTIES
  FinalIsFinal
  FencedOutForGood
  ImplementsStore
SYMMETRY Symmetric
CHECK_DEADLOCK FALSE
