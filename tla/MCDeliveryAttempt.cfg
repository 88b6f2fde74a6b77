SPECIFICATION Spec
CONSTANTS
  NULL = NULL
  Statuses <- MCStatuses
  RetryAfters <- MCRetryAfters
  Backoffs <- MCBackoffs
  Budgets <- MCBudgets
  ClockReadings <- MCClockReadings
INVARIANTS
  OneTruthTable
  SchemaAcceptsRecords
  OnlyClockStepBackRefuses
  RetriesRespectTheProvider
