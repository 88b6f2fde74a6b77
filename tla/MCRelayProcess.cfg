\* Three calls over two destinations compete for one global permit, in either entry.
SPECIFICATION ProcessSpec
CONSTANTS
  NULL = NULL
  c1 = c1
  c2 = c2
  c3 = c3
  x = x
  y = y
  Call = {c1, c2, c3}
  Destination = {x, y}
  Home = x
  Target <- MCTarget
  DestinationLimit = 1
  GlobalLimit = 1
  MaxAttempts = 2
  MaxElapsed = 2
  AttemptTimeout = 2
  BaseDelay = 1
  MaxDelay = 1
  RetryAfters = {0, 1}
  RecordTime = 1
  AdmissionPerDestination = 2
  QueueCapacity = 2
INVARIANTS
  ProcessTypeOK
  PermitsAgree
  OverrunIsBounded
  AdmittedFindsPlace
  NobodyIsStuck
PROPERTIES
  NoneLetInWhileCut
SYMMETRY Symmetric
CHECK_DEADLOCK FALSE
