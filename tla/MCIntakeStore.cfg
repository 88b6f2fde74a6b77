\* Three requests over two keys and two submissions, in every order.
SPECIFICATION Spec
CONSTANTS
  NULL = NULL
  Request = {r1, r2, r3}
  IngestionKey = {k1, k2}
  Fingerprint = {f1, f2}
INVARIANTS
  AnswersNameOneDelivery
  KeyNeverWithoutAcceptance
PROPERTIES
  ImplementsAcceptOnce
  EveryCallEnds
CHECK_DEADLOCK FALSE
