\* Two concurrent calls of any kind: what they do to the server and report.
SPECIFICATION Spec
CONSTANTS
  Second = 10
  backoff_factor = 5
  Calls = {c1, c2}
  RetryBudgets = {0, 1}
  retry_on_status = {429, 503}
  FailureStatuses = {404, 429, 503}
  RetryAfters <- LongHeader
INVARIANTS
  TypeOK
  OkMeansCarriedOut
  BoundedDuplication
  CertainResultIsExact
  NoRetriesIsAtMostOnce
PROPERTIES
  ResultIsFinal
