\* One call without retries: what it may raise.
SPECIFICATION Spec
CONSTANTS
  Second = 10
  backoff_factor = 5
  Calls = {c1}
  RetryBudgets = {0}
  retry_on_status = {429, 503}
  FailureStatuses = {404, 429, 503}
  RetryAfters <- LongHeader
INVARIANTS
  EveryErrorIsANetskopeError
