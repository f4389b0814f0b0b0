\* One call, more retries, every status and header: the loop itself.
SPECIFICATION Spec
CONSTANTS
  Second = 10
  backoff_factor = 10
  Calls = {c1}
  RetryBudgets <- UpToDefaultRetries
  retry_on_status = {429, 500, 502, 503, 504}
  FailureStatuses = {302, 400, 401, 403, 404, 409, 429, 500, 501, 502, 503, 504}
  RetryAfters <- AllHeaders
INVARIANTS
  TransientErrorsAreRetried
  RetryAfterHonoured
PROPERTIES
  CallReturns
  ImplementsAtLeastOnce
