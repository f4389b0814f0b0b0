\* A client that is told to retry no status at all.
SPECIFICATION Spec
CONSTANTS
  Hosts = {"prod", "staging"}
  Addresses = {"192.0.2.1"}
  Files = {"corp.pem"}
  DefaultStatuses = {429, 503}
  Calls = {"listing", "get"}
  Pages <- ThePages
  Arguments <- NoStatuses
  Environments <- TheEnvironments
  Statuses = {404, 429, 503}
INVARIANT OnlyTheseTriggerRetries
CHECK_DEADLOCK FALSE
