\* A client from its construction until it is closed, with two calls at work.
SPECIFICATION Spec
CONSTANTS
  Hosts = {"prod", "staging"}
  Addresses = {"192.0.2.1"}
  Files = {"corp.pem"}
  DefaultStatuses = {429, 503}
  Calls = {"listing", "get"}
  Pages <- ThePages
  Arguments <- TheArguments
  Environments <- TheEnvironments
  Statuses = {404, 429, 503}
INVARIANTS
  TypeOK
  RequestsGoWhereTheClientPoints
  ExplicitArgumentsDecide
  TrustIsAsTold
  RetriesWhatItIsTold
  NothingNewAfterClose
  OkMeansComplete
PROPERTY CallsReturn
CHECK_DEADLOCK FALSE
