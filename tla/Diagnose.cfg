\* Reports on up to two devices with at most one host each, by both clients.
SPECIFICATION Spec
CONSTANTS
  MaxDevices = 2
  MaxHosts = 1
  Results = {"ok", "NotFoundError", "TimeoutError"}
INVARIANTS
  TypeOK
  ReportIsComplete
PROPERTIES
  NothingRunsOn
  DiagnoseEnds
CHECK_DEADLOCK FALSE
