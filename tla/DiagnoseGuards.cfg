\* A device that does not answer in time.
SPECIFICATION Spec
CONSTANTS
  MaxDevices = 1
  MaxHosts = 1
  Results = {"ok", "TimeoutError"}
INVARIANTS
  EverySubCallIsGuarded
CHECK_DEADLOCK FALSE
