SPECIFICATION Spec
CONSTANTS
  Leases <- LeasesMC
  Kinds <- KindsMC
  Rejected = {}
  Faults = {"kill", "kill_recording", "torn", "write", "log", "rollback"}
  MaxCalls = 3
  MaxStarts = 2
INVARIANTS
  NeverBilledTwice
CHECK_DEADLOCK FALSE
