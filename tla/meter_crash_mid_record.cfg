SPECIFICATION Spec
CONSTANTS
  Leases <- LeasesMC
  Kinds <- KindsMC
  Rejected = {}
  Faults = {"kill_recording"}
  MaxCalls = 2
  MaxStarts = 2
INVARIANTS
  SeqUnique
CHECK_DEADLOCK FALSE
