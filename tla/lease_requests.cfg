SPECIFICATION Spec
CONSTANTS
  Requests = {r1, r2, r3, r4}
  Holders = {h1, h2}
  Inflight = 3
  Faults = {"store", "stop", "forget"}
  r1 = r1
  r2 = r2
  r3 = r3
  r4 = r4
  h1 = h1
  h2 = h2
SYMMETRY Symmetric
INVARIANTS
  TypeOK
  DistinctCounters
  SupersededRejected
  RewindHasCause
PROPERTIES
  CounterNeverRewinds
CHECK_DEADLOCK FALSE
