SPECIFICATION Spec
CONSTANTS
  Requests = {r1, r2, r3, r4}
  Holders = {h1}
  Inflight = 2
  Faults = {}
  r1 = r1
  r2 = r2
  r3 = r3
  r4 = r4
  h1 = h1
INVARIANTS
  NoRegression
CHECK_DEADLOCK FALSE
