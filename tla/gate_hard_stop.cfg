SPECIFICATION Spec
CONSTANTS
  Calls = {c1, c2}
  Tools <- ToolsMC
  Known <- KnownMC
  Seats = {"default"}
  Policies <- BudgetOnly
  LeaseEnd = 3
  Chunk = 2
  MaxNow = 1
  MaxStarts = 1
  Faults = {}
  c1 = c1
  c2 = c2
INVARIANTS
  HardStop
CHECK_DEADLOCK FALSE
