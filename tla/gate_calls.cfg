SPECIFICATION Spec
CONSTANTS
  Calls = {c1, c2, c3}
  Tools <- ToolsMC
  Known <- KnownMC
  Seats = {"guest", "late"}
  Policies <- PoliciesMC
  LeaseEnd = 2
  Chunk = 2
  MaxNow = 3
  MaxStarts = 2
  Faults = {"kill"}
  c1 = c1
  c2 = c2
  c3 = c3
INVARIANTS
  TypeOK
  BoundedOverrun
  Accounted
  ResultIsMetered
PROPERTIES
  SeatNeverWidens
CHECK_DEADLOCK FALSE
