SPECIFICATION Spec
CONSTANTS
  Holder = "h"
  Attestable <- AttestableMC
  Desks = {d1, d2}
  Tickets = {"t1"}
  MaxTokenAge = 2
  WarningWindow = 1
  MaxManualAge = 1
  Ttl = 1
  GraceSec = 1
  MaxDrift = 1
  MaxSlip = 1
  MaxTime = 4
  MaxRecords = 2
  None = None
SYMMETRY DesksSymmetry
CONSTRAINT OneLease
INVARIANTS
  TypeOK
  RunsAreAnchored
  WarnedIsCarried
