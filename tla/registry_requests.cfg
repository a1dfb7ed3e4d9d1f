SPECIFICATION FairSpec
CONSTANTS
  Bodies <- BodiesMC
  Snapshots <- SnapshotsMC
  Tables = {1, 2}
  Populations <- PopulationsMC
  MaxRequests = 3
  MaxStarts = 2
  None = None
INVARIANTS
  TypeOK
  SchemaFirst
  AcceptedKeepsOwner
  SyncedHoldsLatest
PROPERTIES
  Answered
CHECK_DEADLOCK FALSE
