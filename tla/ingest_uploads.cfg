SPECIFICATION Spec
CONSTANTS
  Leases <- LeasesMC
  Uploads <- UploadsMC
  Stores = {"sqlite", "d1"}
  MaxUploads = 3
INVARIANTS
  TypeOK
  AcceptedIsBilled
  CalledOnceBilledOnce
PROPERTIES
  AppendOnly
CHECK_DEADLOCK FALSE
