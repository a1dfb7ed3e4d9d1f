SPECIFICATION FairSpec
CONSTANTS
  Leases <- LeasesMC
  Kinds <- KindsMC
  Rejected = {2}
  Faults = {"kill", "log", "late", "hang"}
  MaxCalls = 3
  MaxStarts = 3
INVARIANTS
  TypeOK
  SeqUnique
  ChainUnbroken
  AuditChain
  NothingLost
  UploadIsClaimed
  NoLostWakeup
PROPERTIES
  Promise
  Delivered
CHECK_DEADLOCK FALSE
