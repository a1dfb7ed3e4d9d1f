SPECIFICATION Spec
CONSTANTS
  Usage <- UsageMC
  Rules <- RulesMC
  Drafts <- DraftsMC
  Providers = {"manual", "dodo"}
  None = None
  MaxDrafts = 2
  MaxHandoffs = 1
INVARIANTS
  TypeOK
  LinesAccountForUsage
  BilledInOnePeriod
  PaidIsBilled
PROPERTIES
  RedraftKeepsUsage
CHECK_DEADLOCK FALSE
