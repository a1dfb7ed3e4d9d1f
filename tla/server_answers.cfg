SPECIFICATION FairSpec
CONSTANTS
  Pages = {"a", "b", "c", "folder"}
  TopLevel = {"a", "b", "c"}
  Texts = {"hit", "more", "miss", "bare"}
  Bare = {"bare"}
  Matching = {"hit", "more"}
  Containing = {"hit", "bare"}
  Limit = 2
  SqlLimit = 3
  Wikis <- WikisMC
  Settings <- SettingsMC
  Faults = {"index"}
  None = None
  Calls = {c1, c2}
  Tools <- ToolsMC
  Known <- KnownMC
  Seats = {"default"}
  Policies <- PoliciesMC
  LeaseEnd = 1
  Chunk = 2
  MaxNow = 2
  MaxStarts = 2
  GateFaults = {"kill", "log"}
  SearchTool = "wiki_search"
  c1 = c1
  c2 = c2
INVARIANTS
  IndexTypeOK
  SearchShowsMatches
PROPERTIES
  Answered
CHECK_DEADLOCK FALSE
