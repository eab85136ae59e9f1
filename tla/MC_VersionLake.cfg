SPECIFICATION FairSpec
CONSTANTS
  c1 = c1
  c2 = c2
  Chunks = {c1, c2}
  Versions <- AllVersions
  MaxEdits = 2
  MaxFaults = 1
  MaxOps = 2
  Crashes = TRUE
  StoreErrors = TRUE
  Rollbacks = TRUE
  Recreates = TRUE
INVARIANTS IndexMatchesStore HistoryReplays
PROPERTIES CatchesUp
CHECK_DEADLOCK FALSE
