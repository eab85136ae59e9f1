SPECIFICATION FairSpec
CONSTANTS
  c1 = c1
  c2 = c2
  Chunks = {c1, c2}
  Versions <- NonEmptyVersions
  MaxEdits = 1
  MaxFaults = 1
  MaxOps = 0
  Crashes = TRUE
  StoreErrors = TRUE
  Rollbacks = FALSE
  Recreates = FALSE
PROPERTIES EventuallyIndexed
CHECK_DEADLOCK FALSE
