SPECIFICATION FairSpec
CONSTANTS
  MaxSources = 2
  PerSource = 1
  JqlFilters = TRUE
  MaxClock = 2
  MaxFaults = 1
INVARIANTS CheckpointCovers RecordedIsOnDisk LockExcludes
PROPERTIES Converges
