SPECIFICATION FairSpec
CONSTANTS
  MaxSources = 2
  PerSource = 1
  JqlFilters = TRUE
  MaxClock = 1
  MaxFaults = 0
PROPERTIES CollectsAll
