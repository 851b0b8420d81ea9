SPECIFICATION FairSpec
CONSTANTS
  FetchLimit = 1
  LiveCap = 2
  Window = 2
  Late = {3}
  Noise = {2}
  MaxEntries = 3
  MaxFetches = 2
  MaxFaults = 1
  MaxStale = 1
  MaxResends = 1
INVARIANTS
  FilterDropsOnlyHeld
  InSyncShowsNewest
PROPERTIES
  CatchesUp
CHECK_DEADLOCK FALSE
