SPECIFICATION Spec
CONSTANTS
  Coords = {c1, c2}
  NoChunk = NoChunk
  MaxInFlight = 1
  Views <- MCViews
  RegionOf <- MCRegionOf
  IngestBudget = 1
  IngestBatch = 1
  TimeBudget = FALSE
  Persist = TRUE
  Faults = {}
  MaxRev = 2
  MaxPipeline = 3
INVARIANT NoAcceptedEditLost
