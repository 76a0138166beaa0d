SPECIFICATION RunSpec
CONSTANTS
  c1 = c1
  None = None
  Players = {a}
  Server = s
  Guests = {a, b}
  MaxSent = 2
  Together = TRUE
  Coords = {c1, c2}
  NoChunk = NoChunk
  MaxInFlight = 0
  Views <- AnyView
  RegionOf <- OneRegion
  IngestBudget = 2
  IngestBatch = 1
  TimeBudget = FALSE
  Persist = TRUE
  Faults = {"crash", "torn", "open"}
  MaxRev = 3
  MaxPipeline = 2
  MaxClients = 2
  MaxRequests = 2
  MaxFrames = 2
INVARIANT TypesOK
INVARIANT EditsSurvive
INVARIANT RequestsAreExact
PROPERTY LinksHold
PROPERTY ThingsGetDone
CHECK_DEADLOCK FALSE
