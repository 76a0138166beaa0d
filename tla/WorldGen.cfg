\* Two workers and three coordinates: one coordinate for each worker and one queued.
SPECIFICATION RunSpec
CONSTANTS
  Workers = {w1, w2}
  Coords = {c1, c2, c3}
  None = None
  MaxCompleted = 4
INVARIANT TypesOK
INVARIANT WorkIsExact
INVARIANT LightMeets
INVARIANT StructuresAgree
PROPERTY ImplementsChunkGeneration
PROPERTY QueuedIsGenerated
CHECK_DEADLOCK FALSE
