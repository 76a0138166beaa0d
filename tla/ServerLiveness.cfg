SPECIFICATION RunSpec
CONSTANTS
  v1 = v1
  k = k
  t = t
  Vbs = {v1, v2}
  Keeper = k
  Thread = t
  None = None
  Ports = {10, 11}
  MaxPids = 3
  MaxEdits = 0
  MaxCommands = 2
  p1 = p1
  c1 = c1
  c2 = c2
  Absent = Absent
  NoChunk = NoChunk
  CatchUp = 2
  Health = 2
  DyingToo = FALSE
  MaxIds = 2
  MaxTimers = 1
  MaxHandlers = 2
  MaxCalls = 2
INVARIANT OneServer
PROPERTY WantedChunkIsLoaded
PROPERTY Converges
PROPERTY RoundsEnd
PROPERTY CallsTheLiving
PROPERTY ChangesAreServed
CHECK_DEADLOCK FALSE
