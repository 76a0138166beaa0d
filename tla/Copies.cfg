SPECIFICATION RunSpec
CONSTANTS
  Cmds = {v1, v2}
  Releases = {1, 2}
  None = None
  Keep = 1
  MaxCommands = 2
  Files = {"f1", "f2", "f3"}
  Packs <- TwoPacks
  Cap = 2
  MaxChanges = 3
  Players = {p1}
  Coords = {"c1", "c2"}
  Views <- AnyView
  SendBudget = 1
  EarlyEdits = TRUE
  Editors = {p1, "mob"}
  Scripted = {"c1", "c2"}
  Neighbours <- OneColumn
  Absent = Absent
  MaxRev = 3
  MaxChannel = 3
INVARIANT TypesOK
INVARIANT OnlyVerified
INVARIANT PackIsWhole
INVARIANT MirrorsAreTrue
PROPERTY NeverHalfWritten
CHECK_DEADLOCK FALSE
