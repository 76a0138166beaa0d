SPECIFICATION FairSpec
CONSTANTS
  c1 = c1
  c2 = c2
  p1 = p1
  Players = {p1}
  Coords = {c1, c2}
  Views <- AnyView
  Absent = Absent
  SendBudget = 1
  EarlyEdits = FALSE
  Editors = {p1}
  Scripted = {}
  Neighbours <- OneColumn
  MaxRev = 1
  MaxChannel = 3
PROPERTY Converges
