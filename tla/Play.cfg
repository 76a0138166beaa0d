SPECIFICATION RunSpec
CONSTANTS
  Blocks = {a}
  Keep = Empty
  None = None
  Torn = Torn
  MaxSize = 2
  MaxVariants = 2
  MaxPushes = 2
  Air = Air
  Absent = Absent
  Positions = {s1, s2}
  Stones = {stone}
  CountSize = 4
  MaxDamage = 2
  Settings = {{"edit", "punch"}, {"script", "leave", "punch"}}
  MaxEdits = 1
  MaxRev = 3
  MaxEvents = 2
  Players = {s1, s2}
  Heals = {2}
  MaxHealth = 2
  MaxHunger = 1
  MaxStack = 2
  MaxActs = 3
  MaxDrops = 2
INVARIANT TypesOK
INVARIANT UndoIsExact
INVARIANT ViewSettles
INVARIANT ItemsConserved
INVARIANT LoginsFollow
CHECK_DEADLOCK FALSE
