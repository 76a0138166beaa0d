SPECIFICATION Spec
CONSTANTS
  Conns = {1, 2}
  Strays = {}
  Account <- SameAccount
  Outcomes = {"verified"}
  VerdictTimes = {"later"}
  MaxPlayers = 2
  MaxChunks = 0
  AssetBudget = 1
  PackChanges = FALSE
PROPERTY KickLeavesNewcomer
