SPECIFICATION RunSpec
CONSTANTS
  Conns = {1, 2, 3}
  Strays = {2}
  Account <- ParityAccount
  MaxPlayers = 1
  Outcomes = {"verified", "refused", "unavailable"}
  VerdictTimes = {"inline", "later"}
  MaxChunks = 2
  AssetBudget = 1
  PackChanges = TRUE
INVARIANT SessionsAreUnique
INVARIANT RosterIsTrue
INVARIANT HonestNeverRejected
