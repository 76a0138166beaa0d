SPECIFICATION RunSpec
CONSTANTS
  Cells = {1, 2, 3}
  Blocks = {10, 11, 12, 13, 14}
  TickBudget = 3
  Expected = 2
  MaxAttempts = 2
  Screens = {"bag", "map", "lost"}
  Defined = {"bag", "map"}
  MaxOpens = 2
  MeshCoords <- Corner
  Workers = 1
  SubmitBudget = 1
  UploadBudget = 1
  MaxLoaded = 2
  MaxChanges = 2
  Entities = {e1}
  kMaxCmds = 2
  MaxSeq = 3
  PromptAfter = 3
  Prompts = TRUE
  MaxNonce = 3
  MaxKeys = 2
  MaxFaults = 2
  None = None
INVARIANT TypesOK
INVARIANT SessionsLive
INVARIANT ScreensHold
INVARIANT MeshIsCurrent
INVARIANT SignInHolds
INVARIANT InputsCountOnce
PROPERTY StoreIsAnArray
PROPERTY CaptureIsKept
PROPERTY PlayerConverges
PROPERTY ClientGetsThere
CHECK_DEADLOCK FALSE
