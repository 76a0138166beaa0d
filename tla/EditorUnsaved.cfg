SPECIFICATION Spec
CONSTANTS
  Blocks = {a}
  Keep = Keep
  None = None
  Torn = Torn
  MaxSize = 2
  MaxVariants = 2
  MaxPushes = 2
INVARIANT CleanIsSaved
CHECK_DEADLOCK FALSE
