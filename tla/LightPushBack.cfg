SPECIFICATION Spec
CONSTANTS
  Dim <- Wide
  Chunks <- Pair
  MaxLight = 5
  Landscapes <- Rock
  Spots <- Shaft
  Placed = {"air", "stone", "water"}
  MaxBatch = 2
  MaxEdits = 2
INVARIANT NothingToPushBack
CHECK_DEADLOCK FALSE
