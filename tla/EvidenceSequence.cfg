SPECIFICATION Spec
CONSTANTS
  Window = 1
  PageSize = 4
  Target = "governance-bootstrap"
  Habits = {"any", "prompt"}
  Orders <- MCOrders
  MaxTime = 4
  MaxHeads = 2
  MaxForeign = 2
  Retries = TRUE
  Nothing = Nothing
INVARIANTS WindowHeld OnlyTheCandidateWasMerged
CONSTRAINT Hopeful
CHECK_DEADLOCK FALSE
