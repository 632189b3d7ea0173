CONSTANTS
  None = None
  AddFails = FALSE
  FetchFails = FALSE
  MaxEdits = 2
  MaxKills = 2
  MaxLosses = 1
SPECIFICATION Spec
INVARIANT RuntimeKept
CHECK_DEADLOCK FALSE
