SPECIFICATION Spec
CONSTANTS
  NS = 3
  Struct <- Leaves
  NumThread = 4
  None = None
INVARIANT AllExecuted
