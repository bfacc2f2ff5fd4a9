SPECIFICATION Spec
CONSTANTS
  Capacity = 1
  Length = 2
  Functions <- SupportedFunctions
INVARIANTS
  WordsMatch
  CallDelivers
PROPERTY Terminates
CHECK_DEADLOCK FALSE
