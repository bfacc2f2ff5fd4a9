SPECIFICATION Spec
CONSTANTS
  Capacity = 1
  Length = 2
  Functions <- ReadTwiceFunctions
PROPERTY Terminates
CHECK_DEADLOCK FALSE
