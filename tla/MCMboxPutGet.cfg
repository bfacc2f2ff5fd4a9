SPECIFICATION Spec
CONSTANTS
  MaxHw = 2
  MaxSw = 2
  MaxIterations = 2
  MaxSize = 2
  ArgLimit = 3
  WidePointers = FALSE
  Configurations <- MeasuredConfigurations
INVARIANTS
  IterationsLeaveNothing
  CommandsAccountedFor
PROPERTY Terminates
CHECK_DEADLOCK FALSE
