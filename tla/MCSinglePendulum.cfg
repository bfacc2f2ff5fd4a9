SPECIFICATION Spec
CONSTANTS
  MaxThreads = 2
  MaxIterations = 2
  MaxInThread = 2
  Configurations <- CommandLines
INVARIANTS
  PointersIntact
  CalculatedAsAsked
  ResultsCurrent
PROPERTY Terminates
CHECK_DEADLOCK FALSE
