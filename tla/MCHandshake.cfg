SPECIFICATION Spec
CONSTANTS
  Designs <- MCDesigns
  Words = 2
  Calls = 3
INVARIANTS
  WordsFresh
  CalculationDrained
PROPERTIES
  CallsAnswered
CHECK_DEADLOCK FALSE
