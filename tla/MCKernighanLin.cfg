SPECIFICATION KLSpec
CONSTANTS
  N = 4
  UnitLists <- MCUnitLists
  ComOperations <- MCComOperations
  DeviceLists <- MCMixed
INVARIANTS
  PairExists
  CostDifferencesCurrent
  LocalOptimum
PROPERTIES
  ImprovesBalanced
  KLImplementsMethod
CHECK_DEADLOCK FALSE
