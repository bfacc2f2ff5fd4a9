SPECIFICATION AnnealingSpec
CONSTANTS
  N = 3
  iterationMax = 2
  FrozenAt = 2
  UnitLists <- MCUnitLists
  ComOperations <- MCComOperations
  DeviceLists <- MCDeviceLists
INVARIANTS
  CurrentCostFresh
  BestOfTemperatures
PROPERTIES
  AnnealingImplementsMethod
CHECK_DEADLOCK FALSE
