SPECIFICATION ClusteringSpec
CONSTANTS
  N = 4
  UnitLists <- MCUnitLists
  ComOperations <- MCComOperations
  DeviceLists <- MCDeviceLists
INVARIANTS
  ClosenessCurrent
  CriticalPathCoversWork
PROPERTIES
  ClusteringImplementsMethod
CHECK_DEADLOCK FALSE
