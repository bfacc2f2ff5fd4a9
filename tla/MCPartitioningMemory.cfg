SPECIFICATION Spec
CONSTANTS
  Kinds = {"copy", "calc"}
  Length = 2
  Functions <- MCFunctionSet
  Partitions = {0, 1}
  MboxCapacity = 1
  Earlier <- MCEarlier
INVARIANTS
  LoadsSeeSequentialValue
