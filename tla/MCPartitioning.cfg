SPECIFICATION Spec
CONSTANTS
  Kinds = {"copy", "calc", "call", "sum", "if", "nestedif", "cond", "offset", "status", "statusoffset"}
  Length = 2
  Functions <- MCFunctionSet
  Partitions = {0, 1}
  MboxCapacity = 1
  Earlier <- MCEarlier
INVARIANTS
  StatementsKeptTogether
  GraphCoversFunction
  GeneratedCodeWellFormed
  ResourcesMatch
  CallsComplete
  DependenciesFirst
  SingleAssignmentValues
