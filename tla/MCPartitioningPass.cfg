SPECIFICATION Spec
CONSTANTS
  FunctionOrder <- MCFunctionOrder
  VertexCount <- MCVertexCount
  Options <- MCOptions
INVARIANTS
  CodeGenerationDefined
  ProgramTablesMatch
CHECK_DEADLOCK FALSE
