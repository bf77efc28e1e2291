SPECIFICATION Spec
CONSTANTS
  Names <- MCNames
  ModNames <- MCModNames
  DRIVER = "driver"
  Exprs <- MCExprs
  Inputs <- MCInputs
  TypesLen = 0
  BlocksLen = 3
  OutputsLen = 0
  CallsLen = 0
INVARIANT AnalysisCompletes
