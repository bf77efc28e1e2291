SPECIFICATION Spec
CONSTANTS
  Names <- MCNames
  ModNames <- MCModNames
  DRIVER = "driver"
  Exprs <- MCExprs
  Inputs <- MCInputs
  TypesLen = 0
  BlocksLen = 0
  OutputsLen = 0
  CallsLen = 1
INVARIANT NoRecursion
