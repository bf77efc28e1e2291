SPECIFICATION Spec
CONSTANTS
  Vars <- MCVars
  Exprs <- MCExprs
  Depth <- MCDepth
  Inputs <- MCInputs
  Values <- MCValues
  MaxInt = 3
  BlocksLen = 0
  DataLen = 0
  SignsLen = 2
INVARIANT OperatorKept
