SPECIFICATION Spec
CONSTANTS
  Vars <- MCVars
  Exprs <- MCExprs
  Depth <- MCDepth
  Inputs <- MCInputs
  Values <- MCValues
  MaxInt = 3
  BlocksLen = 3
  DataLen = 3
  SignsLen = 0
INVARIANTS TypeOK JumpsLand OptimizerSound
PROPERTIES ImplementsMeaning MachineCodeExact ForLoopsEnd
