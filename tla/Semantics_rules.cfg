SPECIFICATION Spec
CONSTANTS
  Names <- MCNames
  ModNames <- MCModNames
  DRIVER = "driver"
  Exprs <- MCExprs
  Inputs <- MCInputs
  TypesLen = 2
  BlocksLen = 4
  OutputsLen = 3
  CallsLen = 2
INVARIANTS TypeOK LoopMarksExact OutputsBound AcceptsExactly WarningsExact
