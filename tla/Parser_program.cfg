SPECIFICATION Spec
CONSTANTS
  Alphabet = {"ID", "SEMICOL", "COLON", "END", "START", "DEFAULT", "DRIVERDEF", "DEF", "ERR"}
  MaxLength = 0
  Terms <- MCTerms
  Nonterms <- MCNonterms
  Rules <- MCRules
  Start = "program"
  pt <- MCTable
  Inputs <- Edited
  STACK_LIMIT = 100
INVARIANTS TypeOK Synchrony AstIsProgram NodesFreedOnce
PROPERTIES ImplementsDerivation Terminates
