SPECIFICATION Spec
CONSTANTS
  Alphabet = {"NUM", "PLUS", "MUL", "LT", "BO", "BC", "ERR"}
  MaxLength = 5
  Terms <- MCTerms
  Nonterms <- MCNonterms
  Rules <- MCRules
  Start = "expr"
  pt <- MCExprTable
  Inputs <- MCInputs
  STACK_LIMIT = 14
INVARIANTS AcceptsLanguage PrecedenceKept NestingLimit
PROPERTIES FirstErrorExact
