SPECIFICATION Spec
CONSTANTS
  Alphabet = {}
  MaxLength = 0
  Terms <- MCTerms
  Nonterms <- MCNonterms
  Rules <- MCRules
  Start = "program"
  pt <- MCTable
  Inputs <- TwoDrivers
  STACK_LIMIT = 100
INVARIANT ReadToTheEnd
