SPECIFICATION Spec
CONSTANTS
  RightHandSides <- NoLeftS
INVARIANTS TableExact ErplagIsLL1
