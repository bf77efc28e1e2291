SPECIFICATION Spec
CONSTANTS
  Texts = {"", "a", "b", "c", "end"}
  Empty = ""
  Hash <- MCHash
  Literals <- MCLiterals
  Capacity = 2
  Keywords = {"end"}
  MaxSymbols = 5
INVARIANTS TypeOK NamesInterned KeysOwned
PROPERTY ImplementsDictionary
