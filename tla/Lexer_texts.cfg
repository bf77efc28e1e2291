SPECIFICATION Spec
CONSTANTS
  NumberLength = 5
  CommentLength = 6
  OperatorLength = 3
  Texts <- AllTexts
  INPUT_CHUNK = 3
  LEXEME_BUFSIZE = 4
  MaxIdLen = 2
  Keywords <- EndKeyword
INVARIANTS TypeOK BufferSafe MaximalMunch TokensTile PositionsExact OnlyTailLost ErrorsCounted
PROPERTY Terminates
