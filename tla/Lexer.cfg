SPECIFICATION FairSpec
CONSTANTS
  Texts <- MCTexts
  Size = 5
  StreamSize = 6
  Chars <- MCChars
  MaxLength = 3
INVARIANTS
  NoCharacterLost
  PositionExact
  ParserSeesAllTokens
PROPERTIES
  ImplementsWindow
  BothEnd
