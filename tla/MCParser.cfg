\* Every expression of two operators, every sequence of three tokens, and programs.
SPECIFICATION Spec
CONSTANTS
  Words = {"x", "f", "include"}
  Value <- MCValue
  BinaryValue <- MCBinaryValue
  HexValue <- MCHexValue
  Code <- MCCode
  EscapedCode <- MCEscapedCode
  INT_MAX = 127
  WORD_RANGE = 256
  Texts <- MCTexts
  Written <- MCWritten
INVARIANTS MakesWhatIsWritten FollowsGrammar
PROPERTIES ModeChangesBetweenTokens Terminates
CHECK_DEADLOCK FALSE
