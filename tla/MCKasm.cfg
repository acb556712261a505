\* Every mnemonic with up to three operands, every form of an address, the directives.
SPECIFICATION Spec
CONSTANTS
  Words <- MCWords
  Value <- MCValue
  BinaryValue <- MCBinaryValue
  HexValue <- MCHexValue
  Code <- MCCode
  EscapedCode <- MCEscapedCode
  INT_MAX = 127
  WORD_RANGE = 256
  IMMEDIATE_RANGE = 16
  Texts <- MCTexts
  Means <- MCMeans
  HexWord <- MCHexWord
  LocationWord <- MCLocationWord
  DATA_SEGMENT_OFFSET = 64
  STACK_OFFSET = 128
  LOCATION_RANGE = 256
  BYTE_RANGE = 4
INVARIANTS AssemblesWhatIsWritten ListingsReassemble FollowsGrammar
PROPERTIES ActsBetweenTokens Terminates
CHECK_DEADLOCK FALSE
