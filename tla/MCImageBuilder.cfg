CONSTANTS
  DATA_SEGMENT_OFFSET = 16
  DIRECT_ABSOLUTE_RANGE = 16
  DIRECT_OFFSET_RANGE = 16
  IMMEDIATE_RANGE = 16
  Instr = {"zero", "a"}
  ZeroInstr = "zero"
  Words <- MCWords
  Strings <- MCStrings
  Alignments <- MCAlignments
  Sizes <- MCSizes
  MaxTextLength = 5
  MaxDataLength = 5

SPECIFICATION Spec

INVARIANTS
  TypeOK
  CursorInSync

PROPERTIES
  AlignIsExact
  ImplementsImage
