CONSTANTS
  x = x
  y = y
  DATA_SEGMENT_OFFSET = 128
  DIRECT_ABSOLUTE_RANGE = 64
  DIRECT_OFFSET_RANGE = 64
  IMMEDIATE_RANGE = 16
  Instr = {"zero", "a"}
  ZeroInstr = "zero"
  Labels = {x, y}
  NoLabel = NoLabel
  Instructions <- OperandInstructions
  WordLists <- MixedWordLists
  ByteLists <- MixedByteLists
  Alignments = {4}
  Sizes = {3}
  AssertionsActive = FALSE
  MaxStatements = 5

SPECIFICATION Spec

INVARIANTS
  TypeOK
  CursorInSync
  LinkedImage
  LabelsNameStatements
  WordsAligned
  OperandsDecode

PROPERTY PatchInPlace
