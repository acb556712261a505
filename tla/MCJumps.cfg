CONSTANTS
  x = x
  y = y
  DATA_SEGMENT_OFFSET = 128
  DIRECT_ABSOLUTE_RANGE = 64
  DIRECT_OFFSET_RANGE = 64
  IMMEDIATE_RANGE = 16
  Instr = {"zero", "a"}
  ZeroInstr = "zero"
  Labels = {x, y}
  NoLabel = NoLabel
  Instructions <- JumpPast
  WordLists <- NoLists
  ByteLists <- NoLists
  Alignments = {}
  Sizes = {}
  AssertionsActive = FALSE
  MaxStatements = 5

SPECIFICATION Spec

INVARIANT JumpsReachOffsets
