\* Procedures, branches, every instruction and system call, on bytes of four bits.
SPECIFICATION FairSpec
CONSTANTS
  BYTE_BIT = 4
  DATA_SEGMENT_OFFSET = 4096
  STACK_OFFSET = 32768
  GLOBAL_OFFSET = 61440
  STACK_SIZE = 52
  GLOBAL_SIZE = 4
  Registers <- R
  Decode <- MCDecode
  Programs <- MCPrograms
  Uninitialised = {0, 5}
  InputWords <- MCInputWords
  Lines <- MCLines
  HostPointers = {0, 15}
  MaxFiles = 2
INVARIANTS TypeOK ComparisonsBranch
PROPERTIES ReturnsToCaller StringInBuffer Termination
