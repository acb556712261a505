\* Compiled programs, on bytes of six bits.
SPECIFICATION CompiledFairSpec
CONSTANTS
  BYTE_BIT = 6
  DATA_SEGMENT_OFFSET = 65536
  STACK_OFFSET = 1048576
  GLOBAL_OFFSET = 4194304
  STACK_SIZE = 64
  GLOBAL_SIZE = 48
  Registers <- MCRegisters
  Decode <- MCDecode
  Programs = {}
  Uninitialised = {5}
  InputWords = {}
  Lines = {}
  HostPointers = {}
  MaxFiles = 0
  Sources <- MCSources
  Meaning <- MCMeaning
  Encode <- MCEncode
INVARIANTS ExitsWithMeaning
PROPERTIES CallsKeepTemporaries Termination
