\* The debugger over two programs, bytes of four bits, no stack.
SPECIFICATION FairDebuggerSpec
CONSTANTS
  BYTE_BIT = 4
  DATA_SEGMENT_OFFSET = 4096
  STACK_OFFSET = 32768
  GLOBAL_OFFSET = 61440
  STACK_SIZE = 0
  GLOBAL_SIZE = 0
  Registers <- R
  Decode <- MCDecode
  Programs <- MCPrograms
  Uninitialised = {0}
  InputWords = {}
  Lines = {}
  HostPointers = {}
  MaxFiles = 0
  Addresses <- MCAddresses
INVARIANTS DebuggerTypeOK UntilHasBreakpoint
PROPERTIES ProgramUndisturbed StopsAtBreakpoints PromptReturns
