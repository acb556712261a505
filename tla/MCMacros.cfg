\* Macro calls, nested twice, with labels, parameters, inclusions and .define.
SPECIFICATION FairSpec
CONSTANTS
  Letters <- MCLetters
  Digits <- MCDigits
  Strings <- MCStrings
  Copies <- MCCopies
  Programs <- MCPrograms
  Garbage = {0, 1000}
INVARIANTS ExpandsInPlace SeekInvertsTell
PROPERTIES ImplementsNestedText Termination ReadsOnOrInserts
