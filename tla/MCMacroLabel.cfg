\* A macro whose last statement is labelled, called from a macro.
SPECIFICATION Spec
CONSTANTS
  Letters <- MCLetters
  Digits <- MCDigits
  Strings <- MCStrings
  Copies <- MCCopies
  Programs <- LabelledLast
  Garbage = {0, 1000}
INVARIANT ExpandsInPlace
