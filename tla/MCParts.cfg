SPECIFICATION Spec
CONSTANTS
  Inputs <- MCInputs
  WordChars <- MCWordChars
  Newline <- MCNewline
  Faults = {}
  MaxString = 2
  MaxText = 1
CHECK_DEADLOCK FALSE
INVARIANT PartsMeanString
