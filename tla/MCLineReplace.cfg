SPECIFICATION FairSpec
CONSTANTS
  Inputs <- MCInputs
  WordChars <- MCWordChars
  Newline <- MCNewline
  Faults = {"malloc", "regcomp", "regexec", "realloc"}
  MaxString = 4
  MaxText = 2
CHECK_DEADLOCK FALSE
INVARIANTS
  TypeOK
  WritesInParts
  UndefinedExactly
  TextsMeanString
  NoneMissed
PROPERTIES
  RejectsMeaningless
  ImplementsSubstitution
  Ends
