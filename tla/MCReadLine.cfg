SPECIFICATION FairSpec
CONSTANTS
  InitBufferSize = 2
  Bytes <- MCBytes
  Files <- MCFiles
  Newline = "lf"
  Nul = "nul"
  Chunks <- MCChunks
  Junk = "junk"
  Binary = TRUE
  Faults = {"read", "realloc"}
  MaxOpens = 2
  MaxLen = 4
  WithEmpty = FALSE
CHECK_DEADLOCK FALSE
INVARIANTS
  TypeOK
  InBounds
  IInv
PROPERTIES
  ImplementsLineStream
  AlwaysEnds
