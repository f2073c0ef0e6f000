SPECIFICATION FairSpec
CONSTANTS
  InitBufferSize = 2
  Bytes <- MCBytes
  Files <- MCFiles
  Newline = "lf"
  Nul = "nul"
  Chunks <- MCChunks
  Junk = "junk"
  Binary = TRUE
  Faults = {"read", "realloc"}
  MaxOpens = 1
  MaxLen = 3
  WithEmpty = TRUE
CHECK_DEADLOCK FALSE
INVARIANT EmptyFileHasNoLine
