SPECIFICATION Spec
CONSTANTS
  Bases = {"f"}
  MinLines = 0
  MaxLines = 2
  MCBackups = {"numbered"}
  Flags = {FALSE}
  Radix = 2
  MaxDigits = 2
  Entries <- MCEntries
  Again = TRUE
  Lines <- MCLines
  Matching <- MCMatching
  NulLines <- MCNulLines
  Subst <- MCSubst
  Files <- MCFiles
  Contents <- MCContents
  OptionSets <- MCOptions
  SimpleSuffix <- MCSuffix
  Faults = {"backup", "reopen", "write", "crash"}
  MaxFaults = 2
  MaxCalls = 2
  MaxRuns = 2
  MaxVersion = 3
  MaxDepth = 1
CHECK_DEADLOCK FALSE
INVARIANTS
  TornHasBackup
  FirstContentKept
  NextIsAboveAll
