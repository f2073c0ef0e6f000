SPECIFICATION Spec
CONSTANTS
  Bases = {"f"}
  MinLines = 1
  MaxLines = 1
  MCBackups = {"off"}
  Flags = {FALSE}
  Radix = 2
  MaxDigits = 2
  Entries <- MCEntries
  Again = FALSE
  Lines <- MCLines
  Matching <- MCMatching
  NulLines <- MCNulLines
  Subst <- MCSubst
  Files <- MCFiles
  Contents <- MCContents
  OptionSets <- MCOptions
  SimpleSuffix <- MCSuffix
  Faults = {"flush"}
  MaxFaults = 1
  MaxCalls = 1
  MaxRuns = 1
  MaxVersion = 1
  MaxDepth = 0
CHECK_DEADLOCK FALSE
INVARIANT ExitStatusAsDocumented
