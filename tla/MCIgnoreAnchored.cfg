SPECIFICATION RSpec
CONSTANTS
  Entries <- MCEntries
  Length <- MCLength
  Root = "top"
  Texts <- MCTexts
  DotNames = {".h"}
  BuildDirs = {"build"}
  LineMax = 6
  PathMax = 11
  InitialRules = 1
  Faults = TRUE
INVARIANT AnchoredToItsLevel
