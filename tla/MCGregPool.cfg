SPECIFICATION PFairSpec
CONSTANTS
  Workers = {w1, w2}
  Items <- MCItems
  Dirs <- MCDirs
  Files <- MCFiles
  Root = "r"
  Kids <- MCKids
  Matches <- MCMatches
  PopMax = 2
  PushMax = 2
  DrainMax = 1
  Faults = TRUE
INVARIANTS
  PTypeOK
  RefCountExact
  NoDanglingNode
  NodesFreed
  ExitStatusRight
  FullCoverage
PROPERTIES
  ImplementsTraversal
  ImplementsQueue
  Terminates
