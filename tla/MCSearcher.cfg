SPECIFICATION SFairSpec
CONSTANTS
  Lines <- MCLines
  IntMax = 7
  Requests <- MCRequests
  StackMatches = 1
  InitialCap = 1
  Threshold = 3
INVARIANTS
  STypeOK
  NothingHeld
  ScansWhatWasRead
  ReportsExactly
  TruncatedNotGarbled
  TotalAgrees
PROPERTY
  SearchReturns
