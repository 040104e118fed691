SPECIFICATION CSpec
CONSTANTS
  Argvs <- MCArgvs
  Numbers <- MCNumbers
  IntMax = 7
  MaxThreads = 3
  Cores = 2
  Empty = ""
  Upper = {"P"}
  Malformed = {"("}
  Unknown = {"-x", "-1"}
INVARIANT FallsBack
