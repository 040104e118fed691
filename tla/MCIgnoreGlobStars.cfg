SPECIFICATION GSpec
CONSTANTS
  Patterns <- MCPatterns
  Strings <- MCStrings
INVARIANTS
  CompleteForStars
