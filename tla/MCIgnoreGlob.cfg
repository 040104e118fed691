SPECIFICATION GFairSpec
CONSTANTS
  Patterns <- MCPatterns
  Strings <- MCStrings
INVARIANTS
  InBounds
  Sound
  CompleteWhenTractable
PROPERTIES
  RoundsGoOn
  Returns
