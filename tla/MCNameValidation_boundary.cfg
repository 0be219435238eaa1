CONSTANTS
  Alphabet <- MCBoundaryAlphabet
  Info <- BoundaryInfo
  MaxNameLength = 2
SPECIFICATION Spec
INVARIANT
  IsValidNameFollowsRules
