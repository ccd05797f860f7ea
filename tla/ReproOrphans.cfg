SPECIFICATION Spec
CONSTANTS
  Files <- TwoFiles
  Contents <- SomeContents
  Oversized <- TooLong
  Absent = Absent
  NoDigest = NoDigest
  Carried <- SomeCarried
  RecipesUsed <- SomeRecipes
INVARIANT OrphansReaped
CHECK_DEADLOCK FALSE
