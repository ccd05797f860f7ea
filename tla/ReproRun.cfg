SPECIFICATION Spec
CONSTANTS
  Files <- TwoFiles
  Contents <- SomeContents
  Oversized <- TooLong
  Absent = Absent
  NoDigest = NoDigest
  Carried <- SomeCarried
  RecipesUsed <- SomeRecipes
INVARIANTS TypeOK ResultIsComputed TimeoutReapsGroup QuietDigestIsOfDirectory
PROPERTY EveryRunEnds
CHECK_DEADLOCK FALSE
