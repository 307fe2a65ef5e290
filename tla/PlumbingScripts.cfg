CONSTANTS
  x = x
  y = y
  PathOrder <- Order
  Blobs = {x, y}
  Absent = absent
  NoId = none
  MaxFiles = 2
  UserPaths <- UserFiles
  Escapes <- SomeEscapes
  NameRoom = 3
  StoredTrees <- SomeTrees
  ForeignLines <- SomeLines
  Commits = {1, 2}
  NoSuchCommit = 0
  MaxParents = 3
  OptionSets <- SomeOptions
  TreePrefixes <- SomePrefixes
  ConflictSides <- SomeSides
SPECIFICATION MCSpec
INVARIANTS IndexSound TreesWritten ParentsKept
PROPERTIES FailureKeepsPaths CrashNeedsConflict SuccessRegisters UnnamedKept ListingReadsBack
