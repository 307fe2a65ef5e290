CONSTANTS
  Tools = {"add", "branch", "config", "merge", "pull", "submodule"}
  Words = {"w", "--set-upstream-to=w"}
  MaxArgs = 4
  Dates <- SomeDates
  Now <- FirstOfJune
  LocalZone <- HourAndHalf
  Bytes <- AllBytes
  Nul = 0
  Junk = junk
  Spaces <- Blanks
  Term = 10
  Slack = 1
  SizeMod = 26
  FormatSize = 1
  ReadSize = 2
  Data <- Texts
  MaxLen = 3
  Names <- SomeNames
  Quotations <- SomeQuotations
  Lists <- SomeLists
  ShellTexts <- SomeShellTexts
  Files <- SomeFiles
  Directories <- SomePrefixes
  ArgvRoom = 4
  NumNodes = 5
  MaxParents = 3
  MaxColumns = 5
SPECIFICATION MCSpec
INVARIANTS AcceptedAsSpelt DatesReadBack
  StrbufTypeOK CStyleReadsBack ShellReadsBack RelativeLeadsBack
  GraphTypeOK NoLaneLost OneNodePerRow
PROPERTIES ImplementsApi TerminatorStays
CHECK_DEADLOCK FALSE
