CONSTANTS
  Branches = {main, topic}
  Main = main
  Detached = detached
  p1 = p1
  x = x
  Paths = {p1}
  Contents = {x, m}
  Markers = m
  Absent = absent
  Unmerged = unmerged
  MaxCommits = 5
  MaxStash = 0
  Remotes = {}
  Procs = {a, b}
  Jobs = {"commit", "amend", "merge", "ff-only", "no-ff", "branch", "checkout"}
SPECIFICATION CarefulSpec
INVARIANT SharedRepositorySound
PROPERTIES CommandsAreAtomic HistoryKept
CHECK_DEADLOCK FALSE
