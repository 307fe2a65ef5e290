CONSTANTS
  Branches = {main, topic}
  Main = main
  Detached = detached
  p1 = p1
  x = x
  Paths = {p1}
  Contents = {x, m}
  Markers = m
  Absent = absent
  Unmerged = unmerged
  MaxCommits = 4
  MaxStash = 0
  Remotes = {}
  Procs = {a, b}
  Jobs = {"commit", "merge"}
SPECIFICATION StartedSpec
PROPERTY MergeJoins
