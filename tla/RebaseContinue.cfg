CONSTANTS
  Branches = {main, topic}
  Main = main
  Detached = detached
  p1 = p1
  p2 = p2
  x = x
  Paths = {p1, p2}
  Contents = {x, m}
  Markers = m
  Absent = absent
  Unmerged = unmerged
  MaxCommits = 6
  MaxStash = 0
  Remotes = {}
SPECIFICATION TopicSpec
PROPERTY ChangesReapplied
