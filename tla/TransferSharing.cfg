CONSTANTS
  alice = alice
  bob = bob
  hub = hub
  Users = {alice, bob}
  Servers = {hub}
  Nowhere = nowhere
  Names = {origin, other}
  Origin = origin
  other = other
  Branches = {main}
  Main = main
  Specs <- SomeSpecs
  NoBranch = none
  MaxCommits = 3
SPECIFICATION MCSpec
INVARIANTS NothingMissing TrackingIsPublished NoOrphans
PROPERTIES PushKeepsHistory FetchTruthful PullJoins
