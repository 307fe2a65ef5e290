CONSTANTS
  Tools = {"branch"}
  Words = {"w", "--set-upstream-to=w"}
  MaxArgs = 2
SPECIFICATION Spec
INVARIANT UpstreamAsPrinted
CHECK_DEADLOCK FALSE
