CONSTANTS
  NumNodes = 5
  MaxParents = 3
  MaxColumns = 5
SPECIFICATION GraphSpec
INVARIANT LanesContinue
CHECK_DEADLOCK FALSE
