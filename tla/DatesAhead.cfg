CONSTANTS
  Tools = {"add"}
  Words = {}
  MaxArgs = 0
  Dates <- SomeDates
  Now <- FirstOfJune
  LocalZone <- HourAndHalf
SPECIFICATION DatesSpec
INVARIANT NotAhead
CHECK_DEADLOCK FALSE
