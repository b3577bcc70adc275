SPECIFICATION Spec
CONSTANTS
  None = None
  Grid = {28800, 32459, 43210, 46870, 50000, 63041}
  Spans = {480, 481, 500, 511, 570, 60}
  Lunches = {0, 30, 50, 60, 61}
  MaxSessions = 3
INVARIANT StandardHoursAreStored
CHECK_DEADLOCK FALSE
