SPECIFICATION Spec
CONSTANTS
  None = None
  Accounts = {a1, a2}
  Orgs = {o1}
  Schedules <- TwoSchedules
  Notes <- OneNote
  CreateBodies <- EditCreates
  UpdateBodies <- EditUpdates
  Reqs = {r1, r2}
  Calls <- EditCalls
  Instants <- NightInstants
  Unanswered = 2
  MaxFlight = 1800
  AlwaysUp = FALSE
  MaxLogs = 2
INVARIANTS
  OnlyLastSessionOpen
  HoursMatchItems
PROPERTIES
  OnlyOwnersWrite
SYMMETRY Symmetry
CHECK_DEADLOCK FALSE
