SPECIFICATION Spec
CONSTANTS
  None = None
  Accounts = {a1}
  Orgs = {o1}
  Schedules <- OneSchedule
  Notes <- NoNotes
  CreateBodies <- NoBodies
  UpdateBodies <- EndedAtFive
  Reqs = {r1}
  Calls <- ClockAndEdit
  Instants <- TwoNights
  Unanswered = 1
  MaxFlight = 1800
  AlwaysUp = TRUE
  MaxLogs = 3
PROPERTIES
  AutoCheckoutKeepsWork
CHECK_DEADLOCK FALSE
