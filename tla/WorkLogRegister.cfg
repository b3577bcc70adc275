SPECIFICATION LiveSpec
CONSTANTS
  None = None
  Accounts = {a1}
  Orgs = {o1}
  Schedules <- OneSchedule
  Notes <- NoNotes
  CreateBodies <- NoBodies
  UpdateBodies <- NoBodies
  Reqs = {r1}
  Calls <- ClockAndOrg
  Instants <- TwoNights
  Unanswered = 1
  MaxFlight = 1800
  AlwaysUp = TRUE
  MaxLogs = 3
PROPERTIES
  ImplementsRegister
  NoDayStaysOpen
  AutoCheckoutKeepsWork
CHECK_DEADLOCK FALSE
