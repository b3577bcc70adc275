SPECIFICATION Spec
CONSTANTS
  None = None
  Accounts = {a1}
  Orgs = {o1}
  Schedules <- OneSchedule
  Notes <- NoNotes
  CreateBodies <- NoBodies
  UpdateBodies <- NoBodies
  Reqs = {r1, r2}
  Calls <- ClockCalls
  Instants <- ClockInstants
  Unanswered = 2
  MaxFlight = 1800
  AlwaysUp = TRUE
  MaxLogs = 2
INVARIANTS
  TypeOK
  UniqueLogPerDay
  OnlyLastSessionOpen
  SessionsDoNotOverlap
  DatedByFirstCheckIn
SYMMETRY Symmetry
CHECK_DEADLOCK FALSE
