SPECIFICATION MCDeskSpec
CONSTANTS
  None = None
  People = {"ann", "bob", "cy"}
  Schedules <- SchedulesDef
  OrgPatches <- PatchesDef
  Callers = {r1, r2}
  Spellings = {"lower", "upper"}
  OrgSeed <- OrgSeedDef
  MaxOrgs = 2
  Dates <- DatesDef
  YearOf <- YearOfDef
  Fetches = {f1}
  Editors = {e1, e2}
  Ttl = 2
  Flight = 1
  MaxTime = 4
  HolidaySeed <- HolidaySeedDef
  NewDays <- NewDaysDef
  DayPatches <- DayPatchesDef
  MaxHolidays = 2
  SkipCached = {"view"}
  WorkLogs <- WorkLogsDef
  Month <- MonthDef
  Makers = {m1}
  Viewers = {v1}
  Expiries = {None, 1}
  MaxShares = 1
  Scenarios = {"organizations", "holidays", "lists", "shares", "sheets"}
  Grid = {28800, 32459, 43210, 46870, 50000, 63041}
  Spans = {480, 481, 500, 511, 570, 60}
  Lunches = {0, 30, 50, 60, 61}
  MaxSessions = 3
INVARIANTS
  ShareTypeOK
  OwnerStaysMember
  OneHolidayPerDate
  FreshAfterQuietChange
  ListAgeBounded
  RevokedLinkShowsNothing
  StandardDaysFollowHolidays
  HoursTrackMinutes
  LeavingLaterNeverCostsHours
  AutoCheckoutRestoresStandard
PROPERTIES
  MembershipStepByStep
SYMMETRY Symmetry
CHECK_DEADLOCK FALSE
