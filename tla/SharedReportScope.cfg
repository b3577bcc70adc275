SPECIFICATION MCDeskSpec
CONSTANTS
  None = None
  People = {"ann", "bob", "cy"}
  Schedules <- SchedulesDef
  OrgPatches <- PatchesDef
  Callers = {r1, r2}
  Spellings = {"lower"}
  OrgSeed <- OrgSeedDef
  MaxOrgs = 2
  Dates <- DatesDef
  YearOf <- YearOfDef
  Fetches = {f1}
  Editors = {e1, e2}
  Ttl = 2
  Flight = 1
  MaxTime = 4
  HolidaySeed <- HolidaySeedDef
  NewDays <- NewDaysDef
  DayPatches <- DayPatchesDef
  MaxHolidays = 2
  SkipCached = {"view"}
  WorkLogs <- WorkLogsDef
  Month <- MonthDef
  Makers = {m1}
  Viewers = {v1}
  Expiries = {None, 1}
  MaxShares = 1
  Scenarios = {"shares"}
  Grid = {}
  Spans = {}
  Lunches = {}
  MaxSessions = 0
INVARIANTS
  ReportStaysInOrganization
SYMMETRY Symmetry
CHECK_DEADLOCK FALSE
