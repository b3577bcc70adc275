SPECIFICATION MCGitSpec
CONSTANTS
  None = None
  a1 = a1
  g1 = g1
  g2 = g2
  c1 = c1
  c2 = c2
  c3 = c3
  c4 = c4
  Accounts = {a1}
  Orgs = {o1}
  Schedules <- OneSchedule
  Notes <- NoNotes
  CreateBodies <- NoBodies
  UpdateBodies <- NoBodies
  Reqs = {r1}
  Calls = {}
  Instants <- LateEvening
  Unanswered = 1
  MaxFlight = 0
  AlwaysUp = TRUE
  MaxLogs = 2
  Integrations = {g1, g2}
  OwnerOf <- OneOwner
  Providers = {"GitHub"}
  Scenarios <- LinkOnly
  Commits = {c4}
  RepoOf <- RepoDef
  Merges = {}
  Jobs = {j1}
  GitCalls = {"poll", "link"}
  RepoErrors = FALSE
  SyncDays = {7}
  UtcOffset = 0
INVARIANT FirstPollReachesADay
CHECK_DEADLOCK FALSE
