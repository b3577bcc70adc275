SPECIFICATION MCGitSpec
CONSTANTS
  None = None
  a1 = a1
  g1 = g1
  g2 = g2
  c1 = c1
  c2 = c2
  c3 = c3
  c4 = c4
  Accounts = {a1}
  Orgs = {o1}
  Schedules <- OneSchedule
  Notes <- NoNotes
  CreateBodies <- NoBodies
  UpdateBodies <- NoBodies
  Reqs = {r1}
  Calls = {"checkIn", "remove", "removeOrg"}
  Instants <- DaysApart
  Unanswered = 1
  MaxFlight = 600
  AlwaysUp = TRUE
  MaxLogs = 2
  Integrations = {g1, g2}
  OwnerOf <- OneOwner
  Providers = {"GitHub", "GitLab"}
  Scenarios <- ScenariosDef
  Commits = {c1, c2, c3, c4}
  RepoOf <- RepoDef
  Merges = {c3}
  Jobs = {j1, j2}
  GitCalls = {"poll", "sync", "hook", "link", "unlink"}
  RepoErrors = TRUE
  SyncDays = {1, 7}
  UtcOffset = 0
INVARIANTS
  GitTypeOK
  UniqueLogPerDay
  CommitOncePerLog
  CommitInItsLog
  NoCommitIsMissed
SYMMETRY Symmetry
CHECK_DEADLOCK FALSE
