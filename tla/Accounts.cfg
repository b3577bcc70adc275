SPECIFICATION MCAuthSpec
CONSTANTS
  None = None
  Reqs = {r1, r2}
  Emails = {"e1", "e2", "e3"}
  Passwords = {"p1", "p2"}
  Chats = {"c1"}
  Patches <- PatchesDef
  Seed <- SeedDef
  Scenarios <- ScenariosDef
  OtpLife = 1
  MaxId = 3
  MaxCodes = 4
  MaxTime = 2
  Devices = {d1}
  Confirms = {c1, c2}
  Life = 1
  MaxSessions = 2
INVARIANTS
  AccountsTypeOK
  OneAccountPerEmail
  CodeAcceptedInTime
  TokenWithinPromise
PROPERTIES
  InvitationCodeKept
  ConfirmationReachesDevice
CHECK_DEADLOCK FALSE
