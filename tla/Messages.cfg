SPECIFICATION MessagesSpec
CONSTANTS
  None = None
  AdminChats = {a1, a2}
  Errors <- ErrorsDef
  Handlers = {h1, h2}
  DEBOUNCE_TIME = 1
  KeepFor = 2
  ERROR_COOLDOWN = 2
  MaxSent = 1
  MaxTime = 3
  MaxUpdates = 3
  Users = {"ann", "bob"}
  Tabs = {"t1", "t2"}
  UserOf <- UserOfDef
  MaxBatches = 1
  MaxCrashes = 1
INVARIANTS
  SameTextOncePerMinute
  AdministratorsWereTold
  ForgottenWasHandled
  OpenTabMissesNothing
PROPERTIES
  EveryUpdateHandled
  NoticeIsStored
CHECK_DEADLOCK FALSE
