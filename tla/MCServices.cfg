CONSTANTS
  MaxRefreshes = 3  MaxSerial = 5
  Servers = {s1}  Commands = {c1, c2}  MaxManagers = 2  MaxSessions = 2
  Ids = {m1, m2, m3}  MaxVersion = 2  MaxTime = 2  MaxFaults = 3
  Calls = {a, b}  MaxEmitted = 2  Buffer = 1
  MaxLogins = 2  MaxReports = 2
  MaxHelpers = 2  MaxStops = 1  MaxWords = 1
  Apis = {"responses", "messages", "completions", "google"}  MaxBlocks = 2  MaxPieces = 2
  MaxSaid = 6  SizesOf = {1, 3}  MaxCalls = 2  KeepRecent = 4  Limit = 5
  ScreenSizes = {small, big}  DefaultSize = small  MaxClients = 2  ClientQueue = 1  MaxChanges = 2  MaxActivations = 2
  Kept = 2  Sessions = 3  MaxClock = 2  MaxWrites = 4
  Conversations = 2  MaxPrompts = 1  MaxCommands = 2  MaxRewrites = 1
  Stores = {"p", "q"}  Callers <- SomeCallers  Keys = {k1, k2}  MaxTokens = 3  MaxEdits = 3
  Objectives = {"o1", "o2"}  GoalLimits <- SomeLimits  Spent = {0, 2}  MaxNow = 3  MaxActs = 4
  PoolKeys = {"x", "y"}  EnvKeys = {"", "x"}  SavedKeys <- SomeSaved  Streams = {r1, r2}  Lifetimes = {0, 2}  Paces = {0, 2}
  LimitCooldown = 1  InvalidCooldown = 2  MaxMinute = 1  MaxMoment = 4
  Editors = {e1}  OptionKeys = {"w"}  ModelFields = {"a", "b"}  Processes <- SomeProcesses  Fallback = 1  Highest = 2  MaxRevision = 3
  CustomNames = {"w"}  Definitions <- SomeDefinitions  MaxRuns = 3  MaxReloads = 1
SPECIFICATION Spec
INVARIANTS
  TypeOK
  RefreshesAsTold
  SessionsOwned
  FilesKept
  CallsAndEventsPaired
  LoginsKept
  DictationKept
  AnswerWhole
  CompactionKeeps
  RemoteKept
  SessionKept
CHECK_DEADLOCK FALSE
