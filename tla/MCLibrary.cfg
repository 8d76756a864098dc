CONSTANTS
  Deltas = {d1, d2}  Messages = {m1}  NoMessage = nomsg  ErrorMessage = errmsg  NoResult = nores  Zero = zero
  Readers = {r1}  Waiters = {w1, w2}  MaxEvents = 3
  Pieces = {"a", "wide", " ", "red", "under", "link", "off", "nl"}  MaxPieces = 4  MaxColumns = 3
  CodePoints = {"letter", "cjk", "emoji", "regional", "spacing", "mark", "linker", "joiner", "consonant", "am", "voiced", "tab"}
  MaxCodePoints = 4
  MaxScreen = 14  MaxDock = 7
  Targets <- AllTargets  Contents <- AllContents  MaxMessages = 5
  VaultClients = {c1, c2}  Titles = {t1}  Fields = {"password", "seed", "record"}  Passwords = {k1, k2}  NoVault = novault  MaxCalls = 4
  Bridges = {b1}  Binaries = {v1, v2}  NoBinary = nobinary  HubClients = {h1, h2}  RegistryTTL = 1  MaxHubCalls = 4
  HubAccounts = {"me", "work"}  MessageNames = {"m1", "m2"}  HubThreads = {"t1"}  MaxStamp = 2  Window = 1  MaxHubSteps = 4
  MaxSessions = 2  Allowances <- SomeAllowances  ChunkBuffer = 1
SPECIFICATION LibrarySpec
INVARIANTS
  TypeOK
  DeliveredThenUnread
  NoLostWakeup
  TerminalIsLastAndDecides
  OutputKept
  TerminalKept
  VaultKept
  HubKeeps
PROPERTY ImplementsFifo
CHECK_DEADLOCK FALSE
