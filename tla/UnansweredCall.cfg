CONSTANTS
  Deltas = {d1}  Messages = {m1}  NoMessage = nomsg  ErrorMessage = errmsg  NoResult = nores  Zero = zero
  Readers = {r1}  Waiters = {w1}  MaxEvents = 1
  Pieces = {"a"}  MaxPieces = 1  MaxColumns = 1  CodePoints = {"letter"}  MaxCodePoints = 1  MaxScreen = 3  MaxDock = 1
  Targets <- AllTargets  Contents <- AllContents  MaxMessages = 3
  VaultClients = {c1}  Titles = {t1}  Fields = {"password"}  Passwords = {k1}  NoVault = novault  MaxCalls = 1
  Bridges = {b1}  Binaries = {v1}  NoBinary = nobinary  HubClients = {h1}  RegistryTTL = 1  MaxHubCalls = 1
  HubAccounts = {"me"}  MessageNames = {"m1"}  HubThreads = {"t1"}  MaxStamp = 1  Window = 1  MaxHubSteps = 1
  MaxSessions = 2  Allowances <- SomeAllowances  ChunkBuffer = 1
SPECIFICATION LibrarySpec
INVARIANT AllAnswered
CHECK_DEADLOCK FALSE
