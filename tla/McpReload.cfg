CONSTANTS
  Servers = {s1}  Commands = {c1}
  MaxManagers = 3  MaxSessions = 2
SPECIFICATION McpSpec
INVARIANT ReloadAtomic
CHECK_DEADLOCK FALSE
