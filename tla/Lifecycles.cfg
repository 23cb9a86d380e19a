SPECIFICATION LifecyclesSpec
CONSTANTS
  SectionKeys = {"dynamic_routing", "providers"}
  SettingKeys = {"ttl", "routing_enabled"}
  RoutingSection = "dynamic_routing"
  RoutingToggle = "routing_enabled"
  SValues = {"a"}
  Seed = "seed"
  Handlers = {"h1", "h2"}
  MaxAdminOps = 2
  MaxStoreFaults = 1
  MaxProcesses = 1
  Components = {"x", "y", "z"}
  RequireGraphs <- MCRequireGraphs
  Undoers = {"x", "y"}
  MaxRaises = 1
  MaxReloads = 1
  MaxStarts = 1
  MaxInstalls = 2
  MaxRemovals = 1
  MaxSetupFaults = 1
  MaxSetupCrashes = 1
  Fetchers = {"t1", "t2"}
  Lifetime = 2
  Skew = 1
  PollInterval = 1
  PollDeadline = 2
  SlowDown = 1
  MaxConsoleTime = 2
  MaxLogins = 2
  MaxFetches = 2
  MaxConsoleFaults = 1
INVARIANTS
  ProcessesAreSound
  InstallsAreSound
  SessionIsKept
PROPERTIES
  StoresKeepThePromise
  NothingIsPulledAway
  EverythingEnds
CHECK_DEADLOCK FALSE
