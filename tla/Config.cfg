SPECIFICATION MCSpec
SYMMETRY MCSymmetry
CONSTANTS
  p1 = p1
  p2 = p2
  p3 = p3
  f1 = f1
  f2 = f2
  t1 = t1
  t2 = t2
  NoText = NoText
  Providers = {p1, p2, p3}
  Profiles = {f1, f2}
  SeedProviders = {p1}
  SeedChains <- OneChain
  DefaultProfile = f1
  Threads = {t1, t2}
  MaxEdits = 2
  MaxFaults = 1
  FailuresDegraded = 1
  FailuresDead = 2
  FailureCap = 2
  DegradedCooldown = 1
  DeadCooldown = 1
  BThreads = {u1, u2}
  BWeights = {1, 2}
  Objects = {o1, o2}
  BootRows <- MCBootRows
  NoEntry = NoEntry
  NoRow = NoRow
  MaxEvents = 3
  MaxNow = 1
INVARIANTS
  EditsReachDisk
  EmptyChainHasCause
  KeysHaveOwners
PROPERTIES
  RestartKeepsEdits
  ThreadsKeepTheBreaker
