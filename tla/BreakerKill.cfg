SPECIFICATION Spec
CONSTANTS
  k1 = k1
  k2 = k2
  p1 = p1
  p2 = p2
  t1 = t1
  t2 = t2
  Idle = Idle
  Keys = {k1}
  Providers = {p1}
  Owner <- SingleKey
  Threads = {t1, t2}
  Weights = {1, 3}
  FailuresDegraded = 3
  FailuresDead = 6
  FailureCap = 7
  DegradedCooldown = 1
  DeadCooldown = 2
  MaxFaults = 0
PROPERTIES
  KillIsIndefinite
