SPECIFICATION Spec
CONSTANTS
  k1 = k1
  k2 = k2
  p1 = p1
  p2 = p2
  t1 = t1
  t2 = t2
  Idle = Idle
  Keys = {k1, k2}
  Providers = {p1}
  Owner <- OneProvider
  Threads = {t1, t2}
  Weights = {1, 2}
  FailuresDegraded = 2
  FailuresDead = 4
  FailureCap = 4
  DegradedCooldown = 1
  DeadCooldown = 2
  MaxFaults = 1
INVARIANTS
  ProbeFailureReturnsToDead
  OnlyKilledStaysDead
  UnhealthyHasCause
  WriteThrough
PROPERTIES
  LadderNotSkipped
  CooldownEnds
