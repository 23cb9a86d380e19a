SPECIFICATION RSpec
CONSTANTS
  k1 = k1
  k2 = k2
  p1 = p1
  p2 = p2
  t1 = t1
  t2 = t2
  s1 = s1
  s2 = s2
  s3 = s3
  Idle = Idle
  Keys = {k1, k2}
  Providers = {p1, p2}
  Owner <- TwoProviders
  Threads = {t1, t2}
  Weights = {1, 2}
  FailuresDegraded = 1
  FailuresDead = 2
  FailureCap = 2
  DegradedCooldown = 1
  DeadCooldown = 1
  MaxFaults = 0
  Steps <- MCSteps
  Chain <- TwoSteps
  KeyOf <- StepKeys
  VisionSteps = {s1}
  MaxAttempts = 2
  Errors <- ErrorKinds
  Modes <- TextStatic
  MaxOperations = 1
INVARIANTS
  WalkIsSound
