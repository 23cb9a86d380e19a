SPECIFICATION Spec
CONSTANTS
  NoKey = NoKey
  Keys = {k1}
  TTL = 3
  Throttle = 1
  BackoffBase = 1
  BackoffCap = 2
  FailureCap = 2
  MaxCalls = 2
  MaxFaults = 1
INVARIANTS
  AskedIsWoken
PROPERTIES
  GoodPayloadKept
  RefreshesComeThrough
