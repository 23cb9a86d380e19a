CONSTANTS
  ChatThreads = {t1, t2}
  b1 = b1
  b2 = b2
  Bodies = {b1, b2}
  Normal <- MCNormal
  Models = {m1, m2}
  MaxEntries = 1
  Ttl = 0
  MaxAge = 0
  MaxChunks = 1
  MaxRequests = 3
  MaxClock = 1
  None = None
SPECIFICATION ChatSpec
INVARIANTS
  HitIsAnAnswerToThisRequest
  RequestsAreAccounted
PROPERTIES
  RequestsEnd
CHECK_DEADLOCK FALSE
