SPECIFICATION Spec
CONSTANTS
  b1 = b1
  c1 = c1
  t1 = t1
  t2 = t2
  NoClient = NoClient
  BudgetIds = {b1}
  Clients = {c1}
  Scope <- Single
  KeyScoped = {b1}
  Threads = {t1, t2}
  Costs = {0, 3}
  MaxCost = 3
  Amounts = {0, 3, 4}
  Thresholds = {50, 100}
  MaxEdits = 1
  MaxFaults = 1
  MaxSpent = 6
INVARIANTS
  SpendNotInvented
  OvershootBounded
  ThresholdsAnnounced
  ActiveHasRoom
PROPERTIES
  HandlersFinish
