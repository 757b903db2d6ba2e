SPECIFICATION PullSpec
CONSTANTS
  s1 = s1
  s2 = s2
  c1 = c1
  c2 = c2
  k1 = k1
  k2 = k2
  f1 = f1
  p1 = p1
  p2 = p2
  None = None
  Run = {p1, p2}
  Slot = {s1, s2}
  Content = {c1, c2}
  Key = {k1, k2}
  Object <- SomeObjects
  Feeds <- SomeFeeds
  SizeOf <- Sizes
  BytesOf <- Sizes
  QuietWindow = 1
  Budget = 0
  BudgetTime = 0
  Lookback = 2
  Day = 2
  Deadline = 1
  OverdueDays = 1
  LambdaMax = 1
  StaleAfter = 2
  EventAge = 0
  ClaimTTL = 3
  MaxRetries = 0
  MaxClock = 4
  LastFailure = 0
  MaxFailures = 1
  SweepPeriod = 3
  MaxReconciliations = 0
  MaxSweeps = 2
CHECK_DEADLOCK FALSE
INVARIANTS PullTypeOK StagedBeforeClaim SelfDuplicateOnlyAfterResume MarkedIsAnnounced
PROPERTIES NotedIsNotTakenAgain NothingOverlooked
SYMMETRY RunSymmetry
