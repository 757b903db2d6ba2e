SPECIFICATION Spec
CONSTANTS
  s1 = s1
  s2 = s2
  c1 = c1
  c2 = c2
  c3 = c3
  c4 = c4
  k1 = k1
  o1 = o1
  o2 = o2
  p1 = p1
  p2 = p2
  None = None
  Run = {p1, p2}
  Slot = {s1}
  Content = {c1, c2}
  Key = {k1}
  Object = {o1, o2}
  Uploads <- OneSlotTwoContents
  KeyOf <- SameKey
  ObjectsOf <- ObjectOfSlot
  Verdict <- SecondUnreadable
  LambdaMax = 1
  StaleAfter = 2
  EventAge = 1
  ClaimTTL = 3
  MaxRetries = 1
  MaxClock = 7
  LastFailure = 7
  MaxFailures = 1
  SweepPeriod = 3
  MaxReconciliations = 1
  MaxSent = 1
CHECK_DEADLOCK FALSE
INVARIANTS ReRegistrationOnlyAfterTTL
PROPERTY ReconcileKeepsTheNewest
SYMMETRY RunSymmetry
