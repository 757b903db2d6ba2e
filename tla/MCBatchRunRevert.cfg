SPECIFICATION BatchSpec
CONSTANTS
  None = None
  TableOf <- MCTableOf
  DomainOf <- MCKeyOf
  KeyOf <- MCKeyOf
  Ordering <- MCOrdering
  Batch <- ThreeBatches
  Row <- RevertRows
  Tables <- OneTable
  RowsOf <- RevertRowsOf
  DeliveryKey <- CorrectedKey
  Malformed = {}
  Drifting <- NoDrift
  MaxAttempts <- MiddleTwice
INVARIANTS StateAsAsserted
CHECK_DEADLOCK FALSE
