SPECIFICATION BatchSpec
CONSTANTS
  None = None
  TableOf <- MCTableOf
  DomainOf <- MCKeyOf
  KeyOf <- MCKeyOf
  Ordering <- MCOrdering
  Batch <- RerunBatches
  Row <- DivergentRows
  Tables <- OneTable
  RowsOf <- DivergentRowsOf
  DeliveryKey <- OwnKey
  Malformed = {}
  Drifting <- NoDrift
  MaxAttempts <- Twice
INVARIANTS StateAsAsserted
CHECK_DEADLOCK FALSE
