SPECIFICATION BatchSpec
CONSTANTS
  None = None
  TableOf <- MCTableOf
  DomainOf <- MCKeyOf
  KeyOf <- MCKeyOf
  Ordering <- MCOrdering
  Batch <- RerunBatches
  Row <- TwoTableRows
  Tables <- TwoTables
  RowsOf <- RerunRowsOf
  DeliveryKey <- OwnKey
  Malformed = {112}
  Drifting <- MCDrifting
  MaxAttempts <- Twice
INVARIANTS TypeOK OneSnapshot TwinBeforeFacts OneJudgment NothingLost AnnouncedIsFolded
PROPERTIES RecordSpec
CHECK_DEADLOCK FALSE
