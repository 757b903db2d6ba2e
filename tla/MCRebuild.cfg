SPECIFICATION RebuildSpec
CONSTANTS
  None = None
  Batch <- TwoBatches
  Row <- MCRow
  TableOf <- MCTableOf
  DomainOf <- MCDomainOf
  Ordering <- MCOrdering
  RowsOf <- MCRowsOf
  Rebuilder <- TwoRebuilds
  MaxSwaps = 2
  MaxFolds = 3
INVARIANTS TypeOK NoFoldLost Converges
PROPERTIES RecordSpec
CHECK_DEADLOCK FALSE
