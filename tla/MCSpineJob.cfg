SPECIFICATION Spec
CONSTANTS
  None = None
  MaxNesting = 6
  Identifiers <- MCIdentifiers
  PrefixedNames = {"_conveyer_x"}
  PythonRegexes = {"[ab]", "(?P<x>a)"}
  JavaRegexes = {"[ab]", "(?<x>a)"}
  AlphabetFmts = {"yyyy-MM-dd", "YYYY"}
  EngineFmts = {"yyyy-MM-dd"}
  IntCells <- MCInts
  DateCells <- MCDates
  Garbled = {"g"}
  Matching <- MCMatching
  IntLimit = 9
  Scenes <- MCScenes
  Ids = {"b", "d", "f"}
  ArgvBudget = 1
  MaxRetries = 2
INVARIANTS TypeOK NoSpecFailsAStage GrammarSound RowsConserved RowsAccounted RefusedIffBroken DriftMeansChange LedgerHasNoGap LedgerTruthful SlugRoundTrips
PROPERTIES LifeSpec TablesOnlyGrow ExecutionEnds
