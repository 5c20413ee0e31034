SPECIFICATION FairSpec
CONSTANTS
  MaxGames <- MCMaxGames
  MaxBundles = 1
  FailingReads <- MCFailingReads
  PageSize = 1
  Plies = 1
INVARIANTS
  WorkersUseLiveDatabase
  QueriesExcludeImport
  ListFresh
  SearchFresh
  RecentIsWhole
PROPERTIES
  ImportOutcome
  SearchEnds
  ImportEnds
  QuitEnds
CHECK_DEADLOCK FALSE
