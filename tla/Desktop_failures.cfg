SPECIFICATION Spec
CONSTANTS
  MaxGames <- MCMaxGames
  MaxBundles = 1
  FailingReads <- MCFailingReads
  PageSize = 1
  Plies = 1
PROPERTY
  FailuresReported
CHECK_DEADLOCK FALSE
